----------------------- MODULE NotebookHomeInvariant ------------------------
(***************************************************************************)
(* What holds of NotebookHome in every state, whatever the user may do:    *)
(* the jobs of the operations, the chain of saves and the commands on the  *)
(* way fit each other, and a save knows whether its text is still shown.   *)
(***************************************************************************)
EXTENDS NotebookHome, SequenceTheorems, TLAPS

\* The caller w has an entry in the queue s.
In(w, s) == \E i \in 1..Len(s) : s[i] = w

\* No caller has two entries in the queue s.
Distinct(s) == \A i, j \in 1..Len(s) : s[i] = s[j] => i = j

\* The steps in which a job waits for a save of the chain to return.
Waiting == {"saving", "draining", "awaiting"}

\* The operations that name a note.
OnNotes == {"select", "create", "delete", "rename", "reload"}

\* A job runs only if the user has its operation, and names notes if it is
\* about notes.
JobInv ==
    \A o \in AllOps :
        /\ jobs[o].stage = "idle" => jobs[o] = NoJob
        /\ jobs[o].stage # "idle" => o \in scene.ops
        /\ jobs[o].stage = "flush" => jobs[o].tries = 0
        /\ jobs[o].stage # "idle" /\ o \in OnNotes => jobs[o].path \in Notes
        /\ jobs[o].stage # "idle" /\ o = "rename" => jobs[o].to \in Notes

\* What the user asked for, the dialog, the issue and the watcher's read come
\* from operations the user has, and are about notes.
RequestInv ==
    /\ queued # NoNote => "select" \in scene.ops
    /\ dialog = "close" => "close" \in scene.ops
    /\ Paused => issue.path \in Notes
    /\ watch.stage # "idle" => watch.path \in Notes /\ watch.path # NoNote

\* Only the first save of the chain is under way, and it goes through its
\* stages in the order performSaveFileWithExpected does.
TaskInv ==
    \A i \in 1..Len(tasks) :
        /\ tasks[i].path \in Notes
        /\ tasks[i].stage # "queued" => i = 1 /\ tasks[i].expected \in Revisions
        /\ tasks[i].stage = "queued" => tasks[i].status = "none"
        /\ tasks[i].stage \in {"indexing", "settling"} =>
               tasks[i].status = "saved"
        /\ tasks[i].status = "saved" => tasks[i].actual = tasks[i].text

\* Who a save wakes waits for it, and for no other.
WakeInv ==
    /\ \A i \in 1..Len(tasks) :
          \A o \in tasks[i].wakes : jobs[o].stage \in Waiting
    /\ \A i, j \in 1..Len(tasks) :
          i # j => tasks[i].wakes \cap tasks[j].wakes = {}

\* The command of w is on its way, and w awaits the answer.
Sent(w) ==
    /\ w = "save" => /\ tasks # <<>>
                     /\ tasks[1].stage = "calling" /\ tasks[1].status = "none"
    /\ w = "watch" => watch.stage = "reading"
    /\ w \in {"select", "reload"} => jobs[w].stage = "reading"
    /\ w \in {"create", "delete", "rename"} => jobs[w].stage = "applying"
    /\ w \notin {"retry", "overwrite", "close"}

\* The command of w was executed, and w awaits the answer.
Replied(w) ==
    /\ w = "save" => /\ tasks # <<>>
                     /\ tasks[1].stage = "calling" /\ tasks[1].status # "none"
    /\ w = "watch" => watch.stage = "read"
    /\ w \in {"select", "reload"} => jobs[w].stage = "read"
    /\ w = "create" => jobs[w].stage = "applying"
    /\ w \in {"delete", "rename"} => jobs[w].stage = "applied"
    /\ w \notin {"retry", "overwrite", "close"}

\* Every caller has at most one command on the way, and awaits it.
CallInv ==
    /\ Distinct(calls) /\ Distinct(answers)
    /\ \A w \in Callers : ~(In(w, calls) /\ In(w, answers))
    /\ \A w \in Callers : In(w, calls) => Sent(w)
    /\ \A w \in Callers : In(w, answers) => Replied(w)

\* A save of the latest content revision holds the text of the editor, and so
\* does the timer that still is the latest.
FreshInv ==
    /\ \A i \in 1..Len(tasks) : tasks[i].fresh => tasks[i].text = text
    /\ "timer" \in current /\ timer # NoTimer => timer.text = text

\* A running save of the text shown, under a name the note no longer has.
Renamed(i) == tasks[i].stage # "queued" /\ tasks[i].fresh /\ tasks[i].path # open

\* A save of the text shown that reached the disk left nothing unsaved; a
\* rename that takes effect waited for it.
SavedInv ==
    /\ \A i \in 1..Len(tasks) :
         tasks[i].fresh /\ tasks[i].status = "saved" /\ tasks[i].path = open => ~unsaved
    /\ \A i \in 1..Len(tasks) :
         Renamed(i) => \/ jobs["rename"].stage \in {"idle", "flush"} \cup Waiting
                       \/ ~jobs["rename"].held

\* Only a dialog about closing makes overwrite or reload close the window.
CloseInv ==
    \A o \in {"overwrite", "reload"} :
        jobs[o].held \/ jobs[o].stage = "settling" => "close" \in scene.ops

\* The types, and how jobs, chain and commands fit each other.
Base == TypeOK /\ JobInv /\ RequestInv /\ TaskInv /\ WakeInv /\ CallInv

\* The inductive invariant: Base, and what the saves know of the editor.
IInv == Base /\ FreshInv /\ SavedInv /\ CloseInv

-----------------------------------------------------------------------------
(***************************************************************************)
(* The pieces of the handlers                                              *)
(***************************************************************************)

USE DEF pageVars, issueVars, queueVars, ipcVars, watchVars,
        windowVars, ghostVars, idleVars

\* What a step that keeps the chain may still do: outdate or disown its tasks.
SameChain(ts, us) ==
    /\ us \in Seq(Task)
    /\ Len(us) = Len(ts)
    /\ \A i \in 1..Len(ts) :
          /\ us[i].path = ts[i].path /\ us[i].text = ts[i].text
          /\ us[i].expected = ts[i].expected /\ us[i].stage = ts[i].stage
          /\ us[i].status = ts[i].status /\ us[i].actual = ts[i].actual
          /\ us[i].wakes = ts[i].wakes
          /\ us[i].fresh => ts[i].fresh

\* contentRevision++ outdates every task.
LEMMA OutdatedTasks ==
    ASSUME NEW ts \in Seq(Task)
    PROVE  /\ SameChain(ts, Outdated(ts))
           /\ \A i \in 1..Len(ts) :
                 Outdated(ts)[i].fresh = FALSE /\ Outdated(ts)[i].mine = ts[i].mine
<1>1. Len(ts) \in Nat /\ \A i \in 1..Len(ts) : ts[i] \in Task
    BY ElementOfSeq, LenProperties
<1>2. \A i \in 1..Len(ts) : [ts[i] EXCEPT !.fresh = FALSE] \in Task
    BY <1>1 DEF Task
<1>3. Outdated(ts) \in Seq(Task)
    BY <1>1, <1>2, IsASeq DEF Outdated
<1>4. Len(Outdated(ts)) = Len(ts)
    BY <1>1, <1>3 DEF Outdated
<1> QED  BY <1>1, <1>3, <1>4 DEF Outdated, SameChain, Task

\* saveGeneration++ disowns every task.
LEMMA DisownedTasks ==
    ASSUME NEW ts \in Seq(Task)
    PROVE  /\ SameChain(ts, Disowned(ts))
           /\ \A i \in 1..Len(ts) : Disowned(ts)[i].fresh = ts[i].fresh
<1>1. Len(ts) \in Nat /\ \A i \in 1..Len(ts) : ts[i] \in Task
    BY ElementOfSeq, LenProperties
<1>2. \A i \in 1..Len(ts) : [ts[i] EXCEPT !.mine = FALSE] \in Task
    BY <1>1 DEF Task
<1>3. Disowned(ts) \in Seq(Task)
    BY <1>1, <1>2, IsASeq DEF Disowned
<1>4. Len(Disowned(ts)) = Len(ts)
    BY <1>1, <1>3 DEF Disowned
<1> QED  BY <1>1, <1>3, <1>4 DEF Disowned, SameChain, Task

\* A step that leaves the chain alone keeps it.
LEMMA UnchangedTasks ==
    ASSUME NEW ts \in Seq(Task)
    PROVE  SameChain(ts, ts)
BY DEF SameChain

\* One task of the chain is replaced.
LEMMA ReplacedTask ==
    ASSUME NEW ts \in Seq(Task), NEW k \in 1..Len(ts), NEW t \in Task,
           NEW us, us = [ts EXCEPT ![k] = t]
    PROVE  /\ us \in Seq(Task) /\ Len(us) = Len(ts)
           /\ us[k] = t
           /\ \A i \in 1..Len(ts) : i # k => us[i] = ts[i]
<1>1. us \in Seq(Task)
    BY ExceptSeq
<1>2. Len(us) = Len(ts)
    BY ExceptSeq
<1> QED  BY <1>1, <1>2

\* One task joins the chain (saveQueue = saveQueue.then(...)).
LEMMA AppendedTask ==
    ASSUME NEW ts \in Seq(Task), NEW t \in Task
    PROVE  /\ Append(ts, t) \in Seq(Task)
           /\ Len(Append(ts, t)) = Len(ts) + 1
           /\ Append(ts, t)[Len(ts) + 1] = t
           /\ \A i \in 1..Len(ts) : Append(ts, t)[i] = ts[i]
BY AppendProperties

\* The first task leaves the chain; the others move up.
LEMMA TailTasks ==
    ASSUME NEW ts \in Seq(Task), ts # <<>>
    PROVE  /\ Tail(ts) \in Seq(Task)
           /\ Len(Tail(ts)) = Len(ts) - 1
           /\ Len(ts) \in Nat /\ Len(ts) > 0
           /\ \A i \in 1..Len(Tail(ts)) : i + 1 \in 1..Len(ts) /\ Tail(ts)[i] = ts[i + 1]
BY HeadTailProperties, EmptySeq, LenProperties

\* A chain that is not empty has a first and a last task.
LEMMA HeadTask ==
    ASSUME TypeOK, tasks # <<>>
    PROVE  tasks[1] \in Task /\ 1 \in 1..Len(tasks) /\ Len(tasks) \in 1..Len(tasks)
BY EmptySeq, LenProperties, ElementOfSeq DEF TypeOK

\* A task made of a note, a text, a revision and jobs is a task.
LEMMA NewTaskTyped ==
    ASSUME NEW p \in Notes \cup {NoNote}, NEW c \in Contents, NEW f \in BOOLEAN,
           NEW e \in Revisions \cup {Baseline}, NEW w \in SUBSET AllOps
    PROVE  NewTask(p, c, f, e, w) \in Task
BY DEF NewTask, Task, Revisions

\* Both kinds of issue are issues, about the note they are made for.
LEMMA IssuesTyped ==
    ASSUME NEW p \in Notes \cup {NoNote}, NEW a \in Revisions
    PROVE  /\ IoIssue(p) \in Issue /\ IoIssue(p).kind = "io" /\ IoIssue(p).path = p
           /\ DiskIssue(p, a) \in Issue /\ DiskIssue(p, a).path = p
BY DEF IoIssue, DiskIssue, Issue, Revisions

\* A task returns: the others move up and the jobs that waited for it go on.
LEMMA Finishes ==
    ASSUME TypeOK, tasks # <<>>, NEW ok \in BOOLEAN, Finish(ok)
    PROVE  /\ tasks' = Tail(tasks)
           /\ tasks' \in Seq(Task)
           /\ jobs' \in [AllOps -> Job]
           /\ \A o \in AllOps \ tasks[1].wakes : jobs'[o] = jobs[o]
           /\ \A o \in tasks[1].wakes :
                 /\ o \in AllOps
                 /\ jobs'[o].stage \in {"drained", "awaited", "saved", "unsaved"}
                 /\ jobs'[o].path = jobs[o].path /\ jobs'[o].to = jobs[o].to
                 /\ jobs'[o].held = jobs[o].held /\ jobs'[o].tries = jobs[o].tries
                 /\ jobs'[o].at = jobs[o].at /\ jobs'[o].snap = jobs[o].snap
<1>1. tasks' = Tail(tasks) /\ tasks' \in Seq(Task)
    BY TailTasks DEF Finish, TypeOK
<1>2. tasks[1].wakes \subseteq AllOps
    BY HeadTask DEF Task
<1>3. \A o \in AllOps : /\ Woken(jobs[o], ok) \in Job
                        /\ Woken(jobs[o], ok).stage \in
                               {"drained", "awaited", "saved", "unsaved"}
                        /\ Woken(jobs[o], ok).path = jobs[o].path
                               /\ Woken(jobs[o], ok).to = jobs[o].to
                        /\ Woken(jobs[o], ok).held = jobs[o].held
                        /\ Woken(jobs[o], ok).tries = jobs[o].tries
                        /\ Woken(jobs[o], ok).at = jobs[o].at
                        /\ Woken(jobs[o], ok).snap = jobs[o].snap
    <2> TAKE o \in AllOps
    <2>1. jobs[o] \in Job
        BY DEF TypeOK
    <2>2. PICK st \in {"drained", "awaited", "saved", "unsaved"} :
                 Woken(jobs[o], ok) = [jobs[o] EXCEPT !.stage = st]
        BY DEF Woken
    <2> QED  BY <2>1, <2>2 DEF Job, Steps
<1>4. jobs' = [o \in AllOps |-> IF o \in tasks[1].wakes THEN Woken(jobs[o], ok) ELSE jobs[o]]
    BY DEF Finish
<1>5. jobs' \in [AllOps -> Job]
    BY <1>3, <1>4 DEF TypeOK
<1> QED  BY <1>1, <1>2, <1>3, <1>4, <1>5

\* A job pushes a save of its own and waits for it.
LEMMA Pushes ==
    ASSUME TypeOK, NEW o \in AllOps, jobs[o].tries < 3, NEW t \in Task, PushTask(o, t)
    PROVE  /\ tasks' = Append(tasks, t) /\ tasks' \in Seq(Task)
           /\ current' = current \cup {o}
           /\ jobs' \in [AllOps -> Job]
           /\ \A q \in AllOps \ {o} : jobs'[q] = jobs[q]
           /\ jobs'[o].stage = "saving" /\ jobs'[o].path = jobs[o].path
           /\ jobs'[o].to = jobs[o].to /\ jobs'[o].held = jobs[o].held
<1>1. jobs[o] \in Job
    BY DEF TypeOK
<1> jobs[o].tries + 1 \in 0..3 /\ "saving" \in Steps /\ t.path \in Notes \cup {NoNote}
    BY <1>1 DEF Job, Steps, Task
<1>2. [jobs[o] EXCEPT !.stage = "saving", !.at = t.path, !.tries = @ + 1] \in Job
    BY <1>1 DEF Job
<1>3. jobs' = [jobs EXCEPT ![o] =
                             [jobs[o] EXCEPT !.stage = "saving", !.at = t.path, !.tries = @ + 1]]
    BY DEF PushTask, TypeOK
<1>4. jobs' \in [AllOps -> Job]
    BY <1>2, <1>3 DEF TypeOK
<1>5. jobs'[o] = [jobs[o] EXCEPT !.stage = "saving", !.at = t.path, !.tries = @ + 1]
    BY <1>3 DEF TypeOK
<1>6. tasks' = Append(tasks, t) /\ tasks' \in Seq(Task) /\ current' = current \cup {o}
    BY AppendedTask DEF PushTask, TypeOK
<1>7. \A q \in AllOps \ {o} : jobs'[q] = jobs[q]
    BY <1>3 DEF TypeOK
<1> QED  BY <1>1, <1>4, <1>5, <1>6, <1>7 DEF Job

\* A job waits for the last task of the chain.
LEMMA Waits ==
    ASSUME TypeOK, NEW o \in AllOps, tasks # <<>>, NEW st \in Steps, WaitForLast(o, st)
    PROVE  /\ tasks' \in Seq(Task) /\ Len(tasks') = Len(tasks)
           /\ \A i \in 1..Len(tasks) : i # Len(tasks) => tasks'[i] = tasks[i]
           /\ tasks'[Len(tasks)] = [tasks[Len(tasks)] EXCEPT !.wakes = @ \cup {o}]
           /\ jobs' \in [AllOps -> Job]
           /\ \A q \in AllOps \ {o} : jobs'[q] = jobs[q]
           /\ jobs'[o] = [jobs[o] EXCEPT !.stage = st]
<1>1. jobs[o] \in Job /\ [jobs[o] EXCEPT !.stage = st] \in Job
    BY DEF TypeOK, Job
<1>2. jobs' = [jobs EXCEPT ![o] =
                             [jobs[o] EXCEPT !.stage = st]]
    BY DEF WaitForLast, Continue, TypeOK
<1> DEFINE t == [tasks[Len(tasks)] EXCEPT !.wakes = @ \cup {o}]
<1>3. Len(tasks) \in 1..Len(tasks) /\ tasks[Len(tasks)] \in Task
    BY HeadTask, ElementOfSeq DEF TypeOK
<1>4. t \in Task
    BY <1>3 DEF Task
<1>5. tasks' = [tasks EXCEPT ![Len(tasks)] = t]
    BY <1>3 DEF WaitForLast, TypeOK
<1> HIDE DEF t
<1>6. /\ tasks' \in Seq(Task) /\ Len(tasks') = Len(tasks) /\ tasks'[Len(tasks)] = t
      /\ \A i \in 1..Len(tasks) : i # Len(tasks) => tasks'[i] = tasks[i]
    BY <1>3, <1>4, <1>5, ReplacedTask DEF TypeOK
<1>7. jobs' \in [AllOps -> Job] /\ (\A q \in AllOps \ {o} : jobs'[q] = jobs[q])
      /\ jobs'[o] = [jobs[o] EXCEPT !.stage = st]
    BY <1>1, <1>2 DEF TypeOK
<1> QED  BY <1>6, <1>7 DEF t

-----------------------------------------------------------------------------
(***************************************************************************)
(* Types                                                                   *)
(***************************************************************************)

\* The command at the head of either queue, and what its sender waits for.
LEMMA AtHead ==
    ASSUME TypeOK, CallInv, NEW w \in Callers
    PROVE  /\ Executed(w) => /\ Sent(w) /\ calls' \in Seq(Callers) /\ answers' \in Seq(Callers)
           /\ Answered(w) => Replied(w) /\ answers' \in Seq(Callers)
           /\ Send(w) => calls' \in Seq(Callers)
<1>1. ASSUME Executed(w)
      PROVE  Sent(w) /\ calls' \in Seq(Callers) /\ answers' \in Seq(Callers)
    <2>1. In(w, calls)
        BY <1>1 DEF Executed, In, TypeOK
    <2>2. Sent(w)
        BY <2>1 DEF CallInv
    <2> QED  BY <1>1, <2>2 DEF Executed, TypeOK
<1>2. ASSUME Answered(w)
      PROVE  Replied(w) /\ answers' \in Seq(Callers)
    <2>1. In(w, answers)
        BY <1>2 DEF Answered, In, TypeOK
    <2>2. Replied(w)
        BY <2>1 DEF CallInv
    <2> QED  BY <1>2, <2>2 DEF Answered, TypeOK
<1>3. Send(w) => calls' \in Seq(Callers)
    BY DEF Send, TypeOK
<1> QED  BY <1>1, <1>2, <1>3

\* Operations, saves and the watcher's read call the Rust side.
LEMMA CallerNames == AllOps \subseteq Callers /\ "save" \in Callers /\ "watch" \in Callers
BY DEF Callers

\* Typing, the timer, the indicator, the dialog and other programs.
LEMMA TypesOfPage ==
    ASSUME Base,
           \/ \E c \in Contents : Type(c)
           \/ TimerFires \/ LampOff \/ CancelDialog \/ (\E n \in scene.notes : Outside(n))
    PROVE  TypeOK'
<1> USE DEF Base
<1>1. ASSUME NEW c \in Contents, Type(c)  PROVE TypeOK'
    <2>1. tasks' \in Seq(Task)
        BY <1>1, OutdatedTasks DEF Type, TypeOK, SameChain
    <2> QED  BY <1>1, <2>1 DEF Type, TypeOK, Report, ClearSaveIssue
<1>2. CASE TimerFires
    <2>1. timer.path \in Notes /\ timer.text \in Contents
        BY <1>2 DEF TimerFires, TypeOK
    <2>2. NewTask(timer.path, timer.text, "timer" \in current, Baseline, {}) \in Task
        <3>1. ("timer" \in current) \in BOOLEAN /\ {} \in SUBSET AllOps
            OBVIOUS
        <3> QED  BY <2>1, <3>1, NewTaskTyped
    <2>3. tasks' \in Seq(Task)
        BY <1>2, <2>2, AppendedTask DEF TimerFires, TypeOK
    <2> QED  BY <1>2, <2>3 DEF TimerFires, TypeOK
<1>3. CASE LampOff
    BY <1>3 DEF LampOff, TypeOK
<1>4. CASE CancelDialog
    BY <1>4 DEF CancelDialog, TypeOK
<1>5. ASSUME NEW n \in scene.notes, Outside(n)  PROVE TypeOK'
    <2>1. n \in Notes
        BY ScenesAssumption DEF TypeOK, Scene
    <2> QED  BY <1>5, <2>1 DEF Outside, Seen, TypeOK
<1> QED  BY <1>1, <1>2, <1>3, <1>4, <1>5

\* The handlers of a save (runSaveTask, performSaveFileWithExpected).
LEMMA TypesOfSaves ==
    ASSUME Base, StartTask \/ SaveExecuted \/ SaveAnswered \/ Indexed \/ Settled
    PROVE  TypeOK'
<1> USE DEF Base
<1>0. tasks # <<>> /\ tasks[1] \in Task /\ 1 \in 1..Len(tasks) /\ tasks[1].path \in Notes
    <2>1. tasks # <<>>
        BY CallerNames, AtHead DEF StartTask, HeadQueued, SaveExecuted, SaveAnswered, Indexed,
               Settled, Sent, Replied
    <2> QED  BY <2>1, HeadTask DEF TaskInv
<1> DEFINE t == tasks[1]
<1>f. ASSUME NEW ok \in BOOLEAN, Finish(ok)
      PROVE  tasks' \in Seq(Task) /\ jobs' \in [AllOps -> Job]
    BY <1>0, <1>f, Finishes
<1>r. ASSUME NEW u \in Task, tasks' = [tasks EXCEPT ![1] = u]
      PROVE  tasks' \in Seq(Task)
    BY <1>0, <1>r, ReplacedTask DEF TypeOK
<1>i. IoIssue(t.path) \in Issue /\ DiskIssue(t.path, t.actual) \in Issue
    BY <1>0, IssuesTyped DEF Task
<1>a. ASSUME NEW s \in {"saved", "conflict", "failed"}, NEW a \in Revisions, Answer(s, a)
      PROVE  tasks' \in Seq(Task)
    <2>1. [t EXCEPT !.status = s, !.actual = a] \in Task
        BY <1>0 DEF Task
    <2> QED  BY <1>a, <1>0, <1>r, <2>1 DEF Answer, TypeOK
<1>s. ASSUME NEW slow \in BOOLEAN, SwitchOff(t.mine, slow)
      PROVE  saving' \in BOOLEAN /\ lamp' \in BOOLEAN
    BY <1>s DEF SwitchOff, TypeOK
<1>b. baseline \in Revisions /\ disk[t.path] \in Revisions /\ t.text \in Contents
    BY <1>0 DEF TypeOK, Task
<1> HIDE DEF t
<1>1. CASE StartTask
    <2>1. CASE /\ tasks' = [tasks EXCEPT ![1].stage = "calling", ![1].mine = TRUE,
                          ![1].expected = IF @ = Baseline THEN baseline ELSE @]
               /\ saving' = TRUE
               /\ Send("save")
               /\ UNCHANGED <<issueVars, jobs>>
        <3>1. [t EXCEPT !.stage = "calling", !.mine = TRUE,
                        !.expected = IF @ = Baseline THEN baseline ELSE @] \in Task
            BY <1>0, <1>b DEF t, Task
        <3>2. tasks' \in Seq(Task)
            BY <1>0, <1>r, <2>1, <3>1 DEF t, TypeOK
        <3>3. calls' \in Seq(Callers)
            BY <2>1, AtHead, CallerNames
        <3> QED  BY <1>1, <2>1, <3>2, <3>3 DEF StartTask, TypeOK
    <2>2. CASE Report(IoIssue(t.path)) /\ saving' = FALSE /\ Finish(FALSE)
                 /\ UNCHANGED <<dialog, calls>>
        BY <1>1, <1>f, <1>i, <2>2 DEF StartTask, TypeOK, Report
    <2> QED  BY <1>1, <2>1, <2>2 DEF StartTask, t
<1>2. CASE SaveExecuted
    <2>1. calls' \in Seq(Callers) /\ answers' \in Seq(Callers)
        BY <1>2, AtHead, CallerNames DEF SaveExecuted
    <2>2. tasks' \in Seq(Task)
        BY <1>2, <1>a, <1>b DEF SaveExecuted, t, Revisions
    <2>3. disk' \in [Notes -> Revisions] /\ known' \in [Notes -> SUBSET Revisions]
          /\ unsaved' \in BOOLEAN /\ events' \subseteq Notes \X {"gone", "changed"}
        <3>1. CASE WriteNote(t)
            BY <1>0, <1>b, <3>1 DEF t, TypeOK, WriteNote, Seen, Revisions
        <3>2. CASE UNCHANGED <<disk, events, known, unsaved>>
            BY <3>2 DEF TypeOK
        <3> QED  BY <1>2, <3>1, <3>2 DEF SaveExecuted, t
    <2> QED  BY <1>2, <2>1, <2>2, <2>3 DEF SaveExecuted, TypeOK
<1>3. CASE SaveAnswered
    <2>1. answers' \in Seq(Callers)
        BY <1>3, AtHead, CallerNames DEF SaveAnswered
    <2>2. CASE SaveConflict(t)
        BY <1>3, <1>f, <1>i, <1>s, <2>1, <2>2 DEF SaveAnswered, SaveConflict, TypeOK, Report
    <2>3. CASE SaveFailed(t)
        <3>1. issue' \in Issue \cup {NoIssue} /\ pinned' \in BOOLEAN
            BY <1>i, <2>3 DEF SaveFailed, Report, TypeOK
        <3> QED  BY <1>3, <1>f, <1>s, <2>1, <2>3, <3>1 DEF SaveAnswered, SaveFailed, TypeOK
    <2>4. CASE SaveDone(t)
        <3>1. [t EXCEPT !.stage = "indexing"] \in Task /\ t.actual \in Revisions
            BY <1>0 DEF Task, t
        <3>2. tasks' \in Seq(Task) /\ jobs' \in [AllOps -> Job]
            BY <1>0, <1>f, <1>r, <2>4, <3>1 DEF SaveDone, TypeOK, t
        <3>3. /\ issue' \in Issue \cup {NoIssue} /\ pinned' \in BOOLEAN
                     /\ baseline' \in Revisions
              /\ current' \subseteq AllOps \cup {"timer", "watch"}
            BY <2>4, <3>1 DEF SaveDone, Report, ClearSaveIssue, TypeOK
        <3> QED  BY <1>3, <2>1, <2>4, <3>2, <3>3 DEF SaveAnswered, SaveDone, TypeOK
    <2> QED  BY <1>3, <2>2, <2>3, <2>4 DEF SaveAnswered, t
<1>4. CASE Indexed
    <2>1. [t EXCEPT !.stage = "settling"] \in Task
        BY <1>0 DEF Task, t
    <2>2. tasks' \in Seq(Task) /\ jobs' \in [AllOps -> Job]
        BY <1>0, <1>4, <1>f, <1>r, <2>1 DEF Indexed, TypeOK, t
    <2>3. saving' \in BOOLEAN /\ lamp' \in BOOLEAN
        BY <1>4, <1>s DEF Indexed, TypeOK, t
    <2> QED  BY <1>4, <2>2, <2>3 DEF Indexed, TypeOK
<1>5. CASE Settled
    <2>1. tasks' \in Seq(Task) /\ jobs' \in [AllOps -> Job]
        BY <1>5, <1>f DEF Settled
    <2>2. saving' \in BOOLEAN /\ lamp' \in BOOLEAN
        BY <1>5, <1>s DEF Settled, TypeOK, t
    <2> QED  BY <1>5, <2>1, <2>2 DEF Settled, TypeOK
<1> QED  BY <1>1, <1>2, <1>3, <1>4, <1>5

\* A flush tries at most three times.
LEMMA Attempts ==
    ASSUME TypeOK, NEW o \in AllOps, jobs[o].tries < 3, Attempt(o)
    PROVE  /\ tasks' \in Seq(Task) /\ jobs' \in [AllOps -> Job]
           /\ current' \subseteq AllOps \cup {"timer", "watch"}
<1>1. CASE open # NoNote /\ PushTask(o, NewTask(open, text, TRUE, Baseline, {o}))
    <2>1. NewTask(open, text, TRUE, Baseline, {o}) \in Task
        BY NewTaskTyped DEF TypeOK
    <2> QED  BY <1>1, <2>1, Pushes DEF TypeOK
<1>2. CASE tasks # <<>> /\ WaitForLast(o, "awaiting") /\ current' = current \cup {o}
    BY <1>2, Waits DEF TypeOK, Steps
<1>3. CASE Continue(o, "blocked") /\ UNCHANGED <<tasks, current>>
    <2>0. jobs[o] \in Job /\ "blocked" \in Steps
        BY DEF TypeOK, Steps
    <2>1. [jobs[o] EXCEPT !.stage = "blocked"] \in Job
        BY <2>0 DEF Job
    <2> QED  BY <1>3, <2>1 DEF Continue, TypeOK
<1> QED  BY <1>1, <1>2, <1>3 DEF Attempt

\* A flush returns to the operation that asked for it.
LEMMA Leaves ==
    ASSUME TypeOK, NEW o \in AllOps, NEW ok \in BOOLEAN, LeaveFlush(o, ok)
    PROVE  /\ tasks' \in Seq(Task) /\ jobs' \in [AllOps -> Job]
           /\ current' \subseteq AllOps \cup {"timer", "watch"}
<1>0. jobs[o] \in Job /\ "blocked" \in Steps /\ "flushed" \in Steps /\ 0 \in 0..3
    BY DEF TypeOK, Steps
<1>1. \A st \in {"flushed", "blocked"} :
          [jobs[o] EXCEPT !.stage = st, !.at = NoNote, !.tries = 0] \in Job
    BY <1>0 DEF Job
<1>2. jobs' \in [AllOps -> Job]
    BY <1>1 DEF LeaveFlush, TypeOK
<1> QED  BY <1>2 DEF LeaveFlush, TypeOK

\* An operation goes on to its next await.
LEMMA JobContinues ==
    ASSUME TypeOK, NEW o \in AllOps, NEW st \in Steps, Continue(o, st)
    PROVE  /\ jobs' \in [AllOps -> Job]
           /\ \A q \in AllOps \ {o} : jobs'[q] = jobs[q]
           /\ jobs'[o] = [jobs[o] EXCEPT !.stage = st]
<1>1. jobs[o] \in Job
    BY DEF TypeOK
<1>2. [jobs[o] EXCEPT !.stage = st] \in Job
    BY <1>1 DEF Job
<1> QED  BY <1>2 DEF Continue, TypeOK

\* An operation returns.
LEMMA JobEnds ==
    ASSUME TypeOK, NEW o \in AllOps, EndJob(o)
    PROVE  /\ jobs' \in [AllOps -> Job]
           /\ \A q \in AllOps \ {o} : jobs'[q] = jobs[q]
           /\ jobs'[o] = NoJob
<1>1. NoJob \in Job
    BY DEF NoJob, Job, Steps, Revisions
<1> QED  BY <1>1 DEF EndJob, TypeOK

\* A job is begun, or given a new state.
LEMMA JobSet ==
    ASSUME TypeOK, NEW o \in AllOps, NEW j \in Job, jobs' = [jobs EXCEPT ![o] = j]
    PROVE  /\ jobs' \in [AllOps -> Job]
           /\ \A q \in AllOps \ {o} : jobs'[q] = jobs[q]
           /\ jobs'[o] = j
BY DEF TypeOK

\* A new job is a job.
LEMMA JobBegins ==
    ASSUME NEW st \in Steps, NEW p \in Notes \cup {NoNote}, NEW q \in Notes \cup {NoNote},
           NEW h \in BOOLEAN
    PROVE  /\ [NoJob EXCEPT !.stage = st] \in Job
           /\ [NoJob EXCEPT !.stage = st, !.held = h] \in Job
           /\ [NoJob EXCEPT !.stage = st, !.path = p] \in Job
           /\ [NoJob EXCEPT !.path = p, !.stage = st] \in Job
           /\ [NoJob EXCEPT !.stage = st, !.path = p, !.held = h] \in Job
           /\ [NoJob EXCEPT !.path = p, !.to = q, !.held = h, !.stage = st] \in Job
<1>1. NoJob \in Job
    BY DEF NoJob, Job, Steps, Revisions
<1> QED  BY <1>1 DEF Job

\* Flushing before an operation, and saving once more (flushPendingSaves,
\* retrySave).
LEMMA TypesOfFlushes ==
    ASSUME Base,
           \/ \E o \in AllOps : Flush(o) \/ FlushGoesOn(o)
           \/ AskRetry \/ RetryDone
    PROVE  TypeOK'
<1> USE DEF Base
<1>1. ASSUME NEW o \in AllOps, Flush(o)  PROVE TypeOK'
    <2>1. jobs[o].tries < 3
        BY <1>1 DEF Flush, JobInv
    <2>2. /\ tasks' \in Seq(Task) /\ jobs' \in [AllOps -> Job]
          /\ current' \subseteq AllOps \cup {"timer", "watch"}
        <3>1. CASE WaitForLast(o, "draining") /\ UNCHANGED current /\ tasks # <<>>
            BY <3>1, Waits DEF TypeOK, Steps
        <3>2. CASE LeaveFlush(o, issue = NoIssue)
            BY <3>2, Leaves
        <3> QED  BY <1>1, <2>1, <3>1, <3>2, Attempts DEF Flush
    <2> QED  BY <1>1, <2>2 DEF Flush, TypeOK
<1>2. ASSUME NEW o \in AllOps, FlushGoesOn(o)  PROVE TypeOK'
    <2>1. /\ tasks' \in Seq(Task) /\ jobs' \in [AllOps -> Job]
          /\ current' \subseteq AllOps \cup {"timer", "watch"}
        <3>1. CASE \E ok \in BOOLEAN : LeaveFlush(o, ok)
            BY <3>1, Leaves
        <3>2. CASE Attempt(o) /\ jobs[o].tries < 3
            BY <3>2, Attempts
        <3> QED  BY <1>2, <3>1, <3>2 DEF FlushGoesOn
    <2> QED  BY <1>2, <2>1 DEF FlushGoesOn, TypeOK
<1>3. CASE AskRetry
    <2>1. jobs["retry"].tries < 3 /\ "retry" \in AllOps
        BY <1>3 DEF AskRetry, UserMay, JobInv, NoJob, AllOps
    <2>2. /\ tasks' \in Seq(Task) /\ jobs' \in [AllOps -> Job]
          /\ current' \subseteq AllOps \cup {"timer", "watch"}
        <3>1. NewTask(open, text, TRUE, Baseline, {"retry"}) \in Task
            BY <2>1, NewTaskTyped DEF TypeOK
        <3>2. CASE PushTask("retry", NewTask(open, text, TRUE, Baseline, {"retry"}))
            BY <2>1, <3>1, <3>2, Pushes DEF TypeOK
        <3> QED  BY <1>3, <3>2 DEF AskRetry, TypeOK
    <2> QED  BY <1>3, <2>2 DEF AskRetry, TypeOK
<1>4. CASE RetryDone
    <2>1. jobs' \in [AllOps -> Job]
        BY <1>4, JobEnds DEF RetryDone, AllOps
    <2>2. issue' \in Issue \cup {NoIssue} /\ pinned' \in BOOLEAN
        <3>1. IoIssue(open) \in Issue
            BY IssuesTyped DEF TypeOK
        <3> QED  BY <1>4, <3>1 DEF RetryDone, Report, TypeOK
    <2> QED  BY <1>4, <2>1, <2>2 DEF RetryDone, TypeOK
<1> QED  BY <1>1, <1>2, <1>3, <1>4

\* Counting a revision or a generation up leaves the chain a chain of tasks.
LEMMA OutdatedTyped == TypeOK => Outdated(tasks) \in Seq(Task) /\ Disowned(tasks) \in Seq(Task)
BY OutdatedTasks, DisownedTasks DEF TypeOK, SameChain

\* The page shows another text, or none.
LEMMA ShowTyped ==
    ASSUME TypeOK,
           \/ \E p \in Notes \cup {NoNote}, c \in Contents, base \in Revisions,
                 consent \in BOOLEAN :
                  Show(p, c, base, consent)
           \/ \E consent \in BOOLEAN : ClearActiveNoteState(consent)
           \/ EnterCreated /\ jobs["create"].path \in Notes
           \/ UNCHANGED <<open, text, baseline, current, ghostVars>>
    PROVE  /\ open' \in Notes \cup {NoNote} /\ text' \in Contents /\ baseline' \in Revisions
           /\ current' \subseteq AllOps \cup {"timer", "watch"}
           /\ unsaved' \in BOOLEAN /\ lost' \in BOOLEAN /\ known' \in [Notes -> SUBSET Revisions]
<1>1. ASSUME NEW p \in Notes \cup {NoNote}, NEW c \in Contents, NEW base \in Revisions,
             NEW consent \in BOOLEAN, Show(p, c, base, consent)
      PROVE  /\ open' \in Notes \cup {NoNote} /\ text' \in Contents /\ baseline' \in Revisions
             /\ current' \subseteq AllOps \cup {"timer", "watch"}
             /\ unsaved' \in BOOLEAN /\ lost' \in BOOLEAN
                    /\ known' \in [Notes -> SUBSET Revisions]
    BY <1>1 DEF Show, TypeOK
<1>2. Blank \in Contents /\ Blank \in Revisions /\ Missing \in Revisions
    BY BlankAssumption DEF Revisions
<1>3. CASE \E consent \in BOOLEAN : ClearActiveNoteState(consent)
    BY <1>1, <1>2, <1>3 DEF ClearActiveNoteState
<1>4. CASE EnterCreated /\ jobs["create"].path \in Notes
    BY <1>1, <1>2, <1>4 DEF EnterCreated
<1>5. CASE UNCHANGED <<open, text, baseline, current, ghostVars>>
    BY <1>5 DEF TypeOK
<1> QED  BY <1>1, <1>3, <1>4, <1>5

\* Selecting a note (selectNote, performSelectNote).
LEMMA TypesOfSelect ==
    ASSUME Base,
           \/ \E n \in scene.notes : AskSelect(n)
           \/ StartSelect \/ SelectFlushed \/ SelectStat \/ SelectAnswered \/ SelectDone
    PROVE  TypeOK'
<1> USE DEF Base
<1>0. "select" \in AllOps /\ "select" \in Callers /\ jobs["select"] \in Job
      /\ {"stat", "reading", "listing", "flush"} \subseteq Steps
    BY DEF AllOps, Callers, TypeOK, Steps
<1>e. EndSelect => jobs' \in [AllOps -> Job] /\ locked' \in BOOLEAN
    BY <1>0, JobEnds DEF EndSelect, TypeOK
<1>c. \A st \in Steps : Continue("select", st) => jobs' \in [AllOps -> Job]
    BY <1>0, JobContinues
<1>1. ASSUME NEW n \in scene.notes, AskSelect(n)  PROVE TypeOK'
    <2>1. n \in Notes
        BY ScenesAssumption DEF TypeOK, Scene
    <2> QED  BY <1>1, <2>1 DEF AskSelect, TypeOK
<1>2. CASE StartSelect
    <2>1. [NoJob EXCEPT !.stage = "flush", !.path = queued] \in Job
        BY <1>0, JobBegins DEF TypeOK
    <2>2. jobs' \in [AllOps -> Job]
        BY <1>0, <1>2, <2>1 DEF StartSelect, TypeOK
    <2> QED  BY <1>2, <2>2 DEF StartSelect, TypeOK
<1>3. CASE SelectFlushed
    BY <1>0, <1>3, <1>e, <1>c DEF SelectFlushed, TypeOK
<1>4. CASE SelectStat
    <2>1. calls' \in Seq(Callers) /\ jobs' \in [AllOps -> Job] /\ locked' \in BOOLEAN
        BY <1>0, <1>4, <1>e, <1>c, AtHead DEF SelectStat, TypeOK
    <2> QED  BY <1>4, <2>1 DEF SelectStat, TypeOK, ClearSaveIssue, Report
<1>5. CASE SelectAnswered
    <2>1. answers' \in Seq(Callers) /\ jobs' \in [AllOps -> Job] /\ locked' \in BOOLEAN
        BY <1>0, <1>5, <1>e, <1>c, AtHead DEF SelectAnswered, TypeOK
    <2>2. tasks' \in Seq(Task)
        BY <1>5, OutdatedTyped DEF SelectAnswered, TypeOK
    <2>3. jobs["select"].path \in Notes
        BY <1>0, <1>5, AtHead DEF SelectAnswered, Replied, JobInv, OnNotes
    <2>4. /\ open' \in Notes \cup {NoNote} /\ text' \in Contents /\ baseline' \in Revisions
          /\ current' \subseteq AllOps \cup {"timer", "watch"}
          /\ unsaved' \in BOOLEAN /\ lost' \in BOOLEAN /\ known' \in [Notes -> SUBSET Revisions]
        <3>1. jobs["select"].snap # Missing =>
                  jobs["select"].snap \in Contents /\ jobs["select"].snap \in Revisions
            BY <1>0 DEF Job, Revisions
        <3> QED  BY <1>5, <2>3, <3>1, ShowTyped DEF SelectAnswered
    <2>5. /\ dirty' \in BOOLEAN /\ issue' \in Issue \cup {NoIssue} /\ pinned' \in BOOLEAN
          /\ saving' \in BOOLEAN
        BY <1>5 DEF SelectAnswered, ClearActiveNoteState, ClearSaveIssue, Report, TypeOK
    <2> QED  BY <1>5, <2>1, <2>2, <2>4, <2>5 DEF SelectAnswered, TypeOK
<1>6. CASE SelectDone
    BY <1>6, <1>e DEF SelectDone, TypeOK
<1> QED  BY <1>1, <1>2, <1>3, <1>4, <1>5, <1>6

\* Creating a note.
LEMMA TypesOfCreate ==
    ASSUME Base,
           \/ \E n \in scene.notes : AskCreate(n)
           \/ CreateFlushed \/ CreateExecuted \/ CreateAnswered \/ CreateListed
    PROVE  TypeOK'
<1> USE DEF Base
<1>0. "create" \in AllOps /\ "create" \in Callers /\ jobs["create"] \in Job
      /\ {"applying", "listing", "flush"} \subseteq Steps
      /\ Blank \in Revisions /\ Missing \in Revisions
    BY BlankAssumption DEF AllOps, Callers, TypeOK, Steps, Revisions
<1>e. EndJob("create") => jobs' \in [AllOps -> Job]
    BY <1>0, JobEnds
<1>c. \A st \in Steps : Continue("create", st) => jobs' \in [AllOps -> Job]
    BY <1>0, JobContinues
<1>1. ASSUME NEW n \in scene.notes, AskCreate(n)  PROVE TypeOK'
    <2>1. n \in Notes
        BY ScenesAssumption DEF TypeOK, Scene
    <2>2. [NoJob EXCEPT !.stage = "flush", !.path = n] \in Job
        BY <1>0, <2>1, JobBegins
    <2>3. jobs' \in [AllOps -> Job]
        BY <1>0, <1>1, <2>2 DEF AskCreate, TypeOK
    <2> QED  BY <1>1, <2>3 DEF AskCreate, TypeOK
<1>2. CASE CreateFlushed
    <2>1. calls' \in Seq(Callers) /\ jobs' \in [AllOps -> Job] /\ locked' \in BOOLEAN
        BY <1>0, <1>2, <1>e, <1>c, AtHead DEF CreateFlushed, TypeOK
    <2> QED  BY <1>2, <2>1 DEF CreateFlushed, TypeOK
<1>3. CASE CreateExecuted
    <2>1. calls' \in Seq(Callers) /\ answers' \in Seq(Callers) /\ jobs["create"].path \in Notes
        BY <1>0, <1>3, AtHead DEF CreateExecuted, Sent, JobInv, OnNotes
    <2>2. [jobs["create"] EXCEPT !.snap = Blank] \in Job
        BY <1>0 DEF Job
    <2>3. jobs' \in [AllOps -> Job]
        BY <1>0, <1>3, <2>2 DEF CreateExecuted, TypeOK
    <2> DEFINE n == jobs["create"].path
    <2>4. Blank \in Revisions /\ {Blank} \in SUBSET Revisions
        BY BlankAssumption DEF Revisions
    <2>5. [disk EXCEPT ![n] = Blank] \in [Notes -> Revisions]
        BY <2>1, <2>4 DEF TypeOK
    <2>6. [known EXCEPT ![n] = {Blank}] \in [Notes -> SUBSET Revisions]
        BY <2>1, <2>4 DEF TypeOK
    <2>7. events \cup {<<n, "changed">>} \subseteq Notes \X {"gone", "changed"}
        BY <2>1 DEF TypeOK
    <2>8. disk' \in [Notes -> Revisions] /\ known' \in [Notes -> SUBSET Revisions]
          /\ events' \subseteq Notes \X {"gone", "changed"}
        BY <1>3, <2>5, <2>6, <2>7 DEF CreateExecuted, Seen, TypeOK
    <2> QED  BY <1>3, <2>1, <2>3, <2>8 DEF CreateExecuted, TypeOK
<1>4. CASE CreateAnswered
    <2>1. answers' \in Seq(Callers) /\ jobs' \in [AllOps -> Job] /\ locked' \in BOOLEAN
        BY <1>0, <1>4, <1>e, <1>c, AtHead DEF CreateAnswered, TypeOK
    <2> QED  BY <1>4, <2>1 DEF CreateAnswered, TypeOK
<1>5. CASE CreateListed
    <2>1. jobs' \in [AllOps -> Job] /\ jobs["create"].path \in Notes
        BY <1>0, <1>5, <1>e DEF CreateListed, JobInv, OnNotes
    <2>2. tasks' \in Seq(Task)
        BY <1>5, OutdatedTyped DEF CreateListed, EnterCreated, TypeOK
    <2>3. /\ open' \in Notes \cup {NoNote} /\ text' \in Contents /\ baseline' \in Revisions
          /\ current' \subseteq AllOps \cup {"timer", "watch"}
          /\ unsaved' \in BOOLEAN /\ lost' \in BOOLEAN /\ known' \in [Notes -> SUBSET Revisions]
        BY <1>5, <2>1, ShowTyped DEF CreateListed
    <2>4. /\ dirty' \in BOOLEAN /\ issue' \in Issue \cup {NoIssue} /\ pinned' \in BOOLEAN
          /\ saving' \in BOOLEAN
        BY <1>5 DEF CreateListed, EnterCreated, ClearSaveIssue, Report, TypeOK
    <2> QED  BY <1>5, <2>1, <2>2, <2>3, <2>4 DEF CreateListed, TypeOK
<1> QED  BY <1>1, <1>2, <1>3, <1>4, <1>5

\* The reads of selecting and of reloading, executed.
LEMMA TypesOfReads ==
    ASSUME Base, JobReads("select") \/ JobReads("reload")
    PROVE  TypeOK'
<1> USE DEF Base
<1> SUFFICES ASSUME NEW o \in {"select", "reload"}, JobReads(o)  PROVE TypeOK'
    OBVIOUS
<1>1. o \in AllOps /\ o \in Callers /\ jobs[o] \in Job /\ "read" \in Steps
    BY DEF AllOps, Callers, TypeOK, Steps
<1>2. calls' \in Seq(Callers) /\ answers' \in Seq(Callers)
    BY <1>1, AtHead DEF JobReads
<1>3. PICK snap \in Revisions : jobs' = [jobs EXCEPT ![o].stage = "read", ![o].snap = snap]
    BY DEF JobReads
<1>4. [jobs[o] EXCEPT !.stage = "read", !.snap = snap] \in Job
    BY <1>1 DEF Job
<1>5. jobs' \in [AllOps -> Job]
    BY <1>1, <1>3, <1>4 DEF TypeOK
<1> QED  BY <1>2, <1>5 DEF JobReads, TypeOK

\* Deleting and renaming a note.
LEMMA TypesOfDelete ==
    ASSUME Base,
           \/ \E n \in scene.notes : AskDelete(n)
           \/ \E n, m \in scene.notes : AskRename(n, m)
           \/ Flushed("delete") \/ Flushed("rename")
           \/ DeleteExecuted \/ RenameExecuted \/ DeleteAnswered \/ RenameAnswered
    PROVE  TypeOK'
<1> USE DEF Base
<1>0. /\ {"delete", "rename"} \subseteq AllOps /\ {"delete", "rename"} \subseteq Callers
      /\ \A o \in {"delete", "rename"} : jobs[o] \in Job
      /\ {"applying", "applied", "flush", "flushed"} \subseteq Steps
      /\ Blank \in Revisions /\ Missing \in Revisions
    BY BlankAssumption DEF AllOps, Callers, TypeOK, Steps, Revisions
<1>a. ASSUME NEW o \in {"delete", "rename"}, NEW ok \in BOOLEAN, Applied(o, ok)
      PROVE  jobs' \in [AllOps -> Job]
    <2>1. PICK r \in Revisions : jobs' = [jobs EXCEPT ![o].stage = "applied", ![o].snap = r]
        BY <1>0, <1>a DEF Applied
    <2>2. [jobs[o] EXCEPT !.stage = "applied", !.snap = r] \in Job
        BY <1>0 DEF Job
    <2> QED  BY <1>0, <2>1, <2>2 DEF TypeOK
<1>1. ASSUME NEW n \in scene.notes, AskDelete(n)  PROVE TypeOK'
    <2>1. n \in Notes
        BY ScenesAssumption DEF TypeOK, Scene
    <2>2. [NoJob EXCEPT !.path = n, !.stage = IF open = n THEN "flush" ELSE "flushed"] \in Job
        BY <1>0, <2>1, JobBegins
    <2>3. jobs' \in [AllOps -> Job]
        BY <1>0, <1>1, <2>2 DEF AskDelete, TypeOK
    <2>4. UNCHANGED <<idleVars, locked, queued>>
        BY <1>1 DEF AskDelete
    <2> QED  BY <2>3, <2>4 DEF TypeOK
<1>2. ASSUME NEW n \in scene.notes, NEW m \in scene.notes, AskRename(n, m)  PROVE TypeOK'
    <2>1. n \in Notes /\ m \in Notes /\ (open = n) \in BOOLEAN
        BY ScenesAssumption DEF TypeOK, Scene
    <2>2. [NoJob EXCEPT !.path = n, !.to = m, !.held = (open = n),
                        !.stage = IF open = n THEN "flush" ELSE "flushed"] \in Job
        BY <1>0, <2>1, JobBegins
    <2>3. jobs' \in [AllOps -> Job]
        BY <1>0, <1>2, <2>2 DEF AskRename, TypeOK
    <2>4. UNCHANGED <<idleVars, locked, queued>>
        BY <1>2 DEF AskRename
    <2> QED  BY <2>3, <2>4 DEF TypeOK
<1>3. ASSUME NEW o \in {"delete", "rename"}, Flushed(o)  PROVE TypeOK'
    <2>1. jobs' \in [AllOps -> Job] /\ calls' \in Seq(Callers)
        BY <1>0, <1>3, JobEnds, JobContinues, AtHead DEF Flushed, TypeOK
    <2>2. timer' \in [path : Notes, text : Contents] \cup {NoTimer} /\ tasks' \in Seq(Task)
          /\ lamp' \in BOOLEAN
        BY <1>3, OutdatedTyped DEF Flushed, ClearPendingSaveForPath, TypeOK
    <2> QED  BY <1>3, <2>1, <2>2 DEF Flushed, TypeOK
<1>4. CASE DeleteExecuted
    <2>1. calls' \in Seq(Callers) /\ answers' \in Seq(Callers) /\ jobs["delete"].path \in Notes
        BY <1>0, <1>4, AtHead DEF DeleteExecuted, Sent, JobInv, OnNotes
    <2>2. jobs' \in [AllOps -> Job]
        BY <1>4, <1>a DEF DeleteExecuted
    <2>3. disk' \in [Notes -> Revisions]
        BY <1>0, <1>4, <2>1 DEF DeleteExecuted, TypeOK
    <2>4. CASE Seen({<<jobs["delete"].path, "gone">>})
        <3>1. events' \subseteq Notes \X {"gone", "changed"}
            BY <2>1, <2>4 DEF Seen, TypeOK
        <3> QED  BY <1>4, <2>1, <2>2, <2>3, <3>1 DEF DeleteExecuted, TypeOK
    <2>5. CASE UNCHANGED events
        BY <1>4, <2>1, <2>2, <2>3, <2>5 DEF DeleteExecuted, TypeOK
    <2> QED  BY <1>4, <2>4, <2>5 DEF DeleteExecuted
<1>5. CASE RenameExecuted
    <2>1. calls' \in Seq(Callers) /\ answers' \in Seq(Callers)
          /\ jobs["rename"].path \in Notes /\ jobs["rename"].to \in Notes
        BY <1>0, <1>5, AtHead DEF RenameExecuted, Sent, JobInv, OnNotes
    <2>2. jobs' \in [AllOps -> Job]
        BY <1>5, <1>a DEF RenameExecuted
    <2>3. disk' \in [Notes -> Revisions] /\ known' \in [Notes -> SUBSET Revisions]
        BY <1>0, <1>5, <2>1 DEF RenameExecuted, TypeOK
    <2>4. CASE Seen({<<jobs["rename"].path, "gone">>, <<jobs["rename"].to, "changed">>})
        <3>1. events' \subseteq Notes \X {"gone", "changed"}
            BY <2>1, <2>4 DEF Seen, TypeOK
        <3> QED  BY <1>5, <2>1, <2>2, <2>3, <3>1 DEF RenameExecuted, TypeOK
    <2>5. CASE UNCHANGED events
        BY <1>5, <2>1, <2>2, <2>3, <2>5 DEF RenameExecuted, TypeOK
    <2> QED  BY <1>5, <2>4, <2>5 DEF RenameExecuted
<1>6. CASE DeleteAnswered
    <2>1. answers' \in Seq(Callers) /\ jobs' \in [AllOps -> Job]
        BY <1>0, <1>6, JobEnds, AtHead DEF DeleteAnswered
    <2>2. tasks' \in Seq(Task)
        BY <1>6, OutdatedTyped DEF DeleteAnswered, TypeOK
    <2>3. /\ open' \in Notes \cup {NoNote} /\ text' \in Contents /\ baseline' \in Revisions
          /\ current' \subseteq AllOps \cup {"timer", "watch"}
          /\ unsaved' \in BOOLEAN /\ lost' \in BOOLEAN /\ known' \in [Notes -> SUBSET Revisions]
        BY <1>6, ShowTyped DEF DeleteAnswered
    <2>4. /\ dirty' \in BOOLEAN /\ issue' \in Issue \cup {NoIssue} /\ pinned' \in BOOLEAN
          /\ saving' \in BOOLEAN
        BY <1>6 DEF DeleteAnswered, ClearActiveNoteState, ClearSaveIssue, Report, TypeOK
    <2> QED  BY <1>6, <2>1, <2>2, <2>3, <2>4 DEF DeleteAnswered, TypeOK
<1>7. CASE RenameAnswered
    <2>1. answers' \in Seq(Callers) /\ jobs' \in [AllOps -> Job]
        BY <1>0, <1>7, JobEnds, AtHead DEF RenameAnswered
    <2>2. open' \in Notes \cup {NoNote}
        BY <1>0, <1>7 DEF RenameAnswered, TypeOK, Job
    <2> QED  BY <1>7, <2>1, <2>2 DEF RenameAnswered, TypeOK
<1> QED  BY <1>1, <1>2, <1>3, <1>4, <1>5, <1>6, <1>7

\* Overwriting and reloading from the recovery dialog.
LEMMA TypesOfRecovery ==
    ASSUME Base, AskOverwrite \/ OverwriteDone \/ AskReload \/ ReloadAnswered
    PROVE  TypeOK'
<1> USE DEF Base
<1>0. /\ {"overwrite", "reload"} \subseteq AllOps /\ "reload" \in Callers
      /\ \A o \in {"overwrite", "reload"} : jobs[o] \in Job
      /\ {"saving", "settling", "reading"} \subseteq Steps
    BY DEF AllOps, Callers, TypeOK, Steps
<1>i. Paused => issue.path \in Notes /\ issue.actual \in Revisions
    BY DEF RequestInv, Paused, TypeOK, Issue
<1>1. CASE AskOverwrite
    <2>1. NewTask(issue.path, text, TRUE, issue.actual, {"overwrite"}) \in Task
        BY <1>0, <1>1, <1>i, NewTaskTyped DEF AskOverwrite, TypeOK
    <2>2. tasks' \in Seq(Task)
        BY <1>1, <2>1, AppendedTask DEF AskOverwrite, TypeOK
    <2>3. [NoJob EXCEPT !.stage = "saving", !.held = (dialog = "close")] \in Job
        BY <1>0, JobBegins
    <2>4. jobs' \in [AllOps -> Job]
        BY <1>0, <1>1, <2>3 DEF AskOverwrite, TypeOK
    <2>5. known' \in [Notes -> SUBSET Revisions]
        BY <1>1, <1>i DEF AskOverwrite, TypeOK
    <2> QED  BY <1>1, <2>2, <2>4, <2>5 DEF AskOverwrite, TypeOK
<1>2. CASE OverwriteDone
    <2>1. jobs' \in [AllOps -> Job]
        BY <1>0, <1>2, JobEnds, JobContinues DEF OverwriteDone
    <2> QED  BY <1>2, <2>1 DEF OverwriteDone, TypeOK
<1>3. CASE AskReload
    <2>1. issue.path \in Notes \cup {NoNote}
        BY <1>3, <1>i DEF AskReload, Paused
    <2>2. [NoJob EXCEPT !.stage = "reading", !.path = issue.path,
                        !.held = (dialog = "close")] \in Job
        BY <1>0, <2>1, JobBegins
    <2>3. jobs' \in [AllOps -> Job] /\ calls' \in Seq(Callers)
        BY <1>0, <1>3, <2>2, AtHead DEF AskReload, TypeOK
    <2> QED  BY <1>3, <2>3 DEF AskReload, TypeOK
<1>4. CASE ReloadAnswered
    <2>1. answers' \in Seq(Callers)
        BY <1>0, <1>4, AtHead DEF ReloadAnswered
    <2>2. CASE AdoptReloaded(jobs["reload"]) /\ jobs["reload"].snap # Missing
        <3>1. jobs' \in [AllOps -> Job] /\ locked' \in BOOLEAN
            BY <1>0, <2>2, JobEnds, JobContinues DEF AdoptReloaded, TypeOK
        <3>2. jobs["reload"].snap \in Contents /\ jobs["reload"].snap \in Revisions
              /\ open \in Notes \cup {NoNote}
            BY <1>0, <2>2 DEF Job, Revisions, TypeOK
        <3>3. /\ open' \in Notes \cup {NoNote} /\ text' \in Contents /\ baseline' \in Revisions
              /\ current' \subseteq AllOps \cup {"timer", "watch"}
              /\ unsaved' \in BOOLEAN /\ lost' \in BOOLEAN
                     /\ known' \in [Notes -> SUBSET Revisions]
            BY <2>2, <3>2, ShowTyped DEF AdoptReloaded
        <3>4. tasks' \in Seq(Task) /\ issue' \in Issue \cup {NoIssue} /\ pinned' \in BOOLEAN
            BY <2>2, OutdatedTyped DEF AdoptReloaded, ClearSaveIssue, Report, TypeOK
        <3> QED  BY <1>4, <2>1, <2>2, <3>1, <3>3, <3>4
                    DEF ReloadAnswered, AdoptReloaded, TypeOK
    <2>3. CASE EndJob("reload") /\ locked' = FALSE
               /\ UNCHANGED <<pageVars, issueVars, tasks, current, ghostVars>>
        <3>1. jobs' \in [AllOps -> Job]
            BY <1>0, <2>3, JobEnds
        <3>2. UNCHANGED <<disk, timer, saving, lamp, queued, calls, watchVars, windowVars>>
            BY <1>4 DEF ReloadAnswered
        <3> QED  BY <2>1, <2>3, <3>1, <3>2 DEF TypeOK
    <2>4. CASE Report(IoIssue(jobs["reload"].path)) /\ EndJob("reload") /\ locked' = FALSE
               /\ UNCHANGED <<pageVars, dialog, tasks, current, ghostVars>>
        <3>1. jobs' \in [AllOps -> Job]
            BY <1>0, <2>4, JobEnds
        <3>2. IoIssue(jobs["reload"].path) \in Issue
            BY <1>0, IssuesTyped DEF Job
        <3> QED  BY <1>4, <2>1, <2>4, <3>1, <3>2 DEF ReloadAnswered, Report, TypeOK
    <2> QED  BY <1>4, <2>2, <2>3, <2>4 DEF ReloadAnswered
<1> QED  BY <1>1, <1>2, <1>3, <1>4

\* Closing the window, and giving the draft up.
LEMMA TypesOfClose ==
    ASSUME Base, AskClose \/ CloseFlushed \/ Discard \/ (\E o \in AllOps : CloseWindow(o))
    PROVE  TypeOK'
<1> USE DEF Base
<1>0. "close" \in AllOps /\ jobs["close"] \in Job /\ {"flush", "settling"} \subseteq Steps
    BY DEF AllOps, TypeOK, Steps
<1>1. CASE AskClose
    <2>1. [NoJob EXCEPT !.stage = "flush"] \in Job
        BY <1>0, JobBegins
    <2>2. jobs' \in [AllOps -> Job]
        BY <1>0, <1>1, <2>1 DEF AskClose, TypeOK
    <2> QED  BY <1>1, <2>2 DEF AskClose, TypeOK
<1>2. CASE CloseFlushed
    <2>1. jobs' \in [AllOps -> Job]
        BY <1>0, <1>2, JobEnds, JobContinues DEF CloseFlushed
    <2>2. locked' \in BOOLEAN /\ dialog' \in {"hidden", "recover", "close"}
        BY <1>2 DEF CloseFlushed, TypeOK
    <2>3. UNCHANGED <<disk, pageVars, issue, pinned, queueVars, queued, current,
                      ipcVars, watchVars, windowVars, ghostVars>>
        BY <1>2 DEF CloseFlushed
    <2> QED  BY <2>1, <2>2, <2>3 DEF TypeOK
<1>3. CASE Discard
    <2>1. [NoJob EXCEPT !.stage = "settling", !.held = TRUE] \in Job
        BY <1>0, JobBegins
    <2>2. jobs' \in [AllOps -> Job]
        BY <1>0, <1>3, <2>1 DEF Discard, TypeOK
    <2> QED  BY <1>3, <2>2 DEF Discard, TypeOK
<1>4. ASSUME NEW o \in AllOps, CloseWindow(o)  PROVE TypeOK'
    <2>1. jobs' \in [AllOps -> Job]
        BY <1>4, JobEnds DEF CloseWindow, TypeOK
    <2>2. locked' \in BOOLEAN /\ alive' \in BOOLEAN /\ lost' \in BOOLEAN
        BY <1>4 DEF CloseWindow, TypeOK
    <2>3. UNCHANGED <<scene, disk, pageVars, issueVars, queueVars, queued,
                      current, ipcVars, watchVars, unsaved, known>>
        BY <1>4 DEF CloseWindow
    <2> QED  BY <2>1, <2>2, <2>3 DEF TypeOK
<1> QED  BY <1>1, <1>2, <1>3, <1>4

\* Following a change of the open note (refresh by the watcher).
LEMMA TypesOfWatcher ==
    ASSUME Base, WatchFlush \/ WatchListed \/ WatchReads \/ WatchAnswered
    PROVE  TypeOK'
<1> USE DEF Base
<1>0. "watch" \in Callers /\ watch \in Watch /\ NoWatch \in Watch
    BY DEF Callers, TypeOK, NoWatch, Watch, Revisions
<1>1. CASE WatchFlush
    <2>1. [NoWatch EXCEPT !.stage = "listing", !.path = open,
                          !.gone = (<<open, "gone">> \in events)] \in Watch
        <3>1. (<<open, "gone">> \in events) \in BOOLEAN /\ open \in Notes \cup {NoNote}
            BY DEF TypeOK
        <3> QED  BY <1>0, <3>1 DEF Watch
    <2> QED  BY <1>0, <1>1, <2>1 DEF WatchFlush, TypeOK
<1>2. CASE WatchListed
    <2>1. [watch EXCEPT !.stage = "reading"] \in Watch
        BY <1>0 DEF Watch
    <2>2. calls' \in Seq(Callers)
        BY <1>0, <1>2, AtHead DEF WatchListed
    <2> QED  BY <1>2, <2>1, <2>2 DEF WatchListed, TypeOK
<1>3. CASE WatchReads
    <2>1. calls' \in Seq(Callers) /\ answers' \in Seq(Callers)
        BY <1>0, <1>3, AtHead DEF WatchReads
    <2>2. \A snap \in Revisions : [watch EXCEPT !.stage = "read", !.snap = snap] \in Watch
        BY <1>0 DEF Watch
    <2>3. watch' \in Watch
        BY <1>3, <2>2 DEF WatchReads
    <2>4. UNCHANGED <<disk, pageVars, issueVars, locked, queueVars, jobs, queued,
                      current, events, windowVars, ghostVars>>
        BY <1>3 DEF WatchReads
    <2> QED  BY <2>1, <2>3, <2>4 DEF TypeOK
<1>4. CASE WatchAnswered
    <2>1. answers' \in Seq(Callers)
        BY <1>0, <1>4, AtHead DEF WatchAnswered
    <2>2. CASE WatchMisses
        <3>1. IoIssue(open) \in Issue /\ DiskIssue(open, Missing) \in Issue
            BY IssuesTyped DEF TypeOK, Revisions
        <3>2. /\ open' \in Notes \cup {NoNote} /\ text' \in Contents /\ baseline' \in Revisions
              /\ current' \subseteq AllOps \cup {"timer", "watch"}
              /\ unsaved' \in BOOLEAN /\ lost' \in BOOLEAN
                     /\ known' \in [Notes -> SUBSET Revisions]
            BY <2>2, ShowTyped DEF WatchMisses
        <3>3. tasks' \in Seq(Task)
            BY <2>2, OutdatedTyped DEF WatchMisses, TypeOK
        <3>4. /\ dirty' \in BOOLEAN /\ issue' \in Issue \cup {NoIssue} /\ pinned' \in BOOLEAN
              /\ saving' \in BOOLEAN /\ dialog' \in {"hidden", "recover", "close"}
            BY <2>2, <3>1
            DEF WatchMisses, ClearActiveNoteState, ClearSaveIssue, Report, TypeOK
        <3> QED  BY <1>0, <1>4, <2>1, <3>2, <3>3, <3>4 DEF WatchAnswered, TypeOK
    <2>3. CASE WatchAdopts /\ watch.snap # Missing
        <3>1. watch.snap \in Contents /\ watch.snap \in Revisions /\ open \in Notes \cup {NoNote}
            BY <1>0, <2>3 DEF Watch, Revisions, TypeOK
        <3>2. /\ open' \in Notes \cup {NoNote} /\ text' \in Contents /\ baseline' \in Revisions
              /\ current' \subseteq AllOps \cup {"timer", "watch"}
              /\ unsaved' \in BOOLEAN /\ lost' \in BOOLEAN
                     /\ known' \in [Notes -> SUBSET Revisions]
            BY <2>3, <3>1, ShowTyped DEF WatchAdopts
        <3>3. tasks' \in Seq(Task) /\ issue' \in Issue \cup {NoIssue} /\ pinned' \in BOOLEAN
            BY <2>3, OutdatedTyped DEF WatchAdopts, ClearSaveIssue, Report, TypeOK
        <3> QED  BY <1>0, <1>4, <2>1, <2>3, <3>2, <3>3 DEF WatchAnswered, WatchAdopts, TypeOK
    <2>4. CASE UNCHANGED <<pageVars, issueVars, tasks, saving, current, ghostVars>>
        BY <1>0, <1>4, <2>1, <2>4 DEF WatchAnswered, TypeOK
    <2> QED  BY <1>4, <2>2, <2>3, <2>4 DEF WatchAnswered
<1> QED  BY <1>1, <1>2, <1>3, <1>4

\* Every step keeps the types of the page's variables.
LEMMA TypesGoOn == Base /\ [Next]_vars => TypeOK'
<1> SUFFICES ASSUME Base, [Next]_vars  PROVE TypeOK'
    OBVIOUS
<1>1. CASE User
    BY <1>1, TypesOfPage, TypesOfSelect, TypesOfCreate, TypesOfDelete, TypesOfFlushes,
       TypesOfRecovery, TypesOfClose DEF User
<1>2. CASE Continuation
    BY <1>2, TypesOfSaves, TypesOfSelect, TypesOfCreate, TypesOfDelete, TypesOfFlushes,
       TypesOfRecovery, TypesOfClose DEF Continuation
<1>3. CASE Backend
    BY <1>3, TypesOfSaves, TypesOfCreate, TypesOfDelete, TypesOfReads, TypesOfWatcher
    DEF Backend
<1>4. CASE SaveEvent \/ OperationEvent \/ WatchEvent
    BY <1>4, TypesOfSaves, TypesOfSelect, TypesOfCreate, TypesOfDelete, TypesOfRecovery,
       TypesOfClose, TypesOfWatcher DEF SaveEvent, OperationEvent, WatchEvent
<1>5. CASE LampOff \/ TimerFires \/ \E n \in scene.notes : Outside(n)
    BY <1>5, TypesOfPage
<1>6. CASE UNCHANGED vars
    BY <1>6 DEF Base, TypeOK, vars
<1> QED  BY <1>1, <1>2, <1>3, <1>4, <1>5, <1>6 DEF Next

-----------------------------------------------------------------------------
(***************************************************************************)
(* Jobs, the chain of saves and the commands between them                  *)
(***************************************************************************)

\* What a step may do to the job of operation o.
Moves(o) ==
    \/ jobs'[o] = jobs[o]
    \/ jobs'[o] = NoJob
    \/ /\ jobs[o].stage = "idle" /\ o \in scene.ops
       /\ jobs'[o].stage # "idle"
       /\ jobs'[o].stage = "flush" => jobs'[o].tries = 0
       /\ o \in OnNotes => jobs'[o].path \in Notes
       /\ o = "rename" => jobs'[o].to \in Notes
    \/ /\ jobs[o].stage # "idle" /\ jobs'[o].stage \notin {"idle", "flush"}
       /\ jobs'[o].path = jobs[o].path /\ jobs'[o].to = jobs[o].to
       /\ jobs'[o].held = jobs[o].held

\* A step that neither adds nor ends a save and wakes nobody.
Calm ==
    /\ scene' = scene
    /\ SameChain(tasks, tasks')
    /\ \A o \in AllOps : Moves(o)
    /\ \A o \in AllOps : jobs[o].stage \in Waiting => jobs'[o] = jobs[o]

\* A step leaves the command of w, and who awaits it, as they are.
Keeps(w) == (Sent(w) => Sent(w)') /\ (Replied(w) => Replied(w)')

\* A step sends, executes or answers at most one command.
CommandStep ==
    \/ /\ UNCHANGED ipcVars
       /\ \A w \in Callers : Keeps(w)
    \/ \E w \in Callers :
          /\ \A v \in Callers \ {w} : Keeps(v)
          /\ \/ Send(w) /\ answers' = answers /\ ~Sent(w) /\ ~Replied(w) /\ Sent(w)'
             \/ Executed(w) /\ Replied(w)'
             \/ Answered(w) /\ calls' = calls

\* A caller that has no entry in a queue joins it.
LEMMA InAppend ==
    ASSUME NEW s \in Seq(Callers), NEW w \in Callers, Distinct(s), ~In(w, s)
    PROVE  /\ Distinct(Append(s, w))
           /\ \A v \in Callers : In(v, Append(s, w)) => v = w \/ In(v, s)
<1>1. /\ Len(Append(s, w)) = Len(s) + 1 /\ Append(s, w)[Len(s) + 1] = w
      /\ \A i \in 1..Len(s) : Append(s, w)[i] = s[i]
      /\ Len(s) \in Nat
    BY AppendProperties, LenProperties
<1>2. \A i \in 1..(Len(s) + 1) : i \in 1..Len(s) \/ i = Len(s) + 1
    BY <1>1
<1> QED  BY <1>1, <1>2 DEF In, Distinct

\* The entry at the head of a queue is taken.
LEMMA InTail ==
    ASSUME NEW s \in Seq(Callers), s # <<>>, Distinct(s)
    PROVE  /\ Distinct(Tail(s)) /\ ~In(Head(s), Tail(s)) /\ In(Head(s), s)
           /\ \A v \in Callers : In(v, Tail(s)) => In(v, s)
<1>1. /\ Len(Tail(s)) = Len(s) - 1 /\ Len(s) \in Nat /\ Len(s) > 0
      /\ \A i \in 1..Len(Tail(s)) : i + 1 \in 1..Len(s) /\ Tail(s)[i] = s[i + 1]
      /\ Head(s) = s[1]
    BY HeadTailProperties, EmptySeq, LenProperties
<1>2. \A i, j \in 1..Len(Tail(s)) : i + 1 = j + 1 => i = j
    BY <1>1
<1>3. \A i \in 1..Len(Tail(s)) : i + 1 # 1
    BY <1>1
<1>4. 1 \in 1..Len(s)
    BY <1>1
<1> QED  BY <1>1, <1>2, <1>3, <1>4 DEF In, Distinct

\* Every command is in one of the queues once, and its sender waits for it.
LEMMA CommandsGoOn ==
    ASSUME TypeOK, CallInv, CommandStep
    PROVE  CallInv'
<1>0. calls \in Seq(Callers) /\ answers \in Seq(Callers)
    BY DEF TypeOK
<1>1. CASE UNCHANGED ipcVars /\ \A w \in Callers : Keeps(w)
    BY <1>1 DEF CallInv, Keeps
<1>2. ASSUME NEW w \in Callers, \A v \in Callers \ {w} : Keeps(v),
             Send(w), answers' = answers, ~Sent(w), ~Replied(w), Sent(w)'
      PROVE  CallInv'
    <2>1. ~In(w, calls) /\ ~In(w, answers)
        BY <1>2 DEF CallInv
    <2>2. Distinct(calls') /\ \A v \in Callers : In(v, calls') => v = w \/ In(v, calls)
        BY <1>0, <1>2, <2>1, InAppend DEF CallInv, Send
    <2> QED  BY <1>2, <2>1, <2>2 DEF CallInv, Keeps
<1>3. ASSUME NEW w \in Callers, \A v \in Callers \ {w} : Keeps(v), Executed(w), Replied(w)'
      PROVE  CallInv'
    <2>1. /\ Distinct(calls') /\ ~In(w, calls') /\ In(w, calls)
          /\ \A v \in Callers : In(v, calls') => In(v, calls)
        BY <1>0, <1>3, InTail DEF CallInv, Executed
    <2>2. ~In(w, answers)
        BY <2>1 DEF CallInv
    <2>3. Distinct(answers') /\ \A v \in Callers : In(v, answers') => v = w \/ In(v, answers)
        BY <1>0, <1>3, <2>2, InAppend DEF CallInv, Executed
    <2> QED  BY <1>3, <2>1, <2>2, <2>3 DEF CallInv, Keeps
<1>4. ASSUME NEW w \in Callers, \A v \in Callers \ {w} : Keeps(v), Answered(w), calls' = calls
      PROVE  CallInv'
    <2>1. /\ Distinct(answers') /\ ~In(w, answers') /\ In(w, answers)
          /\ \A v \in Callers : In(v, answers') => In(v, answers)
        BY <1>0, <1>4, InTail DEF CallInv, Answered
    <2>2. ~In(w, calls)
        BY <2>1 DEF CallInv
    <2> QED  BY <1>4, <2>1, <2>2 DEF CallInv, Keeps
<1> QED  BY <1>1, <1>2, <1>3, <1>4 DEF CommandStep

\* A step that keeps the chain keeps the command of the save.
LEMMA SaveKept ==
    ASSUME TypeOK, SameChain(tasks, tasks')
    PROVE  Keeps("save")
<1>1. Len(tasks') = Len(tasks) /\ tasks' \in Seq(Task) /\ tasks \in Seq(Task)
    BY DEF SameChain, TypeOK
<1>2. CASE tasks = <<>>
    BY <1>2 DEF Keeps, Sent, Replied
<1>3. CASE tasks # <<>>
    <2>1. 1 \in 1..Len(tasks) /\ tasks' # <<>>
        BY <1>1, <1>3, HeadTask, EmptySeq
    <2> QED  BY <2>1 DEF Keeps, Sent, Replied, SameChain
<1> QED  BY <1>2, <1>3

\* A step of one job keeps the commands of the others.
LEMMA OthersKept ==
    ASSUME TypeOK, NEW o \in AllOps, \A q \in AllOps \ {o} : jobs'[q] = jobs[q],
           SameChain(tasks, tasks'), watch'.stage = watch.stage
    PROVE  \A v \in Callers \ {o} : Keeps(v)
<1>1. Keeps("save")
    BY SaveKept
<1> QED  BY <1>1 DEF Keeps, Sent, Replied, Callers

\* The steps in which one job goes on.
LEMMA OneJobMoves ==
    ASSUME TypeOK, NEW o \in AllOps, \A q \in AllOps \ {o} : jobs'[q] = jobs[q],
           SameChain(tasks, tasks'), UNCHANGED <<watch, scene>>, Moves(o),
           jobs[o].stage \notin Waiting,
           \/ UNCHANGED ipcVars
                  /\ jobs[o].stage \notin {"reading", "read", "applying", "applied"}
           \/ /\ Send(o) /\ answers' = answers /\ Sent(o)'
              /\ jobs[o].stage \notin {"reading", "read", "applying", "applied"}
           \/ Executed(o) /\ Replied(o)'
           \/ Answered(o) /\ calls' = calls
    PROVE  Calm /\ CommandStep
<1>1. Calm
    BY DEF Calm, Moves
<1>2. o \in Callers /\ \A v \in Callers \ {o} : Keeps(v)
    BY OthersKept DEF Callers
<1>3. ASSUME jobs[o].stage \notin {"reading", "read", "applying", "applied"}
      PROVE  ~Sent(o) /\ ~Replied(o)
    BY <1>3 DEF Sent, Replied, AllOps
<1>4. CASE UNCHANGED ipcVars /\ jobs[o].stage \notin {"reading", "read", "applying", "applied"}
    <2>1. Keeps(o)
        BY <1>3, <1>4 DEF Keeps
    <2>2. (\A v \in Callers : Keeps(v)) /\ calls' = calls /\ answers' = answers
        BY <1>2, <1>4, <2>1
    <2>3. CommandStep
        BY <2>2, Zenon DEF CommandStep, ipcVars
    <2> QED  BY <1>1, <2>3
<1> QED  BY <1>1, <1>2, <1>3, <1>4 DEF CommandStep

\* The steps in which no job goes on.
LEMMA NoJobMoves ==
    ASSUME TypeOK, UNCHANGED <<jobs, scene>>, SameChain(tasks, tasks'),
           \/ UNCHANGED ipcVars /\ Keeps("watch")
           \/ Send("watch") /\ answers' = answers /\ ~Sent("watch") /\ ~Replied("watch")
                  /\ Sent("watch")'
           \/ Executed("watch") /\ Replied("watch")'
           \/ Answered("watch") /\ calls' = calls
    PROVE  Calm /\ CommandStep
<1>1. Calm
    BY DEF Calm, Moves
<1>2. "watch" \in Callers /\ \A v \in Callers \ {"watch"} : Keeps(v)
    <2>1. Keeps("save")
        BY SaveKept
    <2> QED  BY <2>1 DEF Keeps, Sent, Replied, Callers
<1> QED  BY <1>1, <1>2 DEF CommandStep

\* The chain is kept when nothing, a revision or a generation is counted.
LEMMA Chain ==
    TypeOK => /\ SameChain(tasks, tasks) /\ SameChain(tasks, Outdated(tasks))
              /\ SameChain(tasks, Disowned(tasks))
BY UnchangedTasks, OutdatedTasks, DisownedTasks DEF TypeOK

\* Going on to the next await is a move.
LEMMA ContinueMoves ==
    ASSUME TypeOK, NEW o \in AllOps, NEW st \in Steps \ {"idle", "flush"}, Continue(o, st),
           jobs[o].stage # "idle"
    PROVE  /\ \A q \in AllOps \ {o} : jobs'[q] = jobs[q]
           /\ Moves(o) /\ jobs'[o].stage = st
<1>1. jobs[o] \in Job
    BY DEF TypeOK
<1>2. (\A q \in AllOps \ {o} : jobs'[q] = jobs[q]) /\ jobs'[o] = [jobs[o] EXCEPT !.stage = st]
    BY JobContinues
<1> QED  BY <1>1, <1>2 DEF Moves, Job

\* Returning is a move.
LEMMA EndMoves ==
    ASSUME TypeOK, NEW o \in AllOps, EndJob(o)
    PROVE  (\A q \in AllOps \ {o} : jobs'[q] = jobs[q]) /\ Moves(o)
BY JobEnds DEF Moves

\* Typing, the indicator, the dialog, other programs and asking for a note.
LEMMA CalmPage ==
    ASSUME Base,
           \/ \E c \in Contents : Type(c)
           \/ LampOff \/ CancelDialog \/ (\E n \in scene.notes : Outside(n))
           \/ \E n \in scene.notes : AskSelect(n)
    PROVE  Calm /\ CommandStep
<1>1. UNCHANGED <<jobs, scene, watch, ipcVars>> /\ SameChain(tasks, tasks')
    BY Chain DEF Base, Type, LampOff, CancelDialog, Outside, AskSelect
<1>2. Keeps("watch")
    BY <1>1 DEF Keeps, Sent, Replied
<1> QED  BY <1>1, <1>2, NoJobMoves DEF Base

\* The handlers of selecting a note push no save and end none.
LEMMA CalmSelect ==
    ASSUME Base, StartSelect \/ SelectFlushed \/ SelectStat \/ SelectAnswered \/ SelectDone
    PROVE  Calm /\ CommandStep
<1> USE DEF Base
<1>0. "select" \in AllOps /\ "select" \in Callers
      /\ {"stat", "reading", "listing"} \subseteq Steps \ {"idle", "flush"}
    BY DEF AllOps, Callers, Steps
<1>1. UNCHANGED <<scene, watch>> /\ SameChain(tasks, tasks')
    BY Chain DEF StartSelect, SelectFlushed, SelectStat, SelectAnswered, SelectDone
<1>e. EndSelect => (\A q \in AllOps \ {"select"} : jobs'[q] = jobs[q]) /\ Moves("select")
    BY <1>0, EndMoves DEF EndSelect
<1>c. \A st \in {"stat", "reading", "listing"} :
          Continue("select", st) /\ jobs["select"].stage # "idle" =>
              /\ \A q \in AllOps \ {"select"} : jobs'[q] = jobs[q]
              /\ Moves("select") /\ jobs'["select"].stage = st
    BY <1>0, ContinueMoves
<1>2. CASE StartSelect
    <2>1. [NoJob EXCEPT !.stage = "flush", !.path = queued] \in Job /\ queued \in Notes
        BY <1>2, JobBegins DEF StartSelect, TypeOK, Steps
    <2>2. /\ \A q \in AllOps \ {"select"} : jobs'[q] = jobs[q]
          /\ jobs'["select"] = [NoJob EXCEPT !.stage = "flush", !.path = queued]
        BY <1>0, <1>2, <2>1, JobSet DEF StartSelect
    <2>3. Moves("select")
        BY <1>2, <2>1, <2>2 DEF StartSelect, Moves, RequestInv, NoJob
    <2> QED  BY <1>0, <1>1, <1>2, <2>2, <2>3, OneJobMoves DEF StartSelect, Waiting
<1>3. CASE SelectFlushed
    BY <1>0, <1>1, <1>3, <1>e, <1>c, OneJobMoves DEF SelectFlushed, Prompted, Prompt, Waiting
<1>4. CASE SelectStat
    <2>1. CASE EndSelect /\ UNCHANGED calls
        BY <1>0, <1>1, <1>4, <2>1, <1>e, OneJobMoves DEF SelectStat, Waiting
    <2>2. CASE Continue("select", "reading") /\ Send("select")
        <3>1. Sent("select")'
            BY <1>0, <1>4, <2>2, <1>c DEF Sent, SelectStat
        <3> QED  BY <1>0, <1>1, <1>4, <2>2, <3>1, <1>c, OneJobMoves DEF SelectStat, Waiting
    <2> QED  BY <1>4, <2>1, <2>2 DEF SelectStat
<1>5. CASE SelectAnswered
    <2>1. jobs["select"].stage = "read"
        BY <1>0, <1>5, AtHead DEF SelectAnswered, Replied
    <2> QED  BY <1>0, <1>1, <1>5, <2>1, <1>e, <1>c, OneJobMoves DEF SelectAnswered, Waiting
<1>6. CASE SelectDone
    BY <1>0, <1>1, <1>6, <1>e, OneJobMoves DEF SelectDone, Waiting
<1> QED  BY <1>2, <1>3, <1>4, <1>5, <1>6

\* The handlers of creating a note push no save and end none.
LEMMA CalmCreate ==
    ASSUME Base,
           \/ \E n \in scene.notes : AskCreate(n)
           \/ CreateFlushed \/ CreateExecuted \/ CreateAnswered \/ CreateListed
    PROVE  Calm /\ CommandStep
<1> USE DEF Base
<1>0. "create" \in AllOps /\ "create" \in Callers
      /\ {"applying", "listing"} \subseteq Steps \ {"idle", "flush"}
    BY DEF AllOps, Callers, Steps
<1>1. UNCHANGED <<scene, watch>> /\ SameChain(tasks, tasks')
    BY Chain
    DEF AskCreate, CreateFlushed, CreateExecuted, CreateAnswered, CreateListed, EnterCreated
<1>e. EndJob("create") => (\A q \in AllOps \ {"create"} : jobs'[q] = jobs[q]) /\ Moves("create")
    BY <1>0, EndMoves
<1>c. \A st \in {"applying", "listing"} :
          Continue("create", st) /\ jobs["create"].stage # "idle" =>
              /\ \A q \in AllOps \ {"create"} : jobs'[q] = jobs[q]
              /\ Moves("create") /\ jobs'["create"].stage = st
    BY <1>0, ContinueMoves
<1>2. ASSUME NEW n \in scene.notes, AskCreate(n)  PROVE Calm /\ CommandStep
    <2>1. n \in Notes
        BY ScenesAssumption DEF TypeOK, Scene
    <2>2. [NoJob EXCEPT !.stage = "flush", !.path = n] \in Job
        BY <2>1, JobBegins DEF Steps
    <2>3. /\ \A q \in AllOps \ {"create"} : jobs'[q] = jobs[q]
          /\ jobs'["create"] = [NoJob EXCEPT !.stage = "flush", !.path = n]
        BY <1>0, <1>2, <2>2, JobSet DEF AskCreate
    <2>4. jobs["create"].stage = "idle" /\ "create" \in scene.ops
        BY <1>2 DEF AskCreate, UserMay
    <2>5. jobs'["create"].stage = "flush" /\ jobs'["create"].tries = 0
                 /\ jobs'["create"].path = n
        BY <2>3 DEF NoJob
    <2>6. Moves("create")
        BY <2>1, <2>4, <2>5 DEF Moves
    <2> QED  BY <1>0, <1>1, <1>2, <2>3, <2>4, <2>6, OneJobMoves DEF AskCreate, Waiting
<1>3. CASE CreateFlushed
    <2>1. CASE EndJob("create") /\ UNCHANGED calls
        BY <1>0, <1>1, <1>3, <2>1, <1>e, OneJobMoves
        DEF CreateFlushed, Prompted, Prompt, Waiting
    <2>2. CASE Continue("create", "applying") /\ Send("create")
        <3>1. jobs["create"].stage # "idle"
            BY <1>3 DEF CreateFlushed, Prompted, Prompt
        <3>2. Sent("create")'
            BY <1>0, <2>2, <3>1, <1>c DEF Sent
        <3> QED  BY <1>0, <1>1, <1>3, <2>2, <3>1, <3>2, <1>c, OneJobMoves
                 DEF CreateFlushed, Prompted, Prompt, Waiting
    <2> QED  BY <1>3, <2>1, <2>2 DEF CreateFlushed
<1>4. CASE CreateExecuted
    <2>1. jobs["create"].stage = "applying" /\ jobs["create"] \in Job
        BY <1>0, <1>4, AtHead DEF CreateExecuted, Sent, TypeOK
    <2>2. /\ \A q \in AllOps \ {"create"} : jobs'[q] = jobs[q]
          /\ jobs'["create"].stage = "applying" /\ jobs'["create"].path = jobs["create"].path
          /\ jobs'["create"].to = jobs["create"].to /\ jobs'["create"].held = jobs["create"].held
        BY <1>0, <1>4, <2>1 DEF CreateExecuted, TypeOK, Job
    <2>3. Moves("create") /\ Replied("create")'
        BY <2>1, <2>2 DEF Moves, Replied
    <2> QED  BY <1>0, <1>1, <1>4, <2>1, <2>2, <2>3, OneJobMoves DEF CreateExecuted, Waiting
<1>5. CASE CreateAnswered
    <2>1. jobs["create"].stage = "applying"
        BY <1>0, <1>5, AtHead DEF CreateAnswered, Replied
    <2> QED  BY <1>0, <1>1, <1>5, <2>1, <1>e, <1>c, OneJobMoves DEF CreateAnswered, Waiting
<1>6. CASE CreateListed
    BY <1>0, <1>1, <1>6, <1>e, OneJobMoves DEF CreateListed, Waiting
<1> QED  BY <1>2, <1>3, <1>4, <1>5, <1>6

\* A read that is executed leaves the saves alone.
LEMMA CalmReads ==
    ASSUME Base, JobReads("select") \/ JobReads("reload")
    PROVE  Calm /\ CommandStep
<1> USE DEF Base
<1> SUFFICES ASSUME NEW o \in {"select", "reload"}, JobReads(o)  PROVE Calm /\ CommandStep
    OBVIOUS
<1>1. o \in AllOps /\ o \in Callers /\ jobs[o] \in Job
    BY DEF AllOps, Callers, TypeOK
<1>2. UNCHANGED <<scene, watch>> /\ SameChain(tasks, tasks') /\ jobs[o].stage = "reading"
    BY Chain DEF JobReads
<1>3. /\ \A q \in AllOps \ {o} : jobs'[q] = jobs[q]
      /\ jobs'[o].stage = "read" /\ jobs'[o].path = jobs[o].path
      /\ jobs'[o].to = jobs[o].to /\ jobs'[o].held = jobs[o].held
    BY <1>1 DEF JobReads, TypeOK, Job
<1>4. Moves(o) /\ Replied(o)'
    BY <1>1, <1>2, <1>3 DEF Moves, Replied
<1> QED  BY <1>1, <1>2, <1>3, <1>4, OneJobMoves DEF JobReads, Waiting

\* The handlers of deleting and renaming disown saves but end none.
LEMMA CalmDelete ==
    ASSUME Base,
           \/ \E n \in scene.notes : AskDelete(n)
           \/ \E n, m \in scene.notes : AskRename(n, m)
           \/ Flushed("delete") \/ Flushed("rename")
           \/ DeleteExecuted \/ RenameExecuted \/ DeleteAnswered \/ RenameAnswered
    PROVE  Calm /\ CommandStep
<1> USE DEF Base
<1>0. /\ {"delete", "rename"} \subseteq AllOps /\ {"delete", "rename"} \subseteq Callers
      /\ "applying" \in Steps \ {"idle", "flush"}
      /\ \A o \in {"delete", "rename"} : jobs[o] \in Job
    BY DEF AllOps, Callers, Steps, TypeOK
<1>1. UNCHANGED <<scene, watch>> /\ SameChain(tasks, tasks')
    BY Chain DEF AskDelete, AskRename, Flushed, ClearPendingSaveForPath, DeleteExecuted,
           RenameExecuted, DeleteAnswered, RenameAnswered
<1>e. \A o \in {"delete", "rename"} :
          EndJob(o) => (\A q \in AllOps \ {o} : jobs'[q] = jobs[q]) /\ Moves(o)
    BY <1>0, EndMoves
<1>a. ASSUME NEW o \in {"delete", "rename"}, NEW ok \in BOOLEAN, Applied(o, ok),
             jobs[o].stage = "applying"
      PROVE  (\A q \in AllOps \ {o} : jobs'[q] = jobs[q]) /\ Moves(o) /\ Replied(o)'
    <2>1. /\ \A q \in AllOps \ {o} : jobs'[q] = jobs[q]
          /\ jobs'[o].stage = "applied" /\ jobs'[o].path = jobs[o].path
          /\ jobs'[o].to = jobs[o].to /\ jobs'[o].held = jobs[o].held
        BY <1>0, <1>a DEF Applied, TypeOK, Job
    <2> QED  BY <1>a, <2>1 DEF Moves, Replied
<1>b. ASSUME NEW o \in {"delete", "rename"}, NEW j \in Job, UserMay(o),
             jobs' = [jobs EXCEPT ![o] = j], j.stage \in {"flush", "flushed"},
             j.tries = 0, j.path \in Notes, o = "rename" => j.to \in Notes,
             UNCHANGED ipcVars
      PROVE  Calm /\ CommandStep
    <2>1. /\ \A q \in AllOps \ {o} : jobs'[q] = jobs[q]
          /\ jobs'[o] = j
        BY <1>0, <1>b, JobSet
    <2>2. jobs[o].stage = "idle" /\ o \in scene.ops
        BY <1>b DEF UserMay
    <2>3. Moves(o)
        BY <1>b, <2>1, <2>2 DEF Moves
    <2> QED  BY <1>0, <1>1, <1>b, <2>1, <2>2, <2>3, OneJobMoves DEF Waiting
<1>2. ASSUME NEW n \in scene.notes, AskDelete(n)  PROVE Calm /\ CommandStep
    <2>1. n \in Notes
        BY ScenesAssumption DEF TypeOK, Scene
    <2> DEFINE j == [NoJob EXCEPT !.path = n, !.stage = IF open = n THEN "flush" ELSE "flushed"]
    <2>2. j \in Job
        BY <2>1, JobBegins DEF Steps
    <2>3. j.stage \in {"flush", "flushed"} /\ j.tries = 0 /\ j.path \in Notes
        BY <2>1 DEF NoJob
    <2>4. jobs' = [jobs EXCEPT !["delete"] = j] /\ UserMay("delete") /\ UNCHANGED ipcVars
        BY <1>2 DEF AskDelete
    <2> HIDE DEF j
    <2> QED  BY <1>b, <2>2, <2>3, <2>4
<1>3. ASSUME NEW n \in scene.notes, NEW m \in scene.notes, AskRename(n, m)
      PROVE  Calm /\ CommandStep
    <2>1. n \in Notes /\ m \in Notes /\ (open = n) \in BOOLEAN
        BY ScenesAssumption DEF TypeOK, Scene
    <2> DEFINE j == [NoJob EXCEPT !.path = n, !.to = m, !.held = (open = n),
                                  !.stage = IF open = n THEN "flush" ELSE "flushed"]
    <2>2. j \in Job
        BY <2>1, JobBegins DEF Steps
    <2>3. j.stage \in {"flush", "flushed"} /\ j.tries = 0 /\ j.path \in Notes /\ j.to \in Notes
        BY <2>1 DEF NoJob
    <2>4. jobs' = [jobs EXCEPT !["rename"] = j] /\ UserMay("rename") /\ UNCHANGED ipcVars
        BY <1>3 DEF AskRename
    <2> HIDE DEF j
    <2> QED  BY <1>b, <2>2, <2>3, <2>4
<1>4. ASSUME NEW o \in {"delete", "rename"}, Flushed(o)  PROVE Calm /\ CommandStep
    <2>1. CASE EndJob(o) /\ UNCHANGED calls
        BY <1>0, <1>1, <1>4, <2>1, <1>e, OneJobMoves DEF Flushed, Prompted, Prompt, Waiting
    <2>2. CASE Continue(o, "applying") /\ Send(o)
        <3>1. jobs[o].stage # "idle"
            BY <1>4 DEF Flushed, Prompted, Prompt
        <3>2. /\ \A q \in AllOps \ {o} : jobs'[q] = jobs[q]
              /\ Moves(o) /\ jobs'[o].stage = "applying"
            BY <1>0, <2>2, <3>1, ContinueMoves
        <3>3. Sent(o)'
            BY <3>2 DEF Sent
        <3> QED  BY <1>0, <1>1, <1>4, <2>2, <3>1, <3>2, <3>3, OneJobMoves
                 DEF Flushed, Prompted, Prompt, Waiting
    <2> QED  BY <1>4, <2>1, <2>2 DEF Flushed
<1>5. CASE DeleteExecuted
    <2>1. jobs["delete"].stage = "applying"
        BY <1>0, <1>5, AtHead DEF DeleteExecuted, Sent
    <2>2. /\ \A q \in AllOps \ {"delete"} : jobs'[q] = jobs[q]
          /\ Moves("delete") /\ Replied("delete")'
        BY <1>5, <1>a, <2>1 DEF DeleteExecuted
    <2> QED  BY <1>0, <1>1, <1>5, <2>1, <2>2, OneJobMoves DEF DeleteExecuted, Waiting
<1>6. CASE RenameExecuted
    <2>1. jobs["rename"].stage = "applying"
        BY <1>0, <1>6, AtHead DEF RenameExecuted, Sent
    <2>2. /\ \A q \in AllOps \ {"rename"} : jobs'[q] = jobs[q]
          /\ Moves("rename") /\ Replied("rename")'
        BY <1>6, <1>a, <2>1 DEF RenameExecuted
    <2> QED  BY <1>0, <1>1, <1>6, <2>1, <2>2, OneJobMoves DEF RenameExecuted, Waiting
<1>7. CASE DeleteAnswered
    <2>1. jobs["delete"].stage = "applied"
        BY <1>0, <1>7, AtHead DEF DeleteAnswered, Replied
    <2> QED  BY <1>0, <1>1, <1>7, <2>1, <1>e, OneJobMoves DEF DeleteAnswered, Waiting
<1>8. CASE RenameAnswered
    <2>1. jobs["rename"].stage = "applied"
        BY <1>0, <1>8, AtHead DEF RenameAnswered, Replied
    <2> QED  BY <1>0, <1>1, <1>8, <2>1, <1>e, OneJobMoves DEF RenameAnswered, Waiting
<1> QED  BY <1>2, <1>3, <1>4, <1>5, <1>6, <1>7, <1>8

\* Returning from a save, reloading and closing push no save and end none.
LEMMA CalmRecovery ==
    ASSUME Base,
           \/ RetryDone \/ OverwriteDone \/ AskReload \/ ReloadAnswered
           \/ AskClose \/ CloseFlushed \/ Discard
           \/ \E o \in AllOps : CloseWindow(o)
    PROVE  Calm /\ CommandStep
<1> USE DEF Base
<1>0. /\ {"retry", "overwrite", "reload", "close"} \subseteq AllOps /\ "reload" \in Callers
      /\ "settling" \in Steps \ {"idle", "flush"}
      /\ \A o \in AllOps : jobs[o] \in Job
    BY DEF AllOps, Callers, Steps, TypeOK
<1>1. UNCHANGED <<scene, watch>> /\ SameChain(tasks, tasks')
    BY Chain DEF RetryDone, OverwriteDone, AskReload, ReloadAnswered, AdoptReloaded, AskClose,
           CloseFlushed, Discard, CloseWindow
<1>e. \A o \in AllOps :
          EndJob(o) => (\A q \in AllOps \ {o} : jobs'[q] = jobs[q]) /\ Moves(o)
    BY EndMoves
<1>c. \A o \in AllOps : Continue(o, "settling") /\ jobs[o].stage # "idle" =>
          (\A q \in AllOps \ {o} : jobs'[q] = jobs[q]) /\ Moves(o)
    BY <1>0, ContinueMoves
<1>2. CASE RetryDone
    BY <1>0, <1>1, <1>2, <1>e, OneJobMoves DEF RetryDone, Prompted, Prompt, Waiting
<1>3. CASE OverwriteDone
    BY <1>0, <1>1, <1>3, <1>e, <1>c, OneJobMoves DEF OverwriteDone, Prompted, Prompt, Waiting
<1>4. CASE AskReload
    <2>1. issue.path \in Notes
        BY <1>4 DEF AskReload, RequestInv, Paused
    <2>2. [NoJob EXCEPT !.stage = "reading", !.path = issue.path,
                        !.held = (dialog = "close")] \in Job
        BY <2>1, JobBegins DEF Steps
    <2>3. /\ \A q \in AllOps \ {"reload"} : jobs'[q] = jobs[q]
          /\ jobs'["reload"] = [NoJob EXCEPT !.stage = "reading", !.path = issue.path,
                                             !.held = (dialog = "close")]
        BY <1>0, <1>4, <2>2, JobSet DEF AskReload
    <2>4. jobs["reload"].stage = "idle" /\ "reload" \in scene.ops
        BY <1>4 DEF AskReload, UserMay
    <2>5. jobs'["reload"].stage = "reading" /\ jobs'["reload"].path = issue.path
        BY <2>3 DEF NoJob
    <2>6. Moves("reload") /\ Sent("reload")'
        BY <2>1, <2>4, <2>5 DEF Moves, Sent
    <2> QED  BY <1>0, <1>1, <1>4, <2>3, <2>4, <2>6, OneJobMoves DEF AskReload, Waiting
<1>5. CASE ReloadAnswered
    <2>1. jobs["reload"].stage = "read"
        BY <1>0, <1>5, AtHead DEF ReloadAnswered, Replied
    <2>2. (\A q \in AllOps \ {"reload"} : jobs'[q] = jobs[q]) /\ Moves("reload")
        BY <1>0, <1>5, <1>e, <1>c, <2>1 DEF ReloadAnswered, AdoptReloaded
    <2> QED  BY <1>0, <1>1, <1>5, <2>1, <2>2, OneJobMoves DEF ReloadAnswered, Waiting
<1>6. ASSUME NEW j \in Job, UserMay("close"), jobs' = [jobs EXCEPT !["close"] = j],
             j.stage \in {"flush", "settling"}, j.tries = 0, UNCHANGED ipcVars
      PROVE  Calm /\ CommandStep
    <2>1. (\A q \in AllOps \ {"close"} : jobs'[q] = jobs[q]) /\ jobs'["close"] = j
        BY <1>0, <1>6, JobSet
    <2>2. jobs["close"].stage = "idle" /\ "close" \in scene.ops
        BY <1>6 DEF UserMay
    <2>3. Moves("close")
        BY <1>6, <2>1, <2>2 DEF Moves, OnNotes
    <2> QED  BY <1>0, <1>1, <1>6, <2>1, <2>2, <2>3, OneJobMoves DEF Waiting
<1>7. CASE AskClose
    <2> DEFINE j == [NoJob EXCEPT !.stage = "flush"]
    <2>1. j \in Job
        BY JobBegins DEF Steps
    <2>2. j.stage \in {"flush", "settling"} /\ j.tries = 0
        BY DEF NoJob
    <2>3. jobs' = [jobs EXCEPT !["close"] = j] /\ UserMay("close") /\ UNCHANGED ipcVars
        BY <1>7 DEF AskClose
    <2> HIDE DEF j
    <2> QED  BY <1>6, <2>1, <2>2, <2>3
<1>8. CASE Discard
    <2> DEFINE j == [NoJob EXCEPT !.stage = "settling", !.held = TRUE]
    <2>1. j \in Job
        BY JobBegins DEF Steps
    <2>2. j.stage \in {"flush", "settling"} /\ j.tries = 0
        BY DEF NoJob
    <2>3. jobs' = [jobs EXCEPT !["close"] = j] /\ UserMay("close") /\ UNCHANGED ipcVars
        BY <1>8 DEF Discard
    <2> HIDE DEF j
    <2> QED  BY <1>6, <2>1, <2>2, <2>3
<1>9. CASE CloseFlushed
    BY <1>0, <1>1, <1>9, <1>e, <1>c, OneJobMoves
    DEF CloseFlushed, MayGoOn, MustStop, Prompted, Prompt, Waiting
<1>10. ASSUME NEW o \in AllOps, CloseWindow(o)  PROVE Calm /\ CommandStep
    <2>1. CASE UNCHANGED jobs
        <3>1. Keeps("watch")
            BY <1>1 DEF Keeps, Sent, Replied
        <3> QED  BY <1>1, <1>10, <2>1, <3>1, NoJobMoves DEF CloseWindow
    <2>2. CASE EndJob(o)
        BY <1>0, <1>1, <1>10, <2>2, <1>e, OneJobMoves DEF CloseWindow, Waiting
    <2> QED  BY <1>10, <2>1, <2>2 DEF CloseWindow
<1> QED  BY <1>2, <1>3, <1>4, <1>5, <1>7, <1>8, <1>9, <1>10

\* Following a change pushes no save and ends none.
LEMMA CalmWatcher ==
    ASSUME Base, WatchFlush \/ WatchListed \/ WatchReads \/ WatchAnswered
    PROVE  Calm /\ CommandStep
<1> USE DEF Base
<1>0. "watch" \in Callers /\ watch \in Watch
    BY DEF Callers, TypeOK
<1>1. UNCHANGED <<jobs, scene>> /\ SameChain(tasks, tasks')
    BY Chain DEF WatchFlush, WatchListed, WatchReads, WatchAnswered, WatchMisses, WatchAdopts
<1>2. CASE WatchFlush
    <2>1. Keeps("watch")
        BY <1>2 DEF WatchFlush, Keeps, Sent, Replied
    <2> QED  BY <1>1, <1>2, <2>1, NoJobMoves DEF WatchFlush
<1>3. CASE WatchListed
    <2>1. watch'.stage = "reading"
        BY <1>0, <1>3 DEF WatchListed, Watch
    <2>2. ~Sent("watch") /\ ~Replied("watch") /\ Sent("watch")'
        BY <1>3, <2>1 DEF WatchListed, Sent, Replied
    <2> QED  BY <1>1, <1>3, <2>2, NoJobMoves DEF WatchListed
<1>4. CASE WatchReads
    <2>1. watch'.stage = "read"
        BY <1>0, <1>4 DEF WatchReads, Watch
    <2>2. Replied("watch")'
        BY <2>1 DEF Replied
    <2> QED  BY <1>1, <1>4, <2>2, NoJobMoves DEF WatchReads
<1>5. CASE WatchAnswered
    BY <1>1, <1>5, NoJobMoves DEF WatchAnswered
<1> QED  BY <1>2, <1>3, <1>4, <1>5

\* A step in which every job stays, ends, begins or goes on keeps JobInv.
LEMMA JobsGoOn ==
    ASSUME Base, scene' = scene, \A o \in AllOps : Moves(o)
    PROVE  JobInv'
<1> SUFFICES ASSUME NEW o \in AllOps
             PROVE  /\ jobs'[o].stage = "idle" => jobs'[o] = NoJob
                    /\ jobs'[o].stage # "idle" => o \in scene'.ops
                    /\ jobs'[o].stage = "flush" => jobs'[o].tries = 0
                    /\ jobs'[o].stage # "idle" /\ o \in OnNotes => jobs'[o].path \in Notes
                    /\ jobs'[o].stage # "idle" /\ o = "rename" => jobs'[o].to \in Notes
    BY DEF JobInv
<1>1. Moves(o)
    OBVIOUS
<1>2. NoJob.stage = "idle"
    BY DEF NoJob
<1> QED  BY <1>1, <1>2 DEF Base, JobInv, Moves

\* Whom a save wakes are operations.
LEMMA Wakers ==
    TypeOK => \A i \in 1..Len(tasks) : tasks[i] \in Task /\ tasks[i].wakes \subseteq AllOps
<1> SUFFICES ASSUME TypeOK, NEW i \in 1..Len(tasks)
             PROVE  tasks[i] \in Task /\ tasks[i].wakes \subseteq AllOps
    OBVIOUS
<1>1. tasks[i] \in Task
    BY ElementOfSeq DEF TypeOK
<1> QED  BY <1>1 DEF Task

\* A calm step keeps what is said of jobs and saves.
LEMMA CalmKeeps ==
    ASSUME Base, Calm
    PROVE  JobInv' /\ TaskInv' /\ WakeInv'
<1> USE DEF Base
<1>1. JobInv'
    BY JobsGoOn DEF Calm
<1>2. Len(tasks') = Len(tasks) /\ SameChain(tasks, tasks')
    BY DEF Calm, SameChain
<1>3. TaskInv'
    BY <1>2 DEF TaskInv, SameChain
<1>4. \A i \in 1..Len(tasks) : tasks[i].wakes \subseteq AllOps
             /\ tasks'[i].wakes = tasks[i].wakes
    BY <1>2, Wakers DEF SameChain
<1>5. WakeInv'
    BY <1>2, <1>4 DEF WakeInv, Calm
<1> QED  BY <1>1, <1>3, <1>5

\* A save is pushed: at the end, and nobody waits for another one as well.
LEMMA PushKeeps ==
    ASSUME Base, NEW t \in Task, tasks' = Append(tasks, t),
           t.path \in Notes, t.stage = "queued", t.status = "none",
           \A o \in t.wakes : jobs[o].stage \notin Waiting /\ jobs'[o].stage \in Waiting,
           \A o \in AllOps : jobs[o].stage \in Waiting => jobs'[o] = jobs[o]
    PROVE  TaskInv' /\ WakeInv' /\ Keeps("save")
<1> USE DEF Base
<1>1. /\ tasks' \in Seq(Task) /\ Len(tasks') = Len(tasks) + 1 /\ tasks'[Len(tasks) + 1] = t
      /\ \A i \in 1..Len(tasks) : tasks'[i] = tasks[i]
      /\ Len(tasks) \in Nat
    BY AppendedTask, LenProperties DEF TypeOK
<1>2. \A i \in 1..Len(tasks') : i \in 1..Len(tasks) \/ i = Len(tasks) + 1
    BY <1>1
<1>3. TaskInv'
    BY <1>1, <1>2 DEF TaskInv
<1>4. \A i \in 1..Len(tasks) : tasks[i].wakes \subseteq AllOps
    BY Wakers
<1>5. t.wakes \subseteq AllOps
    BY DEF Task
<1>6. \A i \in 1..Len(tasks) : tasks[i].wakes \cap t.wakes = {}
    BY <1>4 DEF WakeInv
<1>7. \A i \in 1..Len(tasks') : \A o \in tasks'[i].wakes : jobs'[o].stage \in Waiting
    BY <1>1, <1>2, <1>4 DEF WakeInv
<1>8. \A i, j \in 1..Len(tasks') : i # j => tasks'[i].wakes \cap tasks'[j].wakes = {}
    BY <1>1, <1>2, <1>6 DEF WakeInv
<1>9. Keeps("save")
    <2>1. CASE tasks = <<>>
        BY <2>1 DEF Keeps, Sent, Replied
    <2>2. CASE tasks # <<>>
        <3>1. 1 \in 1..Len(tasks) /\ tasks' # <<>>
            BY <1>1, <2>2, HeadTask, EmptySeq
        <3> QED  BY <1>1, <2>2, <3>1 DEF Keeps, Sent, Replied
    <2> QED  BY <2>1, <2>2
<1> QED  BY <1>3, <1>7, <1>8, <1>9 DEF WakeInv

\* A save ends: the next one moves up and those who waited go on.
LEMMA FinishKeeps ==
    ASSUME Base, tasks # <<>>, NEW ok \in BOOLEAN, Finish(ok)
    PROVE  /\ TaskInv' /\ WakeInv'
           /\ \A o \in AllOps : Moves(o)
           /\ watch' = watch => \A w \in Callers \ {"save"} : Keeps(w)
<1> USE DEF Base
<1>1. /\ tasks' = Tail(tasks) /\ tasks' \in Seq(Task) /\ Len(tasks') = Len(tasks) - 1
      /\ Len(tasks) \in Nat /\ Len(tasks) > 0
      /\ \A i \in 1..Len(tasks') : i + 1 \in 1..Len(tasks) /\ tasks'[i] = tasks[i + 1]
    <2>1. tasks' = Tail(tasks) /\ tasks' \in Seq(Task)
        BY Finishes
    <2>2. tasks \in Seq(Task)
        BY DEF TypeOK
    <2> QED  BY <2>1, <2>2, TailTasks
<1>2. /\ \A o \in AllOps \ tasks[1].wakes : jobs'[o] = jobs[o]
      /\ \A o \in tasks[1].wakes :
            /\ o \in AllOps
            /\ jobs'[o].stage \in {"drained", "awaited", "saved", "unsaved"}
            /\ jobs'[o].path = jobs[o].path /\ jobs'[o].to = jobs[o].to
            /\ jobs'[o].held = jobs[o].held
    BY Finishes
<1>3. \A o \in tasks[1].wakes : jobs[o].stage \in Waiting
    BY <1>1 DEF WakeInv
<1>4. \A o \in AllOps : Moves(o)
    BY <1>2, <1>3 DEF Moves, Waiting
<1>5. TaskInv'
    BY <1>1 DEF TaskInv
<1>6. \A i \in 1..Len(tasks') : tasks'[i].wakes \cap tasks[1].wakes = {}
                                   /\ tasks'[i].wakes \subseteq AllOps
    <2> TAKE i \in 1..Len(tasks')
    <2>1. i + 1 # 1 /\ i + 1 \in 1..Len(tasks) /\ 1 \in 1..Len(tasks)
        BY <1>1
    <2>2. tasks[i + 1] \in Task
        BY <2>1, ElementOfSeq DEF TypeOK
    <2> QED  BY <1>1, <2>1, <2>2 DEF WakeInv, Task
<1>7. \A i \in 1..Len(tasks') : \A o \in tasks'[i].wakes : jobs'[o].stage \in Waiting
    BY <1>1, <1>2, <1>6 DEF WakeInv
<1>8. \A i, j \in 1..Len(tasks') : i # j => tasks'[i].wakes \cap tasks'[j].wakes = {}
    <2> TAKE i, j \in 1..Len(tasks')
    <2>1. i # j => i + 1 # j + 1
        BY <1>1
    <2> QED  BY <1>1, <2>1 DEF WakeInv
<1>9. ASSUME watch' = watch, NEW w \in Callers \ {"save"}  PROVE Keeps(w)
    <2>1. CASE w = "watch" \/ w \in AllOps \ tasks[1].wakes
        BY <1>2, <1>9, <2>1 DEF Keeps, Sent, Replied, AllOps
    <2>2. CASE w \in tasks[1].wakes
        BY <1>2, <1>3, <2>2 DEF Keeps, Sent, Replied, Waiting, AllOps
    <2> QED  BY <2>1, <2>2 DEF Callers
<1> QED  BY <1>4, <1>5, <1>7, <1>8, <1>9 DEF WakeInv

\* The save at the head goes on.
LEMMA HeadKeeps ==
    ASSUME Base, tasks # <<>>, NEW u \in Task, tasks' = [tasks EXCEPT ![1] = u],
           u.path \in Notes, u.stage # "queued", u.expected \in Revisions,
           u.stage \in {"indexing", "settling"} => u.status = "saved",
           u.status = "saved" => u.actual = u.text,
           u.wakes = tasks[1].wakes, UNCHANGED <<jobs, watch>>
    PROVE  /\ TaskInv' /\ WakeInv'
           /\ tasks' # <<>> /\ tasks'[1] = u
           /\ \A o \in AllOps : Moves(o)
           /\ \A w \in Callers \ {"save"} : Keeps(w)
<1> USE DEF Base
<1>1. /\ tasks' \in Seq(Task) /\ Len(tasks') = Len(tasks) /\ tasks'[1] = u
      /\ \A i \in 1..Len(tasks) : i # 1 => tasks'[i] = tasks[i]
      /\ 1 \in 1..Len(tasks)
    BY ReplacedTask, HeadTask DEF TypeOK
<1>2. tasks' # <<>>
    BY <1>1, EmptySeq
<1>3. TaskInv'
    BY <1>1 DEF TaskInv
<1>4. \A i \in 1..Len(tasks) : tasks'[i].wakes = tasks[i].wakes
    BY <1>1
<1>5. WakeInv'
    BY <1>1, <1>4 DEF WakeInv
<1> QED  BY <1>1, <1>2, <1>3, <1>5 DEF Moves, Keeps, Sent, Replied, Callers

\* The timer fires and its save joins the chain.
LEMMA BusyTimer ==
    ASSUME Base, TimerFires
    PROVE  /\ scene' = scene /\ TaskInv' /\ WakeInv' /\ CommandStep
           /\ \A o \in AllOps : Moves(o)
<1> USE DEF Base
<1> DEFINE t == NewTask(timer.path, timer.text, "timer" \in current, Baseline, {})
<1>1. t \in Task /\ t.path \in Notes /\ t.stage = "queued" /\ t.status = "none" /\ t.wakes = {}
    <2>1. timer.path \in Notes /\ timer.text \in Contents
        BY DEF TimerFires, TypeOK
    <2>2. ("timer" \in current) \in BOOLEAN /\ {} \in SUBSET AllOps
        OBVIOUS
    <2>3. t \in Task
        BY <2>1, <2>2, NewTaskTyped
    <2> QED  BY <2>1, <2>3 DEF NewTask
<1>2. tasks' = Append(tasks, t) /\ UNCHANGED <<jobs, scene, watch, ipcVars>>
    BY DEF TimerFires
<1> HIDE DEF t
<1>3. TaskInv' /\ WakeInv' /\ Keeps("save")
    BY <1>1, <1>2, PushKeeps
<1>4. \A w \in Callers : Keeps(w)
    BY <1>2, <1>3 DEF Keeps, Sent, Replied, Callers
<1> QED  BY <1>2, <1>3, <1>4 DEF Moves, CommandStep

\* The user chose "overwrite" and its save joins the chain.
LEMMA BusyOverwrite ==
    ASSUME Base, AskOverwrite
    PROVE  /\ scene' = scene /\ TaskInv' /\ WakeInv' /\ CommandStep
           /\ \A o \in AllOps : Moves(o)
<1> USE DEF Base
<1> DEFINE t == NewTask(issue.path, text, TRUE, issue.actual, {"overwrite"})
           j == [NoJob EXCEPT !.stage = "saving", !.held = (dialog = "close")]
<1>0. "overwrite" \in AllOps
    BY DEF AllOps
<1>1. t \in Task /\ t.path \in Notes /\ t.stage = "queued" /\ t.status = "none"
      /\ t.wakes = {"overwrite"}
    <2>1. issue.path \in Notes /\ issue.actual \in Revisions
        BY DEF AskOverwrite, RequestInv, Paused, TypeOK, Issue
    <2>2. t \in Task
        BY <1>0, <2>1, NewTaskTyped DEF TypeOK
    <2> QED  BY <2>1, <2>2 DEF NewTask
<1>2. j \in Job /\ j.stage = "saving"
    BY JobBegins DEF Steps, NoJob
<1>3. tasks' = Append(tasks, t) /\ jobs' = [jobs EXCEPT !["overwrite"] = j]
      /\ UNCHANGED <<scene, watch, ipcVars>>
    BY DEF AskOverwrite
<1>4. jobs["overwrite"].stage = "idle" /\ "overwrite" \in scene.ops
    BY DEF AskOverwrite, UserMay
<1> HIDE DEF t, j
<1>5. (\A q \in AllOps \ {"overwrite"} : jobs'[q] = jobs[q]) /\ jobs'["overwrite"] = j
    BY <1>0, <1>2, <1>3, JobSet
<1>6. TaskInv' /\ WakeInv' /\ Keeps("save")
    BY <1>1, <1>2, <1>3, <1>4, <1>5, PushKeeps DEF Waiting
<1>7. \A w \in Callers : Keeps(w)
    BY <1>3, <1>5, <1>6 DEF Keeps, Sent, Replied, Callers
<1>8. \A o \in AllOps : Moves(o)
    BY <1>2, <1>4, <1>5 DEF Moves, OnNotes
<1> QED  BY <1>3, <1>6, <1>7, <1>8 DEF CommandStep

\* An attempt of a flush, or the save the user asked for, begins to wait.
LEMMA BusyPush ==
    ASSUME Base, NEW o \in AllOps, jobs[o].tries < 3, open # NoNote,
           PushTask(o, NewTask(open, text, TRUE, Baseline, {o})),
           jobs[o].stage \notin Waiting \cup {"reading", "read", "applying", "applied"},
           jobs[o].stage # "idle" \/ (o = "retry" /\ o \in scene.ops),
           UNCHANGED <<scene, watch, ipcVars>>
    PROVE  /\ TaskInv' /\ WakeInv' /\ CommandStep
           /\ \A q \in AllOps : Moves(q)
<1> USE DEF Base
<1> DEFINE t == NewTask(open, text, TRUE, Baseline, {o})
<1>1. t \in Task /\ t.path \in Notes /\ t.stage = "queued" /\ t.status = "none" /\ t.wakes = {o}
    <2>1. t \in Task
        BY NewTaskTyped DEF TypeOK
    <2> QED  BY <2>1 DEF NewTask, TypeOK
<1>2. /\ tasks' = Append(tasks, t)
      /\ \A q \in AllOps \ {o} : jobs'[q] = jobs[q]
      /\ jobs'[o].stage = "saving" /\ jobs'[o].path = jobs[o].path
      /\ jobs'[o].to = jobs[o].to /\ jobs'[o].held = jobs[o].held
    BY <1>1, Pushes
<1> HIDE DEF t
<1>3. TaskInv' /\ WakeInv' /\ Keeps("save")
    BY <1>1, <1>2, PushKeeps DEF Waiting
<1>4. ~Sent(o) /\ ~Replied(o)
    BY DEF Sent, Replied, AllOps
<1>5. \A w \in Callers : Keeps(w)
    BY <1>2, <1>3, <1>4 DEF Keeps, Sent, Replied, Callers
<1>6. \A q \in AllOps : Moves(q)
    BY <1>2 DEF Moves, OnNotes
<1> QED  BY <1>3, <1>5, <1>6 DEF CommandStep

\* A flush begins to wait for the last save of the chain.
LEMMA BusyWait ==
    ASSUME Base, NEW o \in AllOps, tasks # <<>>, NEW st \in Waiting, WaitForLast(o, st),
           jobs[o].stage \notin Waiting \cup {"idle", "reading", "read", "applying", "applied"},
           UNCHANGED <<scene, watch, ipcVars>>
    PROVE  /\ TaskInv' /\ WakeInv' /\ CommandStep
           /\ \A q \in AllOps : Moves(q)
<1> USE DEF Base
<1>0. st \in Steps /\ st \notin {"idle", "flush"}
    BY DEF Waiting, Steps
<1>1. /\ tasks' \in Seq(Task) /\ Len(tasks') = Len(tasks)
      /\ \A i \in 1..Len(tasks) : i # Len(tasks) => tasks'[i] = tasks[i]
      /\ tasks'[Len(tasks)] = [tasks[Len(tasks)] EXCEPT !.wakes = @ \cup {o}]
      /\ \A q \in AllOps \ {o} : jobs'[q] = jobs[q]
      /\ jobs'[o] = [jobs[o] EXCEPT !.stage = st]
    BY <1>0, Waits
<1>2. \A i \in 1..Len(tasks) : tasks[i] \in Task
    BY ElementOfSeq DEF TypeOK
<1>3. 1 \in 1..Len(tasks) /\ Len(tasks) \in 1..Len(tasks) /\ Len(tasks) \in Nat
    BY HeadTask, LenProperties DEF TypeOK
<1>4. \A i \in 1..Len(tasks) :
          /\ tasks'[i].path = tasks[i].path /\ tasks'[i].text = tasks[i].text
          /\ tasks'[i].expected = tasks[i].expected /\ tasks'[i].stage = tasks[i].stage
          /\ tasks'[i].status = tasks[i].status /\ tasks'[i].actual = tasks[i].actual
          /\ tasks'[i].wakes \subseteq tasks[i].wakes \cup {o}
          /\ i # Len(tasks) => tasks'[i].wakes = tasks[i].wakes
    BY <1>1, <1>2, <1>3 DEF Task
<1>5. TaskInv'
    BY <1>1, <1>4 DEF TaskInv
<1>6. \A i \in 1..Len(tasks) : o \notin tasks[i].wakes /\ tasks[i].wakes \subseteq AllOps
    BY <1>2 DEF WakeInv, Task
<1>7. jobs'[o].stage = st
    <2>1. jobs[o] \in Job
        BY DEF TypeOK
    <2> QED  BY <1>1, <2>1 DEF Job
<1>8. \A i \in 1..Len(tasks') : \A q \in tasks'[i].wakes : jobs'[q].stage \in Waiting
    <2> SUFFICES ASSUME NEW i \in 1..Len(tasks), NEW q \in tasks'[i].wakes
                 PROVE  jobs'[q].stage \in Waiting
        BY <1>1
    <2>1. CASE q = o
        BY <1>7, <2>1
    <2>2. CASE q # o
        <3>1. q \in tasks[i].wakes /\ q \in AllOps
            BY <1>4, <1>6, <2>2
        <3> QED  BY <1>1, <2>2, <3>1 DEF WakeInv
    <2> QED  BY <2>1, <2>2
<1>9. \A i, k \in 1..Len(tasks') : i # k => tasks'[i].wakes \cap tasks'[k].wakes = {}
    BY <1>1, <1>4, <1>6 DEF WakeInv
<1>10. ~Sent(o) /\ ~Replied(o) /\ ~Sent(o)' /\ ~Replied(o)'
    BY <1>7 DEF Sent, Replied, AllOps, Waiting
<1>11. tasks' # <<>>
    BY <1>1, <1>3, EmptySeq
<1>12. \A w \in Callers : Keeps(w)
    BY <1>1, <1>3, <1>4, <1>10, <1>11 DEF Keeps, Sent, Replied, Callers
<1>13. \A q \in AllOps : Moves(q)
    <2>1. jobs[o] \in Job
        BY DEF TypeOK
    <2>2. jobs'[o].path = jobs[o].path /\ jobs'[o].to = jobs[o].to
                 /\ jobs'[o].held = jobs[o].held
        BY <1>1, <2>1 DEF Job
    <2> QED  BY <1>0, <1>1, <1>7, <2>2 DEF Moves
<1> QED  BY <1>5, <1>8, <1>9, <1>12, <1>13 DEF WakeInv, CommandStep

\* Flushing before an operation, and saving once more.
LEMMA BusyFlushes ==
    ASSUME Base, (\E o \in AllOps : Flush(o) \/ FlushGoesOn(o)) \/ AskRetry
    PROVE  /\ scene' = scene /\ TaskInv' /\ WakeInv' /\ CommandStep
           /\ \A q \in AllOps : Moves(q)
<1> USE DEF Base
<1> DEFINE Goal == /\ scene' = scene /\ TaskInv' /\ WakeInv' /\ CommandStep
                   /\ \A q \in AllOps : Moves(q)
<1>0. /\ {"draining", "awaiting"} \subseteq Waiting
      /\ {"flushed", "blocked"} \subseteq Steps \ {"idle", "flush"}
      /\ "retry" \in AllOps
    BY DEF Waiting, Steps, AllOps
<1>k. ASSUME Calm, CommandStep  PROVE Goal
    BY <1>k, CalmKeeps DEF Calm
<1>b. ASSUME NEW o \in AllOps, NEW st \in {"flushed", "blocked"}, Continue(o, st),
             UNCHANGED tasks,
             jobs[o].stage \notin
                 Waiting \cup {"idle", "reading", "read", "applying", "applied"},
             UNCHANGED <<scene, watch, ipcVars>>
      PROVE  Goal
    <2>1. (\A q \in AllOps \ {o} : jobs'[q] = jobs[q]) /\ Moves(o)
        BY <1>0, <1>b, ContinueMoves
    <2>2. SameChain(tasks, tasks')
        BY <1>b, Chain
    <2> QED  BY <1>b, <1>k, <2>1, <2>2, OneJobMoves
<1>l. ASSUME NEW o \in AllOps, NEW ok \in BOOLEAN, LeaveFlush(o, ok),
             jobs[o].stage \notin
                 Waiting \cup {"idle", "reading", "read", "applying", "applied"},
             UNCHANGED <<scene, watch, ipcVars>>
      PROVE  Goal
    <2>1. jobs[o] \in Job
        BY DEF TypeOK
    <2>2. /\ \A q \in AllOps \ {o} : jobs'[q] = jobs[q]
          /\ jobs'[o].stage \in {"flushed", "blocked"} /\ jobs'[o].path = jobs[o].path
          /\ jobs'[o].to = jobs[o].to /\ jobs'[o].held = jobs[o].held
        BY <1>l, <2>1 DEF LeaveFlush, TypeOK, Job
    <2>3. Moves(o)
        BY <1>l, <2>2 DEF Moves
    <2>4. SameChain(tasks, tasks')
        BY <1>l, Chain DEF LeaveFlush
    <2> QED  BY <1>l, <1>k, <2>2, <2>3, <2>4, OneJobMoves
<1>a. ASSUME NEW o \in AllOps, Attempt(o), jobs[o].tries < 3,
             jobs[o].stage \notin
                 Waiting \cup {"idle", "reading", "read", "applying", "applied"},
             UNCHANGED <<scene, watch, ipcVars>>
      PROVE  Goal
    <2>0. /\ jobs[o].stage \notin Waiting \cup {"reading", "read", "applying", "applied"}
          /\ jobs[o].stage # "idle" \/ (o = "retry" /\ o \in scene.ops)
        BY <1>a
    <2>1. CASE open # NoNote /\ PushTask(o, NewTask(open, text, TRUE, Baseline, {o}))
        <3>1. /\ scene' = scene /\ TaskInv' /\ WakeInv' /\ CommandStep
              /\ \A q \in AllOps : Moves(q)
            BY <1>a, <2>0, <2>1, BusyPush
        <3> QED  BY <3>1
    <2>2. CASE tasks # <<>> /\ WaitForLast(o, "awaiting")
        BY <1>a, <1>0, <2>2, BusyWait
    <2>3. CASE Continue(o, "blocked") /\ UNCHANGED <<tasks, current>>
        BY <1>a, <1>b, <2>3
    <2> QED  BY <1>a, <2>1, <2>2, <2>3 DEF Attempt
<1>1. ASSUME NEW o \in AllOps, Flush(o)  PROVE Goal
    <2>1. jobs[o].stage = "flush" /\ jobs[o].tries < 3 /\ UNCHANGED <<scene, watch, ipcVars>>
        BY <1>1 DEF Flush, JobInv
    <2>2. jobs[o].stage \notin Waiting \cup {"idle", "reading", "read", "applying", "applied"}
        BY <2>1 DEF Waiting
    <2>3. CASE Attempt(o)
        BY <1>a, <2>1, <2>2, <2>3
    <2>4. CASE LeaveFlush(o, issue = NoIssue)
        BY <1>l, <2>1, <2>2, <2>4
    <2>5. CASE tasks # <<>> /\ WaitForLast(o, "draining")
        BY <1>0, <2>1, <2>2, <2>5, BusyWait
    <2> QED  BY <1>1, <2>3, <2>4, <2>5 DEF Flush
<1>2. ASSUME NEW o \in AllOps, FlushGoesOn(o)  PROVE Goal
    <2>1. jobs[o].stage \in {"drained", "saved", "unsaved", "awaited"}
          /\ UNCHANGED <<scene, watch, ipcVars>>
        BY <1>2 DEF FlushGoesOn
    <2>2. jobs[o].stage \notin Waiting \cup {"idle", "reading", "read", "applying", "applied"}
        BY <2>1 DEF Waiting
    <2>3. CASE Attempt(o) /\ jobs[o].tries < 3
        BY <1>a, <2>1, <2>2, <2>3
    <2>4. CASE \E ok \in BOOLEAN : LeaveFlush(o, ok)
        BY <1>l, <2>1, <2>2, <2>4
    <2> QED  BY <1>2, <2>3, <2>4 DEF FlushGoesOn
<1>3. CASE AskRetry
    <2>1. jobs["retry"].stage = "idle" /\ "retry" \in scene.ops
                 /\ UNCHANGED <<scene, watch, ipcVars>>
        BY <1>3 DEF AskRetry, UserMay
    <2>2. jobs["retry"].tries < 3
        BY <1>0, <2>1 DEF JobInv, NoJob
    <2>3. CASE open # NoNote /\ PushTask("retry", NewTask(open, text, TRUE, Baseline, {"retry"}))
        BY <1>0, <2>1, <2>2, <2>3, BusyPush DEF Waiting
    <2>4. CASE UNCHANGED <<tasks, jobs>>
        <3>1. SameChain(tasks, tasks') /\ Keeps("watch")
            BY <2>1, <2>4, Chain DEF Keeps, Sent, Replied
        <3> QED  BY <1>k, <2>1, <2>4, <3>1, NoJobMoves
    <2> QED  BY <1>3, <2>3, <2>4 DEF AskRetry
<1> QED  BY <1>1, <1>2, <1>3

\* The handlers of a save.
LEMMA BusySaves ==
    ASSUME Base, StartTask \/ SaveExecuted \/ SaveAnswered \/ Indexed \/ Settled
    PROVE  /\ scene' = scene /\ TaskInv' /\ WakeInv' /\ CommandStep
           /\ \A q \in AllOps : Moves(q)
<1> USE DEF Base
<1> DEFINE Goal == TaskInv' /\ WakeInv' /\ CommandStep /\ \A q \in AllOps : Moves(q)
           t == tasks[1]
<1>0. /\ tasks # <<>> /\ t \in Task /\ 1 \in 1..Len(tasks) /\ t.path \in Notes
      /\ UNCHANGED <<scene, watch>> /\ "save" \in Callers
    <2>1. tasks # <<>>
        BY CallerNames, AtHead DEF StartTask, HeadQueued, SaveExecuted, SaveAnswered, Indexed,
               Settled, Sent, Replied
    <2> QED  BY <2>1, HeadTask, CallerNames
             DEF TaskInv, StartTask, SaveExecuted, SaveAnswered, Indexed, Settled
<1>t. /\ t.stage # "queued" => t.expected \in Revisions
      /\ t.stage = "queued" => t.status = "none"
      /\ t.stage \in {"indexing", "settling"} => t.status = "saved"
      /\ t.status = "saved" => t.actual = t.text
    BY <1>0 DEF TaskInv
<1>f. ASSUME NEW ok \in BOOLEAN, Finish(ok),
             \/ UNCHANGED ipcVars /\ t.stage # "calling"
             \/ Answered("save") /\ calls' = calls
      PROVE  Goal
    <2>1. /\ TaskInv' /\ WakeInv' /\ (\A o \in AllOps : Moves(o))
          /\ \A w \in Callers \ {"save"} : Keeps(w)
        BY <1>0, <1>f, FinishKeeps
    <2>2. CASE UNCHANGED ipcVars /\ t.stage # "calling"
        <3>1. Keeps("save")
            BY <2>2 DEF Keeps, Sent, Replied
        <3>2. \A w \in Callers : Keeps(w)
            BY <2>1, <3>1
        <3> QED  BY <2>1, <2>2, <3>2 DEF CommandStep
    <2>3. CASE Answered("save") /\ calls' = calls
        BY <1>0, <2>1, <2>3 DEF CommandStep
    <2> QED  BY <1>f, <2>1, <2>2, <2>3
<1>h. ASSUME NEW u \in Task, tasks' = [tasks EXCEPT ![1] = u], UNCHANGED jobs,
             u.path = t.path, u.text = t.text, u.wakes = t.wakes, u.expected \in Revisions,
             u.stage # "queued",
             u.stage \in {"indexing", "settling"} => u.status = "saved",
             u.status = "saved" => u.actual = u.text,
             \/ /\ UNCHANGED ipcVars /\ t.stage # "calling" /\ u.stage # "calling"
             \/ /\ Send("save") /\ answers' = answers /\ t.stage # "calling"
                /\ u.stage = "calling" /\ u.status = "none"
             \/ /\ Executed("save") /\ u.stage = "calling" /\ u.status # "none"
             \/ Answered("save") /\ calls' = calls
      PROVE  Goal
    <2>1. /\ TaskInv' /\ WakeInv' /\ (\A o \in AllOps : Moves(o))
          /\ \A w \in Callers \ {"save"} : Keeps(w)
          /\ tasks' # <<>> /\ tasks'[1] = u
        BY <1>0, <1>h, HeadKeeps
    <2>2. CASE UNCHANGED ipcVars /\ t.stage # "calling" /\ u.stage # "calling"
        <3>1. Keeps("save")
            BY <2>1, <2>2 DEF Keeps, Sent, Replied
        <3>2. \A w \in Callers : Keeps(w)
            BY <2>1, <3>1
        <3> QED  BY <2>1, <2>2, <3>2 DEF CommandStep
    <2>3. CASE /\ Send("save") /\ answers' = answers /\ t.stage # "calling"
               /\ u.stage = "calling" /\ u.status = "none"
        <3>1. ~Sent("save") /\ ~Replied("save") /\ Sent("save")'
            BY <2>1, <2>3 DEF Sent, Replied
        <3> QED  BY <1>0, <2>1, <2>3, <3>1 DEF CommandStep
    <2>4. CASE Executed("save") /\ u.stage = "calling" /\ u.status # "none"
        <3>1. Replied("save")'
            BY <2>1, <2>4 DEF Replied
        <3> QED  BY <1>0, <2>1, <2>4, <3>1 DEF CommandStep
    <2>5. CASE Answered("save") /\ calls' = calls
        BY <1>0, <2>1, <2>5 DEF CommandStep
    <2> QED  BY <1>h, <2>2, <2>3, <2>4, <2>5, <2>1
<1>s. tasks \in Seq(Task) /\ baseline \in Revisions /\ disk[t.path] \in Revisions
    BY <1>0 DEF TypeOK
<1>1. CASE StartTask
    <2>1. t.stage = "queued"
        BY <1>1 DEF StartTask, HeadQueued
    <2>2. CASE /\ tasks' = [tasks EXCEPT ![1].stage = "calling", ![1].mine = TRUE,
                          ![1].expected = IF @ = Baseline THEN baseline ELSE @]
               /\ Send("save") /\ UNCHANGED <<issueVars, jobs>>
        <3> DEFINE u == [t EXCEPT !.stage = "calling", !.mine = TRUE,
                                  !.expected = IF @ = Baseline THEN baseline ELSE @]
        <3>1. /\ u \in Task /\ u.path = t.path /\ u.text = t.text /\ u.wakes = t.wakes
              /\ u.stage = "calling" /\ u.status = t.status
            BY <1>0, <1>s DEF Task
        <3>2. u.expected \in Revisions
            BY <1>0, <1>s DEF Task
        <3>3. tasks' = [tasks EXCEPT ![1] = u]
            BY <1>0, <1>s, <2>2
        <3>4. answers' = answers
            BY <1>1 DEF StartTask
        <3> HIDE DEF u
        <3> QED  BY <1>0, <1>t, <1>h, <2>1, <2>2, <3>1, <3>2, <3>3, <3>4
    <2>3. CASE Finish(FALSE) /\ UNCHANGED <<dialog, calls>>
        BY <1>0, <1>1, <1>f, <2>1, <2>3 DEF StartTask
    <2> QED  BY <1>0, <1>1, <2>2, <2>3 DEF StartTask
<1>2. CASE SaveExecuted
    <2>1. t.stage = "calling"
        BY <1>0, <1>2, AtHead DEF SaveExecuted, Sent
    <2>2. PICK s \in {"saved", "conflict", "failed"}, a \in Revisions :
              Answer(s, a) /\ (s = "saved" => a = t.text)
        BY <1>0, <1>s, <1>2 DEF SaveExecuted, Revisions, Task
    <2> DEFINE u == [t EXCEPT !.status = s, !.actual = a]
    <2>3. /\ u \in Task /\ u.path = t.path /\ u.text = t.text /\ u.wakes = t.wakes
          /\ u.stage = "calling" /\ u.status = s /\ u.actual = a /\ u.expected = t.expected
        BY <1>0, <2>1 DEF Task
    <2>4. tasks' = [tasks EXCEPT ![1] = u]
        BY <1>0, <1>s, <2>2 DEF Answer
    <2>5. Executed("save") /\ UNCHANGED jobs
        BY <1>2 DEF SaveExecuted
    <2> HIDE DEF u
    <2> QED  BY <1>0, <1>t, <1>h, <2>1, <2>2, <2>3, <2>4, <2>5
<1>3. CASE SaveAnswered
    <2>1. Answered("save") /\ calls' = calls /\ t.stage = "calling"
        BY <1>0, <1>3, AtHead DEF SaveAnswered, Replied
    <2>2. CASE \E ok \in BOOLEAN : Finish(ok)
        BY <1>0, <1>f, <2>1, <2>2
    <2>3. CASE /\ t.status = "saved" /\ UNCHANGED jobs
               /\ tasks' = [tasks EXCEPT ![1].stage = "indexing"]
        <3> DEFINE u == [t EXCEPT !.stage = "indexing"]
        <3>1. /\ u \in Task /\ u.path = t.path /\ u.text = t.text /\ u.wakes = t.wakes
              /\ u.stage = "indexing" /\ u.status = t.status /\ u.actual = t.actual
              /\ u.expected = t.expected
            BY <1>0 DEF Task
        <3>2. tasks' = [tasks EXCEPT ![1] = u]
            BY <1>0, <1>s, <2>3
        <3> HIDE DEF u
        <3> QED  BY <1>0, <1>t, <1>h, <2>1, <2>3, <3>1, <3>2
    <2> QED  BY <1>3, <2>2, <2>3 DEF SaveAnswered, SaveConflict, SaveFailed, SaveDone
<1>4. CASE Indexed
    <2>1. t.stage = "indexing" /\ UNCHANGED ipcVars
        BY <1>4 DEF Indexed
    <2>2. CASE Finish(TRUE)
        BY <1>0, <1>f, <2>1, <2>2
    <2>3. CASE UNCHANGED jobs /\ tasks' = [tasks EXCEPT ![1].stage = "settling"]
        <3> DEFINE u == [t EXCEPT !.stage = "settling"]
        <3>1. /\ u \in Task /\ u.path = t.path /\ u.text = t.text /\ u.wakes = t.wakes
              /\ u.stage = "settling" /\ u.status = t.status /\ u.actual = t.actual
              /\ u.expected = t.expected
            BY <1>0 DEF Task
        <3>2. tasks' = [tasks EXCEPT ![1] = u]
            BY <1>0, <1>s, <2>3
        <3> HIDE DEF u
        <3> QED  BY <1>0, <1>t, <1>h, <2>1, <2>3, <3>1, <3>2
    <2> QED  BY <1>4, <2>2, <2>3 DEF Indexed
<1>5. CASE Settled
    <2>1. t.stage = "settling" /\ UNCHANGED ipcVars /\ Finish(TRUE)
        BY <1>5 DEF Settled
    <2> QED  BY <1>0, <1>f, <2>1
<1> QED  BY <1>0, <1>1, <1>2, <1>3, <1>4, <1>5

\* The queues, the jobs and the chain of saves fit each other in every state.
LEMMA ControlGoesOn ==
    Base /\ [Next]_vars => /\ scene' = scene /\ (\A o \in AllOps : Moves(o))
                           /\ JobInv' /\ TaskInv' /\ WakeInv' /\ CallInv'
<1> SUFFICES ASSUME Base, [Next]_vars
             PROVE  /\ scene' = scene /\ (\A o \in AllOps : Moves(o))
                    /\ JobInv' /\ TaskInv' /\ WakeInv' /\ CallInv'
    OBVIOUS
<1> USE DEF Base
<1>0. ASSUME Calm, CommandStep
      PROVE  /\ scene' = scene /\ TaskInv' /\ WakeInv' /\ CommandStep
             /\ \A o \in AllOps : Moves(o)
    BY <1>0, CalmKeeps DEF Calm
<1>1. /\ scene' = scene /\ TaskInv' /\ WakeInv' /\ CommandStep
      /\ \A o \in AllOps : Moves(o)
    <2>1. CASE User
        BY <1>0, <2>1, CalmPage, CalmCreate, CalmDelete, CalmRecovery, BusyFlushes,
           BusyOverwrite
        DEF User
    <2>2. CASE Continuation
        BY <1>0, <2>2, BusySaves, BusyFlushes, CalmSelect, CalmCreate, CalmDelete,
           CalmRecovery
        DEF Continuation
    <2>3. CASE Backend
        BY <1>0, <2>3, BusySaves, CalmCreate, CalmDelete, CalmReads, CalmWatcher DEF Backend
    <2>4. CASE SaveEvent \/ OperationEvent \/ WatchEvent
        BY <1>0, <2>4, BusySaves, CalmSelect, CalmCreate, CalmDelete, CalmRecovery,
           CalmWatcher
        DEF SaveEvent, OperationEvent, WatchEvent
    <2>5. CASE LampOff \/ TimerFires \/ \E n \in scene.notes : Outside(n)
        BY <1>0, <2>5, CalmPage, BusyTimer
    <2>6. CASE UNCHANGED vars
        <3>1. UNCHANGED <<jobs, scene, ipcVars>> /\ SameChain(tasks, tasks') /\ Keeps("watch")
            BY <2>6, Chain DEF vars, Keeps, Sent, Replied
        <3> QED  BY <1>0, <3>1, NoJobMoves
    <2> QED  BY <2>1, <2>2, <2>3, <2>4, <2>5, <2>6 DEF Next
<1> QED  BY <1>1, JobsGoOn, CommandsGoOn

-----------------------------------------------------------------------------
(***************************************************************************)
(* Selections, the dialog, the issue and the watcher's re-read             *)
(***************************************************************************)

\* What a step may do to the selections, the dialog, the issue and the
\* watcher's read.
RequestStep ==
    /\ queued' = queued \/ queued' = NoNote \/ "select" \in scene.ops
    /\ dialog' \in {dialog, "hidden", "recover"} \/ "close" \in scene.ops
    /\ issue' = issue \/ issue' = NoIssue \/ issue'.kind = "io" \/ issue'.path \in Notes
    /\ \/ watch' = watch \/ watch'.stage = "idle"
       \/ watch.stage # "idle" /\ watch'.path = watch.path
       \/ watch'.path = open /\ open # NoNote

\* Every step is a RequestStep.
LEMMA RequestSteps == ASSUME Base, [Next]_vars PROVE RequestStep
<1> USE DEF Base
<1>i. \A p \in Notes \cup {NoNote} : IoIssue(p).kind = "io"
    BY DEF IoIssue
<1>d. \A p \in Notes, a \in Revisions : DiskIssue(p, a).path \in Notes
    BY DEF DiskIssue
<1>t. tasks # <<>> => tasks[1].path \in Notes /\ tasks[1].actual \in Revisions
    BY HeadTask DEF TaskInv, Task
<1>j. \A o \in AllOps : jobs[o].path \in Notes \cup {NoNote}
    BY DEF TypeOK, Job
<1>o. open \in Notes \cup {NoNote} /\ Missing \in Revisions
             /\ {"close", "reload"} \subseteq AllOps
    BY DEF TypeOK, Revisions, AllOps
<1>1. CASE User
    <2>1. CASE \E c \in Contents : Type(c)
        BY <2>1 DEF Type, RequestStep, ClearSaveIssue, Report
    <2>2. CASE CancelDialog \/ \E n \in scene.notes : AskSelect(n)
        BY <2>2 DEF CancelDialog, AskSelect, RequestStep
    <2>3. CASE \E n \in scene.notes : AskCreate(n) \/ AskDelete(n)
                  \/ \E m \in scene.notes : AskRename(n, m)
        BY <2>3 DEF AskCreate, AskDelete, AskRename, RequestStep
    <2>4. CASE AskRetry \/ AskOverwrite \/ AskReload \/ AskClose \/ Discard
        BY <2>4 DEF AskRetry, AskOverwrite, AskReload, AskClose, Discard, RequestStep
    <2> QED  BY <1>1, <2>1, <2>2, <2>3, <2>4 DEF User
<1>2. CASE Continuation
    <2>1. CASE StartTask
        <3>1. tasks # <<>>
            BY <2>1 DEF StartTask, HeadQueued
        <3> QED  BY <1>i, <1>t, <2>1, <3>1 DEF StartTask, Report, RequestStep
    <2>2. CASE \E o \in AllOps : Flush(o) \/ FlushGoesOn(o)
        BY <2>2 DEF Flush, FlushGoesOn, RequestStep
    <2>3. CASE StartSelect \/ SelectFlushed \/ CreateFlushed \/ Flushed("delete")
                  \/ Flushed("rename")
        BY <2>3 DEF StartSelect, SelectFlushed, CreateFlushed, Flushed, RequestStep
    <2>4. CASE CloseFlushed
        <3>1. "close" \in scene.ops
            BY <1>o, <2>4 DEF CloseFlushed, Prompted, Prompt, JobInv
        <3> QED  BY <2>4, <3>1 DEF CloseFlushed, RequestStep
    <2>5. CASE RetryDone \/ OverwriteDone
        BY <1>i, <1>o, <2>5 DEF RetryDone, OverwriteDone, Report, RequestStep
    <2> QED  BY <1>2, <2>1, <2>2, <2>3, <2>4, <2>5 DEF Continuation
<1>3. CASE Backend
    <2>1. CASE SaveExecuted \/ CreateExecuted \/ DeleteExecuted \/ RenameExecuted
        BY <2>1 DEF SaveExecuted, CreateExecuted, DeleteExecuted, RenameExecuted, RequestStep
    <2>2. CASE JobReads("select") \/ JobReads("reload")
        BY <2>2 DEF JobReads, RequestStep
    <2>3. CASE WatchReads
        <3>1. watch.stage = "reading"
            BY <2>3, AtHead, CallerNames DEF WatchReads, Sent
        <3>2. watch'.path = watch.path
            BY <2>3 DEF WatchReads, TypeOK, Watch
        <3> QED  BY <2>3, <3>1, <3>2 DEF WatchReads, RequestStep
    <2> QED  BY <1>3, <2>1, <2>2, <2>3 DEF Backend
<1>4. CASE SaveEvent
    <2>1. CASE SaveAnswered
        <3>1. tasks # <<>>
            BY <2>1, AtHead, CallerNames DEF SaveAnswered, Replied
        <3>2. SaveConflict(tasks[1]) \/ SaveFailed(tasks[1]) \/ SaveDone(tasks[1])
            BY <2>1 DEF SaveAnswered
        <3>3. /\ dialog' \in {dialog, "recover"}
              /\ issue' = issue \/ issue' = NoIssue \/ issue'.kind = "io"
                     \/ issue'.path \in Notes
            BY <1>i, <1>d, <1>t, <3>1, <3>2
            DEF SaveConflict, SaveFailed, SaveDone, Report, ClearSaveIssue
        <3>4. UNCHANGED <<queued, watch>>
            BY <2>1 DEF SaveAnswered
        <3> QED  BY <3>3, <3>4 DEF RequestStep
    <2>2. CASE Indexed \/ Settled
        BY <2>2 DEF Indexed, Settled, RequestStep
    <2> QED  BY <1>4, <2>1, <2>2 DEF SaveEvent
<1>5. CASE OperationEvent
    <2>1. CASE SelectStat \/ SelectAnswered \/ SelectDone
        BY <2>1
        DEF SelectStat, SelectAnswered, SelectDone, ClearSaveIssue, ClearActiveNoteState,
                    Report, RequestStep
    <2>2. CASE CreateAnswered \/ CreateListed
        BY <2>2
        DEF CreateAnswered, CreateListed, EnterCreated, ClearSaveIssue, Report, RequestStep
    <2>3. CASE DeleteAnswered \/ RenameAnswered
        BY <2>3
        DEF DeleteAnswered, RenameAnswered, ClearActiveNoteState, ClearSaveIssue, Report,
                    RequestStep
    <2>4. CASE ReloadAnswered
        <3>1. /\ dialog' \in {dialog, "hidden"}
              /\ issue' = issue \/ issue' = NoIssue \/ issue'.kind = "io"
            BY <1>i, <1>j, <1>o, <2>4
            DEF ReloadAnswered, AdoptReloaded, ClearSaveIssue, Report
        <3>2. UNCHANGED <<queued, watch>>
            BY <2>4 DEF ReloadAnswered
        <3> QED  BY <3>1, <3>2 DEF RequestStep
    <2>5. CASE \E o \in AllOps : CloseWindow(o)
        BY <2>5 DEF CloseWindow, RequestStep
    <2> QED  BY <1>5, <2>1, <2>2, <2>3, <2>4, <2>5 DEF OperationEvent
<1>6. CASE WatchEvent
    <2>1. CASE WatchFlush
        <3>1. watch' = watch \/ (watch'.path = open /\ open # NoNote)
            BY <2>1 DEF WatchFlush, NoWatch
        <3> QED  BY <2>1, <3>1 DEF WatchFlush, RequestStep
    <2>2. CASE WatchListed
        <3>1. watch'.path = watch.path
            BY <2>2 DEF WatchListed, TypeOK, Watch
        <3> QED  BY <2>2, <3>1 DEF WatchListed, RequestStep
    <2>3. CASE WatchAnswered
        <3>1. watch'.stage = "idle" /\ queued' = queued
            BY <2>3 DEF WatchAnswered, NoWatch
        <3>2. watch.path \in Notes
            BY <2>3, AtHead, CallerNames DEF WatchAnswered, Replied, RequestInv
        <3>3. CASE StillWatched /\ WatchMisses
            BY <1>i, <1>d, <1>o, <3>1, <3>2, <3>3
            DEF StillWatched, WatchMisses, Report, ClearActiveNoteState, ClearSaveIssue,
                RequestStep
        <3>4. CASE WatchAdopts \/ UNCHANGED issueVars
            BY <3>1, <3>4 DEF WatchAdopts, ClearSaveIssue, Report, RequestStep
        <3> QED  BY <2>3, <3>3, <3>4 DEF WatchAnswered
    <2> QED  BY <1>6, <2>1, <2>2, <2>3 DEF WatchEvent
<1>7. CASE LampOff \/ TimerFires \/ UNCHANGED vars \/ \E n \in scene.notes : Outside(n)
    BY <1>7 DEF LampOff, TimerFires, vars, Outside, RequestStep
<1> QED  BY <1>1, <1>2, <1>3, <1>4, <1>5, <1>6, <1>7 DEF Next

\* Every step keeps RequestInv.
LEMMA RequestsGoOn == Base /\ [Next]_vars => RequestInv'
<1> SUFFICES ASSUME Base, [Next]_vars PROVE RequestInv'
    OBVIOUS
<1>1. RequestStep /\ scene' = scene
    BY RequestSteps, ControlGoesOn
<1>2. open # NoNote => open \in Notes
    BY DEF Base, TypeOK
<1> QED  BY <1>1, <1>2 DEF Base, RequestInv, RequestStep, Paused

-----------------------------------------------------------------------------
(***************************************************************************)
(* Where the saves of the chain come from                                  *)
(***************************************************************************)

\* A save that joins the chain.
New(t) ==
    /\ t.stage = "queued" /\ t.status = "none" /\ t.mine = FALSE
    /\ t.fresh => t.text = text /\ text' = text
    /\ open' = open
    /\ \/ t.path = open /\ open # NoNote /\ t.fresh /\ t.expected = Baseline /\ scene.ops # {}
       \/ TimerFires /\ t.path = timer.path /\ t.expected = Baseline
          /\ t.fresh = ("timer" \in current)
       \/ AskOverwrite /\ t.path = issue.path /\ t.fresh /\ t.expected = issue.actual

\* An operation is about to replace the text of the editor.
Replacing ==
    \/ jobs["select"].stage = "read"
    \/ jobs["create"].stage = "listing"
    \/ jobs["delete"].stage = "applied"
    \/ jobs["reload"].stage = "read"

\* When the text of the editor is replaced.
Replaced == dirty' \/ Replacing \/ (~dirty /\ watch.stage # "idle")

\* A save that was in the chain, s before the step and t after it.
Same(s, t) ==
    /\ t.path = s.path /\ t.text = s.text
    /\ t.fresh => s.fresh
    /\ s.fresh => t.fresh \/ (Replaced /\ \A i \in 1..Len(tasks') : ~tasks'[i].fresh)

\* The save s stays where it is in its course, or loses the page's save state
\* to a delete or a rename.
Kept(s, t) ==
    /\ t.expected = s.expected /\ t.stage = s.stage
    /\ t.status = s.status /\ t.actual = s.actual
    /\ t.mine = s.mine \/ (t.mine = FALSE /\ "delete" \in scene.ops)
                       \/ (t.mine = FALSE /\ "rename" \in scene.ops)

\* The save s begins: it is of the open note and fixes what it will replace.
Started(s, t) ==
    /\ StartTask /\ s.path = open /\ open # NoNote
    /\ s.stage = "queued" /\ t.stage = "calling" /\ t.mine
    /\ t.expected = IF s.expected = Baseline THEN baseline ELSE s.expected
    /\ t.status = "none"

\* The command of the save s is executed: it replaces what it expected to.
Written(s, t) ==
    /\ SaveExecuted
    /\ s.stage = "calling" /\ t.stage = "calling" /\ t.mine = s.mine
    /\ t.expected = s.expected
    /\ t.status = "saved" => disk[t.path] = t.expected /\ WriteNote(s) /\ t.actual = t.text

\* The save s that succeeded goes on to the index and to the return.
Advanced(s, t) ==
    /\ s.stage # "queued" /\ s.mine /\ t.mine /\ t.status = "saved" /\ s.status = "saved"
    /\ t.actual = s.actual /\ t.expected = s.expected
    /\ \/ SaveAnswered /\ SaveDone(s) /\ s.stage = "calling" /\ t.stage = "indexing"
       \/ Indexed /\ s.stage = "indexing" /\ t.stage = "settling"

\* Where the save at place i of the new chain comes from.
Origin(i) ==
    \/ New(tasks'[i]) /\ i = Len(tasks) + 1
    \/ \E j \in 1..Len(tasks) : /\ j = i \/ (j = i + 1 /\ Len(tasks') = Len(tasks) - 1)
                                /\ Same(tasks[j], tasks'[i]) /\ Kept(tasks[j], tasks'[i])
    \/ /\ i = 1 /\ i \in 1..Len(tasks)
       /\ Same(tasks[1], tasks'[1])
       /\ \/ Started(tasks[1], tasks'[1])
          \/ Written(tasks[1], tasks'[1])
          \/ Advanced(tasks[1], tasks'[1])

\* Where the saves of the new chain come from.
Origins == \A i \in 1..Len(tasks') : Origin(i)

\* Counting the revision up outdates every save of the chain.
LEMMA OutdatedAll == TypeOK => \A i \in 1..Len(Outdated(tasks)) : ~Outdated(tasks)[i].fresh
<1> SUFFICES ASSUME TypeOK PROVE \A i \in 1..Len(Outdated(tasks)) : ~Outdated(tasks)[i].fresh
    OBVIOUS
<1>1. tasks \in Seq(Task)
    BY DEF TypeOK
<1> QED  BY <1>1, OutdatedTasks DEF SameChain

\* The saves stay, or are outdated because the text was replaced.
LEMMA ChainKept ==
    ASSUME TypeOK, tasks' = tasks \/ (tasks' = Outdated(tasks) /\ Replaced)
    PROVE  Origins
<1>1. tasks \in Seq(Task)
    BY DEF TypeOK
<1>3. CASE tasks' = tasks
    BY <1>3 DEF Origins, Origin, Same, Kept
<1>4. CASE tasks' = Outdated(tasks) /\ Replaced
    <2>1. \A i \in 1..Len(tasks') : ~tasks'[i].fresh
        BY <1>4, OutdatedAll
    <2>2. SameChain(tasks, tasks') /\ \A i \in 1..Len(tasks) : tasks'[i].mine = tasks[i].mine
        BY <1>1, <1>4, OutdatedTasks
    <2>3. \A i \in 1..Len(tasks) : Same(tasks[i], tasks'[i]) /\ Kept(tasks[i], tasks'[i])
        BY <1>4, <2>1, <2>2 DEF SameChain, Same, Kept
    <2> QED  BY <2>2, <2>3 DEF SameChain, Origins, Origin
<1> QED  BY <1>3, <1>4

\* A delete or a rename takes the page's save state from the saves.
LEMMA ChainDisowned ==
    ASSUME TypeOK, tasks' = Disowned(tasks), "delete" \in scene.ops \/ "rename" \in scene.ops
    PROVE  Origins
<1>1. tasks \in Seq(Task) /\ Len(tasks) \in Nat
    BY LenProperties DEF TypeOK
<1>2. SameChain(tasks, tasks') /\ \A i \in 1..Len(tasks) : tasks'[i].fresh = tasks[i].fresh
    BY <1>1, DisownedTasks
<1>3. \A i \in 1..Len(tasks) : tasks'[i].mine = FALSE
    <2>1. \A i \in 1..Len(tasks) : tasks[i] \in Task
        BY Wakers
    <2> QED  BY <1>1, <2>1 DEF Disowned, Task
<1> QED  BY <1>2, <1>3 DEF SameChain, Origins, Origin, Same, Kept

\* A save joins the chain.
LEMMA ChainGrows ==
    ASSUME TypeOK, NEW t \in Task, tasks' = Append(tasks, t), New(t)
    PROVE  Origins
<1>1. /\ Len(tasks') = Len(tasks) + 1 /\ tasks'[Len(tasks) + 1] = t
      /\ \A i \in 1..Len(tasks) : tasks'[i] = tasks[i]
      /\ Len(tasks) \in Nat
    BY AppendedTask, LenProperties DEF TypeOK
<1> SUFFICES ASSUME NEW i \in 1..Len(tasks')  PROVE Origin(i)
    BY DEF Origins
<1>2. CASE i \in 1..Len(tasks)
    BY <1>1, <1>2 DEF Origin, Same, Kept
<1>3. CASE i = Len(tasks) + 1
    BY <1>1, <1>3 DEF Origin
<1> QED  BY <1>1, <1>2, <1>3

\* The first save returns.
LEMMA ChainEnds ==
    ASSUME TypeOK, tasks # <<>>, tasks' = Tail(tasks)
    PROVE  Origins
<1>1. /\ Len(tasks') = Len(tasks) - 1
      /\ \A i \in 1..Len(tasks') : i + 1 \in 1..Len(tasks) /\ tasks'[i] = tasks[i + 1]
    BY TailTasks DEF TypeOK
<1> SUFFICES ASSUME NEW i \in 1..Len(tasks')  PROVE Origin(i)
    BY DEF Origins
<1>2. Same(tasks[i + 1], tasks'[i]) /\ Kept(tasks[i + 1], tasks'[i])
    BY <1>1 DEF Same, Kept
<1> QED  BY <1>1, <1>2 DEF Origin

\* A flush waits for the last save: none of them changes.
LEMMA ChainWaits ==
    ASSUME TypeOK, tasks # <<>>, NEW o \in AllOps, NEW st \in Steps, WaitForLast(o, st)
    PROVE  Origins
<1>1. /\ Len(tasks') = Len(tasks)
      /\ \A i \in 1..Len(tasks) : i # Len(tasks) => tasks'[i] = tasks[i]
      /\ tasks'[Len(tasks)] = [tasks[Len(tasks)] EXCEPT !.wakes = @ \cup {o}]
    BY Waits
<1>2. tasks[Len(tasks)] \in Task
    BY HeadTask, Wakers
<1>3. \A i \in 1..Len(tasks) : Same(tasks[i], tasks'[i]) /\ Kept(tasks[i], tasks'[i])
    BY <1>1, <1>2 DEF Same, Kept, Task
<1> QED  BY <1>1, <1>3 DEF Origins, Origin

\* The first save goes on.
LEMMA ChainHead ==
    ASSUME TypeOK, tasks # <<>>, NEW u \in Task, tasks' = [tasks EXCEPT ![1] = u],
           Same(tasks[1], u),
           Started(tasks[1], u) \/ Written(tasks[1], u) \/ Advanced(tasks[1], u)
    PROVE  Origins
<1>1. /\ Len(tasks') = Len(tasks) /\ tasks'[1] = u
      /\ \A i \in 1..Len(tasks) : i # 1 => tasks'[i] = tasks[i]
      /\ 1 \in 1..Len(tasks)
    BY ReplacedTask, HeadTask DEF TypeOK
<1> SUFFICES ASSUME NEW i \in 1..Len(tasks')  PROVE Origin(i)
    BY DEF Origins
<1>2. CASE i = 1
    BY <1>1, <1>2 DEF Origin
<1>3. CASE i # 1
    BY <1>1, <1>3 DEF Origin, Same, Kept
<1> QED  BY <1>2, <1>3

\* The handlers that push a save.
LEMMA OriginsOfPushes ==
    ASSUME Base, FreshInv, TimerFires \/ AskOverwrite \/ AskRetry
           \/ \E o \in AllOps : Flush(o) \/ FlushGoesOn(o)
    PROVE  Origins
<1> USE DEF Base
<1>n. ASSUME NEW o \in AllOps, o \in scene.ops, open # NoNote, UNCHANGED <<open, text>>,
             tasks' = Append(tasks, NewTask(open, text, TRUE, Baseline, {o}))
      PROVE  Origins
    <2> DEFINE t == NewTask(open, text, TRUE, Baseline, {o})
    <2>1. t \in Task
        BY NewTaskTyped DEF TypeOK
    <2>2. New(t)
        BY <1>n DEF New, NewTask
    <2> HIDE DEF t
    <2>3. tasks' = Append(tasks, t)
        BY <1>n DEF t
    <2> QED  BY <2>1, <2>2, <2>3, ChainGrows
<1>0. {"draining", "awaiting"} \subseteq Steps
    BY DEF Steps
<1>a. ASSUME NEW o \in AllOps, o \in scene.ops, Attempt(o), UNCHANGED <<open, text>>
      PROVE Origins
    <2>1. CASE open # NoNote /\ PushTask(o, NewTask(open, text, TRUE, Baseline, {o}))
        BY <1>n, <1>a, <2>1 DEF PushTask
    <2>2. CASE tasks # <<>> /\ WaitForLast(o, "awaiting")
        BY <1>0, <2>2, ChainWaits
    <2>3. CASE UNCHANGED tasks
        BY <2>3, ChainKept
    <2> QED  BY <1>a, <2>1, <2>2, <2>3 DEF Attempt
<1>1. CASE TimerFires
    <2> DEFINE t == NewTask(timer.path, timer.text, "timer" \in current, Baseline, {})
    <2>1. t \in Task
        <3>1. ("timer" \in current) \in BOOLEAN /\ {} \in SUBSET AllOps
            OBVIOUS
        <3>2. timer.path \in Notes /\ timer.text \in Contents
            BY <1>1 DEF TimerFires, TypeOK
        <3> QED  BY <3>1, <3>2, NewTaskTyped
    <2>2. New(t)
        BY <1>1 DEF New, NewTask, FreshInv, TimerFires
    <2> HIDE DEF t
    <2>3. tasks' = Append(tasks, t)
        BY <1>1 DEF t, TimerFires
    <2> QED  BY <2>1, <2>2, <2>3, ChainGrows
<1>2. CASE AskOverwrite
    <2> DEFINE t == NewTask(issue.path, text, TRUE, issue.actual, {"overwrite"})
    <2>1. t \in Task
        <3>1. issue.path \in Notes /\ issue.actual \in Revisions /\ "overwrite" \in AllOps
            BY <1>2 DEF AskOverwrite, RequestInv, Paused, TypeOK, Issue, AllOps
        <3> QED  BY <3>1, NewTaskTyped DEF TypeOK
    <2>2. New(t)
        BY <1>2 DEF New, NewTask, AskOverwrite
    <2> HIDE DEF t
    <2>3. tasks' = Append(tasks, t)
        BY <1>2 DEF t, AskOverwrite
    <2> QED  BY <2>1, <2>2, <2>3, ChainGrows
<1>3. CASE AskRetry
    <2>1. CASE open # NoNote /\ PushTask("retry", NewTask(open, text, TRUE, Baseline, {"retry"}))
        BY <1>3, <1>n, <2>1 DEF AskRetry, UserMay, PushTask, AllOps
    <2>2. CASE UNCHANGED tasks
        BY <2>2, ChainKept
    <2> QED  BY <1>3, <2>1, <2>2 DEF AskRetry
<1>4. ASSUME NEW o \in AllOps, Flush(o)  PROVE Origins
    <2>1. CASE Attempt(o)
        BY <1>4, <1>a, <2>1 DEF Flush, JobInv
    <2>2. CASE LeaveFlush(o, issue = NoIssue)
        BY <2>2, ChainKept DEF LeaveFlush
    <2>3. CASE tasks # <<>> /\ WaitForLast(o, "draining")
        BY <1>0, <2>3, ChainWaits
    <2> QED  BY <1>4, <2>1, <2>2, <2>3 DEF Flush
<1>5. ASSUME NEW o \in AllOps, FlushGoesOn(o)  PROVE Origins
    <2>1. CASE Attempt(o)
        BY <1>5, <1>a, <2>1 DEF FlushGoesOn, JobInv
    <2>2. CASE UNCHANGED tasks
        BY <2>2, ChainKept
    <2> QED  BY <1>5, <2>1, <2>2 DEF FlushGoesOn, LeaveFlush
<1> QED  BY <1>1, <1>2, <1>3, <1>4, <1>5

\* The handlers of a save.
LEMMA OriginsOfSaves ==
    ASSUME Base, StartTask \/ SaveExecuted \/ SaveAnswered \/ Indexed \/ Settled
    PROVE  Origins
<1> USE DEF Base
<1> DEFINE t == tasks[1]
<1>0. /\ tasks # <<>> /\ t \in Task /\ 1 \in 1..Len(tasks) /\ "save" \in Callers
    <2>1. tasks # <<>>
        BY CallerNames, AtHead DEF StartTask, HeadQueued, SaveExecuted, SaveAnswered, Indexed,
               Settled, Sent, Replied
    <2> QED  BY <2>1, HeadTask, CallerNames
<1>t. /\ t.stage = "queued" => t.status = "none"
      /\ t.stage \in {"indexing", "settling"} => t.status = "saved"
    BY <1>0 DEF TaskInv
<1>f. ASSUME NEW ok \in BOOLEAN, Finish(ok)  PROVE Origins
    BY <1>0, <1>f, ChainEnds DEF Finish
<1>s. tasks \in Seq(Task) /\ baseline \in Revisions /\ disk \in [Notes -> Revisions]
    BY DEF TypeOK
<1>1. CASE StartTask
    <2>1. t.stage = "queued"
        BY <1>1 DEF StartTask, HeadQueued
    <2>2. CASE /\ t.path = open /\ open # NoNote
               /\ tasks' = [tasks EXCEPT ![1].stage = "calling", ![1].mine = TRUE,
                          ![1].expected = IF @ = Baseline THEN baseline ELSE @]
        <3> DEFINE u == [t EXCEPT !.stage = "calling", !.mine = TRUE,
                                  !.expected = IF @ = Baseline THEN baseline ELSE @]
        <3>1. /\ u \in Task /\ u.path = t.path /\ u.text = t.text /\ u.fresh = t.fresh
              /\ u.stage = "calling" /\ u.status = t.status /\ u.mine = TRUE
              /\ u.expected = IF t.expected = Baseline THEN baseline ELSE t.expected
            BY <1>0, <1>s DEF Task
        <3>2. tasks' = [tasks EXCEPT ![1] = u]
            BY <1>0, <1>s, <2>2
        <3> HIDE DEF u
        <3>3. Same(t, u) /\ Started(t, u)
            BY <1>1, <1>t, <2>1, <2>2, <3>1 DEF Same, Started
        <3> QED  BY <1>0, <3>1, <3>2, <3>3, ChainHead
    <2>3. CASE Finish(FALSE)
        BY <1>f, <2>3
    <2> QED  BY <1>1, <2>2, <2>3 DEF StartTask
<1>2. CASE SaveExecuted
    <2>1. t.stage = "calling"
        BY <1>0, <1>2, AtHead DEF SaveExecuted, Sent
    <2>2. PICK s \in {"saved", "conflict", "failed"}, a \in Revisions :
              /\ Answer(s, a)
              /\ s = "saved" => disk[t.path] = t.expected /\ WriteNote(t) /\ a = t.text
        <3>1. CASE disk[t.path] = t.expected /\ WriteNote(t) /\ Answer("saved", t.text)
            BY <1>0, <3>1 DEF Task, Revisions
        <3>2. CASE Answer("failed", Missing)
            BY <3>2 DEF Revisions
        <3>3. CASE Answer("conflict", disk[t.path])
            <4>1. t.path \in Notes
                BY <1>0 DEF TaskInv
            <4> QED  BY <1>s, <3>3, <4>1
        <3> QED  BY <1>2, <3>1, <3>2, <3>3 DEF SaveExecuted
    <2> DEFINE u == [t EXCEPT !.status = s, !.actual = a]
    <2>3. /\ u \in Task /\ u.path = t.path /\ u.text = t.text /\ u.fresh = t.fresh
          /\ u.mine = t.mine /\ u.stage = "calling" /\ u.status = s /\ u.actual = a
          /\ u.expected = t.expected
        BY <1>0, <2>1 DEF Task
    <2>4. tasks' = [tasks EXCEPT ![1] = u]
        BY <1>0, <1>s, <2>2 DEF Answer
    <2> HIDE DEF u
    <2>5. Same(t, u) /\ Written(t, u)
        BY <1>2, <2>1, <2>2, <2>3 DEF Same, Written
    <2> QED  BY <1>0, <2>3, <2>4, <2>5, ChainHead
<1>3. CASE SaveAnswered
    <2>1. t.stage = "calling"
        BY <1>0, <1>3, AtHead DEF SaveAnswered, Replied
    <2>2. CASE \E ok \in BOOLEAN : Finish(ok)
        BY <1>f, <2>2
    <2>3. CASE SaveDone(t) /\ t.mine /\ tasks' = [tasks EXCEPT ![1].stage = "indexing"]
        <3> DEFINE u == [t EXCEPT !.stage = "indexing"]
        <3>1. /\ u \in Task /\ u.path = t.path /\ u.text = t.text /\ u.fresh = t.fresh
              /\ u.mine = t.mine /\ u.stage = "indexing" /\ u.status = t.status
              /\ u.actual = t.actual /\ u.expected = t.expected
            BY <1>0 DEF Task
        <3>2. tasks' = [tasks EXCEPT ![1] = u]
            BY <1>0, <1>s, <2>3
        <3>3. t.status = "saved"
            BY <2>3 DEF SaveDone
        <3> HIDE DEF u
        <3>4. Same(t, u) /\ Advanced(t, u)
            BY <1>3, <2>1, <2>3, <3>1, <3>3 DEF Same, Advanced
        <3> QED  BY <1>0, <3>1, <3>2, <3>4, ChainHead
    <2> QED  BY <1>3, <2>2, <2>3 DEF SaveAnswered, SaveConflict, SaveFailed, SaveDone
<1>4. CASE Indexed
    <2>1. t.stage = "indexing"
        BY <1>4 DEF Indexed
    <2>2. CASE Finish(TRUE)
        BY <1>f, <2>2
    <2>3. CASE t.mine /\ tasks' = [tasks EXCEPT ![1].stage = "settling"]
        <3> DEFINE u == [t EXCEPT !.stage = "settling"]
        <3>1. /\ u \in Task /\ u.path = t.path /\ u.text = t.text /\ u.fresh = t.fresh
              /\ u.mine = t.mine /\ u.stage = "settling" /\ u.status = t.status
              /\ u.actual = t.actual /\ u.expected = t.expected
            BY <1>0 DEF Task
        <3>2. tasks' = [tasks EXCEPT ![1] = u]
            BY <1>0, <1>s, <2>3
        <3> HIDE DEF u
        <3>4. Same(t, u) /\ Advanced(t, u)
            BY <1>4, <1>t, <2>1, <2>3, <3>1 DEF Same, Advanced
        <3> QED  BY <1>0, <3>1, <3>2, <3>4, ChainHead
    <2> QED  BY <1>4, <2>2, <2>3 DEF Indexed
<1>5. CASE Settled
    BY <1>f, <1>5 DEF Settled
<1> QED  BY <1>1, <1>2, <1>3, <1>4, <1>5

\* Every save of the chain is new, or was in the chain and went at most one
\* stage further.
LEMMA TasksGoOn == ASSUME Base, FreshInv, [Next]_vars PROVE Origins
<1> USE DEF Base
<1>k. ASSUME tasks' = tasks \/ (tasks' = Outdated(tasks) /\ Replaced)  PROVE Origins
    BY <1>k, ChainKept
<1>1. CASE User
    <2>1. CASE \E c \in Contents : Type(c)
        BY <1>k, <2>1 DEF Type, Replaced
    <2>2. CASE CancelDialog \/ AskReload \/ AskClose \/ Discard
        BY <1>k, <2>2 DEF CancelDialog, AskReload, AskClose, Discard
    <2>3. CASE \E n \in scene.notes : AskSelect(n) \/ AskCreate(n) \/ AskDelete(n)
                  \/ \E m \in scene.notes : AskRename(n, m)
        BY <1>k, <2>3 DEF AskSelect, AskCreate, AskDelete, AskRename
    <2> QED  BY <1>1, <2>1, <2>2, <2>3, OriginsOfPushes DEF User
<1>2. CASE Continuation
    <2>1. ASSUME NEW o \in {"delete", "rename"}, Flushed(o)  PROVE Origins
        <3>1. o \in scene.ops
            BY <2>1 DEF Flushed, Prompted, Prompt, JobInv, AllOps
        <3>2. tasks' = tasks \/ tasks' = Disowned(tasks)
            BY <2>1 DEF Flushed, ClearPendingSaveForPath
        <3> QED  BY <1>k, <3>1, <3>2, ChainDisowned
    <2>2. CASE StartSelect \/ SelectFlushed \/ CreateFlushed \/ CloseFlushed \/ RetryDone
                  \/ OverwriteDone
        BY <1>k, <2>2
        DEF StartSelect, SelectFlushed, CreateFlushed, CloseFlushed, RetryDone, OverwriteDone
    <2> QED  BY <1>2, <2>1, <2>2, OriginsOfPushes, OriginsOfSaves DEF Continuation
<1>3. CASE Backend
    <2>1. CASE CreateExecuted \/ DeleteExecuted \/ RenameExecuted \/ WatchReads
               \/ JobReads("select") \/ JobReads("reload")
        BY <1>k, <2>1 DEF CreateExecuted, DeleteExecuted, RenameExecuted, WatchReads, JobReads
    <2> QED  BY <1>3, <2>1, OriginsOfSaves DEF Backend
<1>4. CASE SaveEvent
    BY <1>4, OriginsOfSaves DEF SaveEvent
<1>5. CASE OperationEvent
    <2>1. CASE SelectStat \/ SelectDone \/ CreateAnswered \/ RenameAnswered
               \/ \E o \in AllOps : CloseWindow(o)
        BY <1>k, <2>1 DEF SelectStat, SelectDone, CreateAnswered, RenameAnswered, CloseWindow
    <2>2. CASE SelectAnswered \/ CreateListed \/ DeleteAnswered \/ ReloadAnswered
        <3>1. CASE tasks' = tasks
            BY <1>k, <3>1
        <3>2. CASE tasks' = Outdated(tasks)
            <4>1. Replacing
                BY <2>2, AtHead, CallerNames
                DEF SelectAnswered, CreateListed, DeleteAnswered, ReloadAnswered, Replied,
                    Replacing, AllOps
            <4> QED  BY <1>k, <3>2, <4>1 DEF Replaced
        <3> QED  BY <2>2, <3>1, <3>2
                    DEF SelectAnswered, CreateListed, EnterCreated, DeleteAnswered,
                    ReloadAnswered, AdoptReloaded
    <2> QED  BY <1>5, <2>1, <2>2 DEF OperationEvent
<1>6. CASE WatchEvent
    <2>1. CASE WatchFlush \/ WatchListed
        BY <1>k, <2>1 DEF WatchFlush, WatchListed
    <2>2. CASE WatchAnswered
        <3>1. watch.stage # "idle"
            BY <2>2, AtHead, CallerNames DEF WatchAnswered, Replied
        <3>2. tasks' = tasks \/ (tasks' = Outdated(tasks) /\ ~dirty)
            BY <2>2 DEF WatchAnswered, WatchMisses, WatchAdopts
        <3> QED  BY <1>k, <3>1, <3>2 DEF Replaced
    <2> QED  BY <1>6, <2>1, <2>2 DEF WatchEvent
<1>7. CASE LampOff \/ UNCHANGED vars \/ \E n \in scene.notes : Outside(n)
    BY <1>k, <1>7 DEF LampOff, vars, Outside
<1>8. CASE TimerFires
    BY <1>8, OriginsOfPushes
<1> QED  BY <1>1, <1>2, <1>3, <1>4, <1>5, <1>6, <1>7, <1>8 DEF Next

-----------------------------------------------------------------------------
(***************************************************************************)
(* The page                                                                *)
(***************************************************************************)

\* The stages in which a rename has not yet cancelled the saves of its note.
Resting == {"idle", "flush"} \cup Waiting

\* A rename gives the note that is open its new name.
Renames ==
    /\ jobs["rename"].stage = "applied" /\ jobs["rename"].held
    /\ open' = jobs["rename"].to
    /\ jobs'["rename"] = NoJob
    /\ UNCHANGED <<text, tasks, unsaved, dirty>>

\* What a step may do to the timer, the text, and what of it is unsaved.
PageStep ==
    /\ "timer" \in current' /\ timer' # NoTimer =>
           \/ timer'.text = text'
           \/ timer' = timer /\ "timer" \in current /\ text' = text
    /\ text' # text \/ open' # open =>
           Renames \/ \A i \in 1..Len(tasks') : ~tasks'[i].fresh
    /\ unsaved' => unsaved \/ (text' # text /\ dirty')
    /\ ~dirty' /\ unsaved' =>
           \/ ~dirty
           \/ "select" \in scene.ops
           \/ /\ tasks # <<>> /\ tasks[1].stage = "settling"
              /\ tasks[1].path = open /\ tasks[1].fresh
    /\ lost' => \/ lost
                \/ ~dirty /\ unsaved
                \/ jobs["select"].stage = "read" \/ jobs["create"].stage = "listing"
                \/ \E o \in {"close", "overwrite", "reload"} : jobs[o].stage = "settling"

\* Every step is a PageStep.
LEMMA PageSteps == ASSUME Base, [Next]_vars PROVE PageStep
<1> USE DEF Base
<1>o. tasks' = Outdated(tasks) => \A i \in 1..Len(tasks') : ~tasks'[i].fresh
    BY OutdatedAll
<1>k. ASSUME UNCHANGED <<text, open, dirty, unsaved, lost>>,
             "timer" \in current' => "timer" \in current,
             timer' = timer \/ timer' = NoTimer
      PROVE  PageStep
    BY <1>k DEF PageStep
<1>s. ASSUME NEW p, NEW c, NEW b, NEW consent \in BOOLEAN, Show(p, c, b, consent),
             tasks' = Outdated(tasks),
             \/ consent \/ ~dirty
             \/ jobs["select"].stage = "read" \/ jobs["create"].stage = "listing"
      PROVE  PageStep
    BY <1>o, <1>s DEF PageStep, Show
<1>a. "select" \in AllOps /\ "create" \in AllOps
    BY DEF AllOps
<1>1. CASE User
    <2>1. ASSUME NEW c \in Contents, Type(c)  PROVE PageStep
        BY <1>o, <2>1 DEF Type, PageStep
    <2>2. CASE CancelDialog \/ AskReload \/ AskClose \/ Discard
        BY <1>k, <2>2 DEF CancelDialog, AskReload, AskClose, Discard
    <2>3. CASE \E n \in scene.notes : AskSelect(n) \/ AskCreate(n) \/ AskDelete(n)
                  \/ \E m \in scene.notes : AskRename(n, m)
        BY <1>k, <2>3 DEF AskSelect, AskCreate, AskDelete, AskRename
    <2>4. CASE AskRetry \/ AskOverwrite
        <3>1. /\ UNCHANGED <<text, open, unsaved, lost>> /\ timer' = NoTimer
              /\ dirty' = dirty \/ dirty' = TRUE
            BY <2>4 DEF AskRetry, AskOverwrite
        <3> QED  BY <3>1 DEF PageStep
    <2> QED  BY <1>1, <2>1, <2>2, <2>3, <2>4 DEF User
<1>2. CASE Continuation
    <2>1. CASE StartTask \/ StartSelect \/ SelectFlushed \/ CreateFlushed \/ CloseFlushed
               \/ Flushed("delete") \/ Flushed("rename")
        BY <1>k, <2>1
        DEF StartTask, StartSelect, SelectFlushed, CreateFlushed, CloseFlushed, Flushed,
                          ClearPendingSaveForPath
    <2>2. CASE RetryDone \/ OverwriteDone
        BY <1>k, <2>2 DEF RetryDone, OverwriteDone
    <2>3. ASSUME NEW o \in AllOps, Flush(o) \/ FlushGoesOn(o)  PROVE PageStep
        <3>1. o # "timer"
            BY DEF AllOps
        <3>2. current' = current \/ current' = current \cup {o} \/ current' = current \ {o}
            BY <2>3 DEF Flush, FlushGoesOn, Attempt, PushTask, LeaveFlush
        <3> QED  BY <1>k, <2>3, <3>1, <3>2 DEF Flush, FlushGoesOn
    <2> QED  BY <1>2, <2>1, <2>2, <2>3 DEF Continuation
<1>3. CASE Backend
    <2>1. CASE CreateExecuted \/ DeleteExecuted \/ RenameExecuted \/ WatchReads
               \/ JobReads("select") \/ JobReads("reload")
        BY <1>k, <2>1 DEF CreateExecuted, DeleteExecuted, RenameExecuted, WatchReads, JobReads
    <2>2. CASE SaveExecuted
        <3>1. UNCHANGED <<text, open, dirty, lost, timer, current>>
            BY <2>2 DEF SaveExecuted
        <3>2. unsaved' => unsaved
            <4>1. (\E t \in {tasks[1]} : WriteNote(t)) \/ UNCHANGED unsaved
                BY <2>2 DEF SaveExecuted
            <4>2. ASSUME NEW t, WriteNote(t)  PROVE unsaved' => unsaved
                BY <4>2, Zenon DEF WriteNote
            <4> QED  BY <4>1, <4>2
        <3> QED  BY <3>1, <3>2 DEF PageStep
    <2> QED  BY <1>3, <2>1, <2>2 DEF Backend
<1>4. CASE SaveEvent
    <2>1. CASE SaveAnswered
        BY <1>k, <2>1 DEF SaveAnswered, SaveConflict, SaveFailed, SaveDone
    <2>2. CASE Indexed
        BY <1>k, <2>2 DEF Indexed
    <2>3. CASE Settled
        BY <2>3 DEF Settled, PageStep
    <2> QED  BY <1>4, <2>1, <2>2, <2>3 DEF SaveEvent
<1>5. CASE OperationEvent
    <2>1. CASE SelectStat \/ SelectAnswered
        <3>1. "select" \in scene.ops
            BY <1>a, <2>1, AtHead, CallerNames DEF SelectStat, SelectAnswered, Replied, JobInv
        <3>2. CASE SelectStat
            <4>1. UNCHANGED <<text, open, unsaved, lost, timer, current>>
                BY <3>2 DEF SelectStat
            <4> QED  BY <3>1, <4>1 DEF PageStep
        <3>3. CASE SelectAnswered
            <4>1. jobs["select"].stage = "read"
                BY <1>a, <3>3, AtHead, CallerNames DEF SelectAnswered, Replied
            <4> QED  BY <1>k, <1>s, <3>3, <4>1 DEF SelectAnswered, ClearActiveNoteState
        <3> QED  BY <2>1, <3>2, <3>3
    <2>2. CASE SelectDone \/ CreateAnswered
                  \/ \E o \in AllOps \ {"close", "overwrite", "reload"} : CloseWindow(o)
        BY <1>k, <2>2 DEF SelectDone, CreateAnswered, CloseWindow
    <2>3. CASE CreateListed
        <3>1. jobs["create"].stage = "listing"
            BY <2>3 DEF CreateListed
        <3> QED  BY <1>k, <1>s, <2>3, <3>1 DEF CreateListed, EnterCreated
    <2>4. CASE DeleteAnswered \/ ReloadAnswered
        BY <1>k, <1>s, <2>4
        DEF DeleteAnswered, ReloadAnswered, AdoptReloaded, ClearActiveNoteState
    <2>5. CASE RenameAnswered
        <3>1. jobs["rename"].stage = "applied" /\ "rename" \in AllOps
            BY <2>5, AtHead, CallerNames DEF RenameAnswered, Replied, AllOps
        <3>2. jobs'["rename"] = NoJob
            BY <2>5, <3>1 DEF RenameAnswered, EndJob, TypeOK
        <3>3. UNCHANGED <<text, dirty, unsaved, lost, tasks, timer, current>>
            BY <2>5 DEF RenameAnswered
        <3>4. open' = open \/ Renames
            BY <2>5, <3>1, <3>2, <3>3 DEF RenameAnswered, Renames
        <3> QED  BY <3>3, <3>4 DEF PageStep
    <2>6. ASSUME NEW o \in {"close", "overwrite", "reload"}, CloseWindow(o)  PROVE PageStep
        <3>1. jobs[o].stage = "settling"
            BY <2>6 DEF CloseWindow
        <3>2. UNCHANGED <<text, open, dirty, unsaved, timer, current>>
            BY <2>6 DEF CloseWindow
        <3> QED  BY <3>1, <3>2 DEF PageStep
    <2> QED  BY <1>5, <2>1, <2>2, <2>3, <2>4, <2>5, <2>6 DEF OperationEvent
<1>6. CASE WatchEvent
    <2>1. CASE WatchFlush
        BY <1>k, <2>1 DEF WatchFlush
    <2>2. CASE WatchListed
        BY <1>k, <2>2 DEF WatchListed
    <2>3. CASE WatchAnswered
        BY <1>k, <1>s, <2>3 DEF WatchAnswered, WatchMisses, WatchAdopts, ClearActiveNoteState
    <2> QED  BY <1>6, <2>1, <2>2, <2>3 DEF WatchEvent
<1>7. CASE LampOff \/ UNCHANGED vars \/ \E n \in scene.notes : Outside(n)
    BY <1>k, <1>7 DEF LampOff, vars, Outside
<1>8. CASE TimerFires
    BY <1>k, <1>8 DEF TimerFires
<1> QED  BY <1>1, <1>2, <1>3, <1>4, <1>5, <1>6, <1>7, <1>8 DEF Next

\* Every step keeps FreshInv: whoever replaces the text counts the revision up.
LEMMA FreshGoesOn == ASSUME IInv, [Next]_vars PROVE FreshInv'
<1> USE DEF IInv
<1>1. Origins /\ PageStep
    BY TasksGoOn, PageSteps
<1>2. ASSUME NEW i \in 1..Len(tasks'), tasks'[i].fresh  PROVE tasks'[i].text = text'
    <2>1. Origin(i)
        BY <1>1 DEF Origins
    <2>2. CASE New(tasks'[i])
        BY <1>2, <2>2 DEF New
    <2>3. ASSUME NEW j \in 1..Len(tasks), Same(tasks[j], tasks'[i])
          PROVE tasks'[i].text = text'
        <3>1. tasks'[i].text = text
            BY <1>2, <2>3 DEF Same, FreshInv
        <3>2. text' = text
            BY <1>1, <1>2 DEF PageStep, Renames
        <3> QED  BY <3>1, <3>2
    <2> QED  BY <2>1, <2>2, <2>3 DEF Origin
<1>3. "timer" \in current' /\ timer' # NoTimer => timer'.text = text'
    BY <1>1 DEF PageStep, FreshInv
<1> QED  BY <1>2, <1>3 DEF FreshInv

\* A rename goes on only when no save is running.
RenameStep ==
    jobs'["rename"].held /\ jobs'["rename"].stage \notin Resting =>
        \/ jobs["rename"].held /\ jobs["rename"].stage \notin Resting
        \/ tasks' = <<>>
        \/ tasks # <<>> /\ tasks' = Tail(tasks)

\* Every step is a RenameStep.
LEMMA RenameSteps == ASSUME Base, [Next]_vars PROVE RenameStep
<1> USE DEF Base
<1>0. "rename" \in AllOps /\ jobs["rename"] \in Job /\ AllOps \subseteq Callers
    BY DEF AllOps, TypeOK, Callers
<1>r. /\ {"flush", "idle", "saving", "draining", "awaiting"} \subseteq Resting
      /\ \A st \in {"drained", "awaited", "saved", "unsaved", "flushed", "blocked",
                   "applying", "applied"} : st \notin Resting
    BY DEF Resting, Waiting
<1>k. ASSUME jobs'["rename"] = jobs["rename"]  PROVE RenameStep
    BY <1>k DEF RenameStep
<1>n. NoJob.stage = "idle"
    BY DEF NoJob
<1>e. \A o \in AllOps : EndJob(o) => RenameStep
    <2> SUFFICES ASSUME NEW o \in AllOps, EndJob(o)  PROVE RenameStep
        OBVIOUS
    <2>1. jobs'["rename"] = jobs["rename"] \/ jobs'["rename"] = NoJob
        BY <1>0, JobEnds
    <2>2. CASE jobs'["rename"] = NoJob
        BY <1>n, <1>r, <2>2 DEF RenameStep
    <2> QED  BY <1>k, <2>1, <2>2
<1>c. \A o \in AllOps \ {"rename"}, st \in Steps : Continue(o, st) => RenameStep
    <2> SUFFICES ASSUME NEW o \in AllOps \ {"rename"}, NEW st \in Steps, Continue(o, st)
                 PROVE  RenameStep
        OBVIOUS
    <2> QED  BY <1>0, <1>k, JobContinues
<1>s. \A o \in AllOps \ {"rename"} : \A j : jobs' = [jobs EXCEPT ![o] = j] => RenameStep
    <2> SUFFICES ASSUME NEW o \in AllOps \ {"rename"}, NEW j, jobs' = [jobs EXCEPT ![o] = j]
                 PROVE  RenameStep
        OBVIOUS
    <2>1. jobs'["rename"] = jobs["rename"]
        BY <1>0 DEF TypeOK
    <2> QED  BY <1>k, <2>1
<1>b. jobs["rename"].stage \notin Resting /\ jobs'["rename"].held = jobs["rename"].held
             => RenameStep
    BY DEF RenameStep
<1>f. \A ok \in BOOLEAN : tasks # <<>> /\ Finish(ok) => RenameStep
    BY DEF RenameStep, Finish
<1>q. \A o \in AllOps : o = "rename" \/ o \in AllOps \ {"rename"}
    OBVIOUS
<1>t. /\ {"stat", "reading", "listing", "applying", "settling", "saving", "flush",
           "draining", "awaiting", "blocked"} \subseteq Steps
      /\ {"select", "create", "delete", "retry", "overwrite", "reload", "close"}
             \subseteq AllOps \ {"rename"}
    BY DEF Steps, AllOps
<1>p. ASSUME NEW o \in AllOps, NEW t \in Task, jobs[o].tries < 3, PushTask(o, t)
      PROVE RenameStep
    <2>1. (\A q \in AllOps \ {o} : jobs'[q] = jobs[q]) /\ jobs'[o].stage = "saving"
        BY <1>p, Pushes
    <2> QED  BY <1>0, <1>k, <1>r, <2>1 DEF RenameStep
<1>w. ASSUME NEW o \in AllOps, tasks # <<>>, NEW st \in {"draining", "awaiting"},
             WaitForLast(o, st)
      PROVE  RenameStep
    <2>0. st \in Steps
        BY <1>t
    <2>1. /\ \A q \in AllOps \ {o} : jobs'[q] = jobs[q]
          /\ jobs'[o] = [jobs[o] EXCEPT !.stage = st]
        BY <1>w, <2>0, Waits
    <2>2. jobs[o] \in Job
        BY DEF TypeOK
    <2>3. jobs'[o].stage = st
        BY <2>1, <2>2 DEF Job
    <2> QED  BY <1>0, <1>k, <1>r, <2>1, <2>3 DEF RenameStep
<1>v. ASSUME NEW o \in AllOps, NEW ok \in BOOLEAN, LeaveFlush(o, ok),
             jobs[o].stage \notin Resting \/ tasks = <<>>
      PROVE  RenameStep
    <2>1. jobs[o] \in Job
        BY DEF TypeOK
    <2>2. (\A q \in AllOps \ {o} : jobs'[q] = jobs[q]) /\ jobs'[o].held = jobs[o].held
        BY <1>v, <2>1 DEF LeaveFlush, TypeOK, Job
    <2>3. tasks' = tasks
        BY <1>v DEF LeaveFlush
    <2> QED  BY <1>0, <1>b, <1>k, <1>v, <2>2, <2>3 DEF RenameStep
<1>a. ASSUME NEW o \in AllOps, jobs[o].tries < 3, Attempt(o)  PROVE RenameStep
    <2>1. CASE open # NoNote /\ PushTask(o, NewTask(open, text, TRUE, Baseline, {o}))
        <3>1. NewTask(open, text, TRUE, Baseline, {o}) \in Task
            BY NewTaskTyped DEF TypeOK
        <3> QED  BY <1>a, <1>p, <2>1, <3>1
    <2>2. CASE tasks # <<>> /\ WaitForLast(o, "awaiting")
        BY <1>w, <2>2
    <2>3. CASE tasks = <<>> /\ UNCHANGED tasks
        BY <2>3 DEF RenameStep
    <2> QED  BY <1>a, <2>1, <2>2, <2>3 DEF Attempt
<1>1. CASE User
    <2>1. CASE \E c \in Contents : Type(c)
        BY <1>k, <2>1 DEF Type
    <2>2. CASE CancelDialog \/ \E n \in scene.notes : AskSelect(n)
        BY <1>k, <2>2 DEF CancelDialog, AskSelect
    <2>3. CASE AskReload \/ AskClose \/ Discard \/ AskOverwrite
        BY <1>s, <1>t, <2>3 DEF AskReload, AskClose, Discard, AskOverwrite
    <2>4. CASE \E n \in scene.notes : AskCreate(n) \/ AskDelete(n)
        BY <1>s, <1>t, <2>4 DEF AskCreate, AskDelete
    <2>5. ASSUME NEW n \in scene.notes, NEW m \in scene.notes, AskRename(n, m)
          PROVE RenameStep
        <3> DEFINE j == [NoJob EXCEPT !.path = n, !.to = m, !.held = (open = n),
                                      !.stage = IF open = n THEN "flush" ELSE "flushed"]
        <3>1. jobs'["rename"] = j
            BY <1>0, <2>5 DEF AskRename, TypeOK
        <3>2. j.held = (open = n) /\ j.stage = IF open = n THEN "flush" ELSE "flushed"
            BY DEF NoJob
        <3> HIDE DEF j
        <3> QED  BY <1>r, <3>1, <3>2 DEF RenameStep
    <2>6. CASE AskRetry
        <3>1. jobs["retry"].tries < 3
            BY <1>t, <2>6 DEF AskRetry, UserMay, JobInv, NoJob
        <3>2. CASE open # NoNote
                     /\ PushTask("retry", NewTask(open, text, TRUE, Baseline, {"retry"}))
            <4>1. NewTask(open, text, TRUE, Baseline, {"retry"}) \in Task
                BY <1>t, NewTaskTyped DEF TypeOK
            <4> QED  BY <1>p, <1>t, <3>1, <3>2, <4>1
        <3>3. CASE UNCHANGED jobs
            BY <1>k, <3>3
        <3> QED  BY <2>6, <3>2, <3>3 DEF AskRetry
    <2> QED  BY <1>1, <2>1, <2>2, <2>3, <2>4, <2>5, <2>6 DEF User
<1>2. CASE Continuation
    <2>1. CASE StartTask
        BY <1>f, <1>k, <2>1 DEF StartTask, HeadQueued
    <2>2. CASE StartSelect
        BY <1>s, <1>t, <2>2 DEF StartSelect
    <2>3. CASE SelectFlushed \/ CreateFlushed \/ CloseFlushed \/ RetryDone \/ OverwriteDone
        BY <1>e, <1>c, <1>t, <2>3
        DEF SelectFlushed, EndSelect, CreateFlushed, CloseFlushed, RetryDone,
                                      OverwriteDone
    <2>4. CASE Flushed("delete")
        BY <1>e, <1>c, <1>t, <2>4 DEF Flushed
    <2>5. CASE Flushed("rename")
        <3>1. CASE jobs["rename"].stage = "flushed" /\ Continue("rename", "applying")
            <4>1. jobs'["rename"].held = jobs["rename"].held
                BY <1>0, <3>1 DEF Continue, TypeOK, Job
            <4> QED  BY <1>b, <1>r, <3>1, <4>1
        <3>2. CASE EndJob("rename")
            BY <1>0, <1>e, <3>2
        <3> QED  BY <2>5, <3>1, <3>2 DEF Flushed
    <2>6. ASSUME NEW o \in AllOps, Flush(o)  PROVE RenameStep
        <3>1. jobs[o].tries < 3
            BY <2>6 DEF Flush, JobInv
        <3>2. CASE Attempt(o)
            BY <1>a, <3>1, <3>2
        <3>3. CASE tasks = <<>> /\ LeaveFlush(o, issue = NoIssue)
            BY <1>v, <3>3
        <3>4. CASE tasks # <<>> /\ WaitForLast(o, "draining")
            BY <1>w, <3>4
        <3> QED  BY <2>6, <3>2, <3>3, <3>4 DEF Flush
    <2>7. ASSUME NEW o \in AllOps, FlushGoesOn(o)  PROVE RenameStep
        <3>1. jobs[o].stage \notin Resting
            BY <1>r, <2>7 DEF FlushGoesOn
        <3>2. CASE jobs[o].tries < 3 /\ Attempt(o)
            BY <1>a, <3>2
        <3>3. CASE \E ok \in BOOLEAN : LeaveFlush(o, ok)
            BY <1>v, <3>1, <3>3
        <3> QED  BY <2>7, <3>2, <3>3 DEF FlushGoesOn
    <2> QED  BY <1>2, <2>1, <2>2, <2>3, <2>4, <2>5, <2>6, <2>7 DEF Continuation
<1>3. CASE Backend
    <2>1. CASE SaveExecuted \/ WatchReads
        BY <1>k, <2>1 DEF SaveExecuted, WatchReads
    <2>2. CASE CreateExecuted \/ DeleteExecuted \/ JobReads("select") \/ JobReads("reload")
        <3>1. PICK o \in AllOps \ {"rename"} : \A q \in AllOps \ {o} : jobs'[q] = jobs[q]
            BY <1>t, <2>2 DEF CreateExecuted, DeleteExecuted, Applied, JobReads, TypeOK
        <3> QED  BY <1>0, <1>k, <3>1
    <2>3. CASE RenameExecuted
        <3>1. jobs["rename"].stage = "applying"
            BY <1>0, <2>3, AtHead DEF RenameExecuted, Sent
        <3>2. jobs'["rename"].held = jobs["rename"].held
            BY <1>0, <2>3 DEF RenameExecuted, Applied, TypeOK, Job
        <3> QED  BY <1>b, <1>r, <3>1, <3>2
    <2> QED  BY <1>3, <2>1, <2>2, <2>3 DEF Backend
<1>4. CASE SaveEvent
    <2>1. tasks # <<>>
        BY <1>4, AtHead, CallerNames DEF SaveEvent, SaveAnswered, Indexed, Settled, Replied
    <2> QED  BY <1>4, <1>f, <1>k, <2>1
                DEF SaveEvent, SaveAnswered, SaveConflict, SaveFailed, SaveDone, Indexed,
                    Settled
<1>5. CASE OperationEvent
    <2>1. CASE SelectStat \/ SelectAnswered \/ SelectDone
        BY <1>e, <1>c, <1>t, <2>1 DEF SelectStat, SelectAnswered, SelectDone, EndSelect
    <2>2. CASE CreateAnswered \/ CreateListed \/ DeleteAnswered \/ RenameAnswered
        BY <1>0, <1>e, <1>c, <1>t, <2>2
        DEF CreateAnswered, CreateListed, DeleteAnswered, RenameAnswered
    <2>3. CASE ReloadAnswered
        BY <1>e, <1>c, <1>t, <2>3 DEF ReloadAnswered, AdoptReloaded
    <2>4. CASE \E o \in AllOps : CloseWindow(o)
        BY <1>e, <1>k, <2>4 DEF CloseWindow
    <2> QED  BY <1>5, <2>1, <2>2, <2>3, <2>4 DEF OperationEvent
<1>6. CASE WatchEvent \/ LampOff \/ TimerFires \/ UNCHANGED vars
              \/ \E n \in scene.notes : Outside(n)
    BY <1>k, <1>6
    DEF WatchEvent, WatchFlush, WatchListed, WatchAnswered, LampOff, TimerFires, vars, Outside
<1> QED  BY <1>1, <1>2, <1>3, <1>4, <1>5, <1>6 DEF Next

\* Every step keeps SavedInv: a rename does not overtake a save of the text.
LEMMA SavedGoesOn == ASSUME IInv, [Next]_vars PROVE SavedInv'
<1> USE DEF IInv
<1>1. Origins /\ PageStep /\ RenameStep /\ TaskInv'
    BY TasksGoOn, PageSteps, RenameSteps, ControlGoesOn
<1>t. \A i \in 1..Len(tasks) : tasks[i].status = "saved" => tasks[i].stage # "queued"
    BY DEF Base, TaskInv
<1>o. ASSUME NEW i \in 1..Len(tasks'), tasks'[i].fresh, ~Renames
      PROVE  open' = open /\ text' = text
    BY <1>1, <1>o DEF PageStep
<1>2. ASSUME NEW i \in 1..Len(tasks'), tasks'[i].fresh, tasks'[i].status = "saved",
             tasks'[i].path = open'
      PROVE  ~unsaved'
    <2>1. CASE Renames
        <3>1. tasks[i].stage # "queued" /\ jobs["rename"].stage \notin Resting
            BY <1>2, <1>t, <2>1 DEF Renames, Resting, Waiting
        <3>2. tasks[i].path = open
            BY <1>2, <2>1, <3>1 DEF Renames, SavedInv, Renamed, Resting
        <3> QED  BY <1>2, <2>1, <3>2 DEF Renames, SavedInv
    <2>2. CASE ~Renames
        <3>1. open' = open /\ text' = text /\ (unsaved' => unsaved)
            BY <1>1, <1>2, <1>o, <2>2 DEF PageStep
        <3>2. Origin(i)
            BY <1>1 DEF Origins
        <3>3. CASE New(tasks'[i])
            BY <1>2, <3>3 DEF New
        <3>4. ASSUME NEW j \in 1..Len(tasks), Same(tasks[j], tasks'[i]),
                     tasks[j].status = "saved"
              PROVE  ~unsaved'
            BY <1>2, <3>1, <3>4 DEF Same, SavedInv
        <3>5. CASE i = 1 /\ i \in 1..Len(tasks) /\ Same(tasks[1], tasks'[1])
                     /\ Written(tasks[1], tasks'[1])
            <4>1. WriteNote(tasks[1]) /\ tasks[1].path = open /\ tasks[1].text = text
                BY <1>2, <3>1, <3>5 DEF Same, Written, FreshInv
            <4> QED  BY <4>1 DEF WriteNote
        <3> QED  BY <1>2, <3>2, <3>3, <3>4, <3>5 DEF Origin, Kept, Started, Advanced
    <2> QED  BY <2>1, <2>2
<1>3. ASSUME NEW i \in 1..Len(tasks'), Renamed(i)',
             jobs'["rename"].held, jobs'["rename"].stage \notin Resting
      PROVE  FALSE
    <2>0. tasks'[i].stage # "queued" /\ tasks'[i].fresh /\ tasks'[i].path # open'
        BY <1>3 DEF Renamed
    <2>1. ~Renames
        BY <1>3 DEF Renames, NoJob
    <2>2. open' = open
        BY <1>o, <2>0, <2>1
    <2>3. Origin(i)
        BY <1>1 DEF Origins
    <2>4. PICK j \in 1..Len(tasks) : Renamed(j)
        <3>1. ASSUME NEW j \in 1..Len(tasks), Same(tasks[j], tasks'[i]),
                     tasks[j].stage # "queued"
              PROVE  Renamed(j)
            BY <2>0, <2>2, <3>1 DEF Same, Renamed
        <3>2. ~New(tasks'[i])
            BY <2>0 DEF New
        <3>3. ~(Same(tasks[1], tasks'[i]) /\ Started(tasks[1], tasks'[i]))
            BY <2>0, <2>2 DEF Same, Started
        <3>4. CASE \E k \in 1..Len(tasks) : Same(tasks[k], tasks'[i])
                     /\ Kept(tasks[k], tasks'[i])
            BY <2>0, <3>1, <3>4 DEF Kept
        <3>5. CASE i = 1 /\ 1 \in 1..Len(tasks) /\ Same(tasks[1], tasks'[1])
                   /\ (Written(tasks[1], tasks'[1]) \/ Advanced(tasks[1], tasks'[1]))
            BY <3>1, <3>5 DEF Written, Advanced
        <3> QED  BY <2>3, <3>2, <3>3, <3>4, <3>5 DEF Origin
    <2>5. ~jobs["rename"].held \/ jobs["rename"].stage \in Resting
        BY <2>4 DEF SavedInv, Resting
    <2>6. Len(tasks') \in Nat /\ tasks' # <<>>
        <3>1. tasks' \in Seq(Task)
            BY TypesGoOn DEF Base, TypeOK
        <3> QED  BY <3>1, EmptySeq, LenProperties
    <2>7. tasks # <<>> /\ tasks' = Tail(tasks)
        BY <1>1, <1>3, <2>5, <2>6 DEF RenameStep
    <2>8. /\ Len(tasks) \in Nat
          /\ \A k \in 1..Len(tasks') : k + 1 \in 1..Len(tasks) /\ tasks'[k] = tasks[k + 1]
        BY <2>7, TailTasks DEF Base, TypeOK
    <2>9. i + 1 = 1
        BY <2>0, <2>8 DEF Base, TaskInv
    <2> QED  BY <2>6, <2>9
<1> QED  BY <1>2, <1>3 DEF SavedInv, Resting

\* Every step keeps CloseInv.
LEMMA CloseGoesOn == ASSUME IInv, [Next]_vars PROVE CloseInv'
<1> USE DEF IInv, Base
<1> SUFFICES ASSUME NEW o \in {"overwrite", "reload"},
                    jobs'[o].held \/ jobs'[o].stage = "settling", "close" \notin scene.ops
             PROVE  FALSE
    BY ControlGoesOn DEF CloseInv
<1>0. o \in AllOps /\ jobs[o] \in Job /\ ~jobs[o].held /\ jobs[o].stage # "settling"
      /\ {"settling", "draining", "awaiting"} \subseteq Steps
    BY DEF AllOps, TypeOK, CloseInv, Steps
<1>k. jobs'[o] # jobs[o]
    BY <1>0
<1>d. dialog # "close"
    BY DEF RequestInv
<1>e. \A q \in AllOps : ~EndJob(q)
    <2> SUFFICES ASSUME NEW q \in AllOps, EndJob(q)  PROVE FALSE
        OBVIOUS
    <2>1. jobs'[o] = jobs[o] \/ jobs'[o] = NoJob
        BY <1>0, JobEnds
    <2> QED  BY <1>k, <2>1 DEF NoJob
<1>h. ASSUME jobs'[o].held = jobs[o].held, jobs'[o].stage # "settling"  PROVE FALSE
    BY <1>0, <1>h
<1>s. ASSUME NEW q \in AllOps, q # o, NEW j, jobs' = [jobs EXCEPT ![q] = j]  PROVE FALSE
    <2>1. jobs'[o] = jobs[o]
        BY <1>0, <1>s DEF TypeOK
    <2> QED  BY <1>k, <2>1
<1>c. ASSUME NEW q \in AllOps, q # o, NEW st, Continue(q, st)  PROVE FALSE
    <2>1. jobs'[o] = jobs[o]
        BY <1>0, <1>c DEF Continue, TypeOK
    <2> QED  BY <1>k, <2>1
<1>f. ASSUME NEW ok \in BOOLEAN, tasks # <<>>, Finish(ok)  PROVE FALSE
    BY <1>0, <1>f, <1>h, <1>k, Finishes
<1>p. ASSUME NEW q \in AllOps, NEW t \in Task, jobs[q].tries < 3, PushTask(q, t)  PROVE FALSE
    BY <1>0, <1>h, <1>k, <1>p, Pushes
<1>w. ASSUME NEW q \in AllOps, tasks # <<>>, NEW st \in {"draining", "awaiting"},
             WaitForLast(q, st)
      PROVE  FALSE
    <2>1. st \in Steps
        BY <1>0
    <2>2. /\ \A r \in AllOps \ {q} : jobs'[r] = jobs[r]
          /\ jobs'[q] = [jobs[q] EXCEPT !.stage = st]
        BY <1>w, <2>1, Waits
    <2>3. CASE q # o
        BY <1>0, <1>k, <2>2, <2>3
    <2>4. CASE q = o
        <3>1. jobs'[o].held = jobs[o].held /\ jobs'[o].stage = st
            BY <1>0, <2>2, <2>4 DEF Job
        <3> QED  BY <1>h, <3>1
    <2> QED  BY <2>3, <2>4
<1>v. ASSUME NEW q \in AllOps, NEW ok \in BOOLEAN, LeaveFlush(q, ok)  PROVE FALSE
    <2>1. \/ jobs'[o] = jobs[o]
          \/ jobs'[o].held = jobs[o].held /\ jobs'[o].stage # "settling"
        BY <1>0, <1>v DEF LeaveFlush, TypeOK, Job
    <2> QED  BY <1>h, <1>k, <2>1
<1>a. ASSUME NEW q \in AllOps, jobs[q].tries < 3, Attempt(q)  PROVE FALSE
    <2>1. CASE open # NoNote /\ PushTask(q, NewTask(open, text, TRUE, Baseline, {q}))
        <3>1. NewTask(open, text, TRUE, Baseline, {q}) \in Task
            BY NewTaskTyped DEF TypeOK
        <3> QED  BY <1>a, <1>p, <2>1, <3>1
    <2>2. CASE tasks # <<>> /\ WaitForLast(q, "awaiting")
        BY <1>w, <2>2
    <2>3. CASE Continue(q, "blocked")
        <3>1. CASE q # o
            BY <1>c, <2>3, <3>1
        <3>2. CASE q = o
            <4>1. jobs'[o].held = jobs[o].held /\ jobs'[o].stage = "blocked"
                BY <1>0, <2>3, <3>2 DEF Continue, TypeOK, Job
            <4> QED  BY <1>h, <4>1
        <3> QED  BY <3>1, <3>2
    <2> QED  BY <1>a, <2>1, <2>2, <2>3 DEF Attempt
<1>t. /\ {"select", "create", "delete", "rename", "retry", "close"}
             \subseteq AllOps \ {"overwrite", "reload"}
      /\ {"overwrite", "reload"} \subseteq AllOps
    BY DEF AllOps
<1>1. CASE User
    <2>1. CASE \E c \in Contents : Type(c)
        BY <1>k, <2>1 DEF Type
    <2>2. CASE CancelDialog \/ \E n \in scene.notes : AskSelect(n)
        BY <1>k, <2>2 DEF CancelDialog, AskSelect
    <2>3. CASE AskClose \/ Discard
        BY <1>s, <1>t, <2>3 DEF AskClose, Discard
    <2>4. ASSUME NEW n \in scene.notes, AskCreate(n)  PROVE FALSE
        BY <1>s, <1>t, <2>4 DEF AskCreate
    <2>5. ASSUME NEW n \in scene.notes, AskDelete(n)  PROVE FALSE
        BY <1>s, <1>t, <2>5 DEF AskDelete
    <2>6. ASSUME NEW n \in scene.notes, NEW m \in scene.notes, AskRename(n, m)  PROVE FALSE
        BY <1>s, <1>t, <2>6 DEF AskRename
    <2>7. CASE AskRetry
        <3>1. jobs["retry"].tries < 3
            BY <1>t, <2>7 DEF AskRetry, UserMay, JobInv, NoJob
        <3>2. CASE open # NoNote
                     /\ PushTask("retry", NewTask(open, text, TRUE, Baseline, {"retry"}))
            <4>1. NewTask(open, text, TRUE, Baseline, {"retry"}) \in Task
                BY <1>t, NewTaskTyped DEF TypeOK
            <4> QED  BY <1>p, <1>t, <3>1, <3>2, <4>1
        <3>3. CASE UNCHANGED jobs
            BY <1>k, <3>3
        <3> QED  BY <2>7, <3>2, <3>3 DEF AskRetry
    <2>8. CASE AskOverwrite
        <3> DEFINE j == [NoJob EXCEPT !.stage = "saving", !.held = (dialog = "close")]
        <3>1. jobs' = [jobs EXCEPT !["overwrite"] = j]
            BY <2>8 DEF AskOverwrite
        <3>2. ~j.held /\ j.stage = "saving"
            BY <1>d DEF NoJob
        <3> HIDE DEF j
        <3>3. CASE o = "overwrite"
            <4>1. jobs'[o] = j
                BY <1>0, <3>1, <3>3 DEF TypeOK
            <4> QED  BY <3>2, <4>1
        <3> QED  BY <1>s, <1>t, <3>1, <3>3
    <2>9. CASE AskReload
        <3> DEFINE j == [NoJob EXCEPT !.stage = "reading", !.path = issue.path,
                                      !.held = (dialog = "close")]
        <3>1. jobs' = [jobs EXCEPT !["reload"] = j]
            BY <2>9 DEF AskReload
        <3>2. ~j.held /\ j.stage = "reading"
            BY <1>d DEF NoJob
        <3> HIDE DEF j
        <3>3. CASE o = "reload"
            <4>1. jobs'[o] = j
                BY <1>0, <3>1, <3>3 DEF TypeOK
            <4> QED  BY <3>2, <4>1
        <3> QED  BY <1>s, <1>t, <3>1, <3>3
    <2> QED  BY <1>1, <2>1, <2>2, <2>3, <2>4, <2>5, <2>6, <2>7, <2>8, <2>9 DEF User
<1>2. CASE Continuation
    <2>1. CASE StartTask
        BY <1>f, <1>k, <2>1 DEF StartTask, HeadQueued
    <2>2. CASE StartSelect
        BY <1>s, <1>t, <2>2 DEF StartSelect
    <2>3. CASE SelectFlushed \/ CreateFlushed \/ CloseFlushed \/ RetryDone
        BY <1>e, <1>c, <1>t, <2>3
        DEF SelectFlushed, EndSelect, CreateFlushed, CloseFlushed, RetryDone
    <2>4. CASE Flushed("delete") \/ Flushed("rename")
        BY <1>e, <1>c, <1>t, <2>4 DEF Flushed
    <2>5. CASE OverwriteDone
        <3>1. CASE jobs["overwrite"].held
            BY <1>0, <1>c, <1>e, <1>t, <2>5, <3>1 DEF OverwriteDone
        <3>2. CASE EndJob("overwrite")
            BY <1>e, <1>t, <3>2
        <3> QED  BY <2>5, <3>1, <3>2 DEF OverwriteDone
    <2>6. ASSUME NEW q \in AllOps, Flush(q)  PROVE FALSE
        <3>1. jobs[q].tries < 3
            BY <2>6 DEF Flush, JobInv
        <3>2. CASE Attempt(q)
            BY <1>a, <3>1, <3>2
        <3>3. CASE LeaveFlush(q, issue = NoIssue)
            BY <1>v, <3>3
        <3>4. CASE tasks # <<>> /\ WaitForLast(q, "draining")
            BY <1>w, <3>4
        <3> QED  BY <2>6, <3>2, <3>3, <3>4 DEF Flush
    <2>7. ASSUME NEW q \in AllOps, FlushGoesOn(q)  PROVE FALSE
        <3>1. CASE jobs[q].tries < 3 /\ Attempt(q)
            BY <1>a, <3>1
        <3>2. CASE \E ok \in BOOLEAN : LeaveFlush(q, ok)
            BY <1>v, <3>2
        <3> QED  BY <2>7, <3>1, <3>2 DEF FlushGoesOn
    <2> QED  BY <1>2, <2>1, <2>2, <2>3, <2>4, <2>5, <2>6, <2>7 DEF Continuation
<1>3. CASE Backend
    <2>1. CASE SaveExecuted \/ WatchReads
        BY <1>k, <2>1 DEF SaveExecuted, WatchReads
    <2>2. CASE CreateExecuted \/ DeleteExecuted \/ RenameExecuted \/ JobReads("select")
        <3>1. PICK q \in AllOps \ {"overwrite", "reload"} : \A r \in AllOps \ {q} :
                     jobs'[r] = jobs[r]
            BY <1>t, <2>2
            DEF CreateExecuted, DeleteExecuted, RenameExecuted, Applied, JobReads, TypeOK
        <3> QED  BY <1>0, <1>k, <3>1
    <2>3. CASE JobReads("reload")
        <3>1. jobs'[o] = jobs[o] \/ (jobs'[o].held = jobs[o].held /\ jobs'[o].stage = "read")
            BY <1>0, <2>3 DEF JobReads, TypeOK, Job
        <3> QED  BY <1>h, <1>k, <3>1
    <2> QED  BY <1>3, <2>1, <2>2, <2>3 DEF Backend
<1>4. CASE SaveEvent
    <2>1. tasks # <<>>
        BY <1>4, AtHead, CallerNames DEF SaveEvent, SaveAnswered, Indexed, Settled, Replied
    <2> QED  BY <1>4, <1>f, <1>k, <2>1
                DEF SaveEvent, SaveAnswered, SaveConflict, SaveFailed, SaveDone, Indexed,
                    Settled
<1>5. CASE OperationEvent
    <2>1. CASE SelectStat \/ SelectAnswered \/ SelectDone
        BY <1>e, <1>c, <1>t, <2>1 DEF SelectStat, SelectAnswered, SelectDone, EndSelect
    <2>2. CASE CreateAnswered \/ CreateListed \/ DeleteAnswered \/ RenameAnswered
        BY <1>e, <1>c, <1>t, <2>2
        DEF CreateAnswered, CreateListed, DeleteAnswered, RenameAnswered
    <2>3. CASE ReloadAnswered
        <3>1. CASE jobs["reload"].held /\ Continue("reload", "settling")
            BY <1>0, <1>c, <1>t, <3>1
        <3>2. CASE EndJob("reload")
            BY <1>e, <1>t, <3>2
        <3> QED  BY <2>3, <3>1, <3>2 DEF ReloadAnswered, AdoptReloaded
    <2>4. CASE \E q \in AllOps : CloseWindow(q)
        BY <1>e, <1>k, <2>4 DEF CloseWindow
    <2> QED  BY <1>5, <2>1, <2>2, <2>3, <2>4 DEF OperationEvent
<1>6. CASE WatchEvent \/ LampOff \/ TimerFires \/ UNCHANGED vars
              \/ \E n \in scene.notes : Outside(n)
    BY <1>k, <1>6
    DEF WatchEvent, WatchFlush, WatchListed, WatchAnswered, LampOff, TimerFires, vars, Outside
<1> QED  BY <1>1, <1>2, <1>3, <1>4, <1>5, <1>6 DEF Next

-----------------------------------------------------------------------------
(***************************************************************************)
(* The invariant                                                           *)
(***************************************************************************)

\* The page that has just opened a note satisfies the invariant.
LEMMA InitHolds == Init => IInv
<1> SUFFICES ASSUME Init  PROVE IInv
    OBVIOUS
<1>j. NoJob \in Job /\ NoWatch \in Watch
    BY DEF NoJob, Job, Steps, Revisions, NoWatch, Watch
<1>s. tasks = <<>> /\ calls = <<>> /\ answers = <<>> /\ \A o \in AllOps : jobs[o] = NoJob
    BY DEF Init
<1>e. 1..Len(tasks) = {} /\ 1..Len(calls) = {} /\ 1..Len(answers) = {}
    BY <1>s
<1>1. PICK n \in scene.notes : /\ disk[n] # Missing /\ open = n
                               /\ text = disk[n] /\ baseline = disk[n]
                               /\ known = [m \in Notes |-> IF m = n THEN {disk[n]} ELSE {}]
    BY DEF Init
<1>2. n \in Notes /\ scene \in Scenes /\ disk \in [Notes -> Revisions]
    BY <1>1, ScenesAssumption DEF Init, Scene
<1>3. disk[n] \in Contents
    BY <1>1, <1>2 DEF Revisions
<1>4. known \in [Notes -> SUBSET Revisions]
    BY <1>1, <1>2
<1>5. TypeOK
    <2>1. /\ tasks \in Seq(Task) /\ calls \in Seq(Callers) /\ answers \in Seq(Callers)
          /\ timer = NoTimer /\ watch \in Watch
        BY <1>j, <1>s DEF Init
    <2>2. jobs \in [AllOps -> Job]
        BY <1>j DEF Init
    <2>3. open \in Notes /\ text \in Contents /\ baseline \in Revisions
        BY <1>1, <1>2, <1>3
    <2> QED  BY <1>2, <1>4, <2>1, <2>2, <2>3 DEF Init, TypeOK
<1>6. JobInv
    <2>1. NoJob.stage = "idle"
        BY DEF NoJob
    <2>2. \A o \in AllOps : jobs[o] = NoJob /\ jobs[o].stage = "idle"
        BY <1>s, <2>1
    <2> QED  BY <2>2 DEF JobInv
<1>7. RequestInv
    BY DEF Init, RequestInv, Paused, NoWatch
<1>8. TaskInv /\ WakeInv /\ FreshInv /\ SavedInv
    BY <1>e DEF Init, TaskInv, WakeInv, FreshInv, SavedInv
<1>9. CallInv
    BY <1>e DEF CallInv, In, Distinct
<1>10. CloseInv
    BY <1>s DEF CloseInv, NoJob, AllOps
<1> QED  BY <1>5, <1>6, <1>7, <1>8, <1>9, <1>10 DEF IInv, Base

\* Every step keeps the invariant.
LEMMA StepKeeps == IInv /\ [Next]_vars => IInv'
<1> SUFFICES ASSUME IInv, [Next]_vars  PROVE IInv'
    OBVIOUS
<1>1. TypeOK' /\ RequestInv'
    BY TypesGoOn, RequestsGoOn DEF IInv
<1>2. JobInv' /\ TaskInv' /\ WakeInv' /\ CallInv'
    BY ControlGoesOn DEF IInv
<1>3. FreshInv' /\ SavedInv' /\ CloseInv'
    BY FreshGoesOn, SavedGoesOn, CloseGoesOn
<1> QED  BY <1>1, <1>2, <1>3 DEF IInv, Base

\* The invariant holds in every state the page can reach.
LEMMA Invariance == Spec => []IInv
BY InitHolds, StepKeeps, PTL DEF Spec
=============================================================================
