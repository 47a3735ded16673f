------------------------- MODULE NotebookHomeProofs -------------------------
(***************************************************************************)
(* The theorems about NotebookHome for any notes, texts and bounds.  What  *)
(* depends on the operations the user has says so: scene.ops.              *)
(***************************************************************************)
EXTENDS NotebookHomeInvariant

USE DEF pageVars, issueVars, queueVars, ipcVars, watchVars,
        windowVars, ghostVars, idleVars

-----------------------------------------------------------------------------
(***************************************************************************)
(* Types                                                                   *)
(***************************************************************************)

\* The variables of the page hold what their types let them hold, and no flush
\* tries more than three times: for any notes, texts, scenes and bounds.
THEOREM Typed == Spec => []TypeOK
<1>1. IInv => TypeOK
    BY DEF IInv, Base
<1> QED  BY <1>1, Invariance, PTL
-----------------------------------------------------------------------------
(***************************************************************************)
(* A clean page                                                            *)
(***************************************************************************)

\* The user selects no notes.
NoSelecting == "select" \notin scene.ops

\* CleanMeansSaved, where no selection is in play.
CleanInv == NoSelecting => CleanMeansSaved

\* The page becomes clean only in finishing a save of the text shown, and
\* SavedInv says that this save left nothing unsaved.
LEMMA CleanGoesOn == IInv /\ CleanInv /\ [Next]_vars => CleanInv'
<1> SUFFICES ASSUME IInv, CleanInv, [Next]_vars, "select" \notin scene.ops, ~dirty', unsaved'
             PROVE  FALSE
    BY ControlGoesOn DEF CleanInv, NoSelecting, CleanMeansSaved, IInv
<1>1. PageStep
    BY PageSteps DEF IInv
<1>2. ~dirty => ~unsaved
    BY DEF CleanInv, NoSelecting, CleanMeansSaved
<1>3. dirty /\ unsaved /\ tasks # <<>> /\ tasks[1].stage = "settling"
      /\ tasks[1].path = open /\ tasks[1].fresh
    BY <1>1, <1>2 DEF PageStep
<1>4. 1 \in 1..Len(tasks)
    BY <1>3, HeadTask DEF IInv, Base
<1>5. tasks[1].status = "saved"
    BY <1>3, <1>4 DEF IInv, Base, TaskInv
<1> QED  BY <1>3, <1>4, <1>5 DEF IInv, SavedInv

\* A page that shows no unsaved changes has none: the text in the editor was
\* opened from the disk or reached it (isDirty), whatever else the user and
\* other programs do.  Creating a
\* note while another is being selected does not keep it; selecting with other
\* operations is only model-checked.
THEOREM CleanPageIsSaved == Spec => []("select" \notin scene.ops => CleanMeansSaved)
<1>1. Init => CleanInv
    BY DEF Init, CleanInv, CleanMeansSaved
<1>2. CleanInv => ("select" \notin scene.ops => CleanMeansSaved)
    BY DEF CleanInv, NoSelecting
<1> QED  BY <1>1, <1>2, CleanGoesOn, Invariance, PTL DEF Spec
-----------------------------------------------------------------------------
(***************************************************************************)
(* Typed text                                                              *)
(***************************************************************************)

\* The operations that replace the text only when asked to or on a clean page.
LostOps == {"delete", "rename", "retry", "overwrite", "reload"}

\* NoTypingLost, where only those operations are in play.
LostInv == scene.ops \subseteq LostOps => ~lost

\* Text is replaced only on a clean page, where nothing is unsaved, or because
\* the user asked for it.
LEMMA LostGoesOn == IInv /\ CleanInv /\ LostInv /\ [Next]_vars => LostInv'
<1> SUFFICES ASSUME IInv, CleanInv, LostInv, [Next]_vars, scene.ops \subseteq LostOps, lost'
             PROVE  FALSE
    BY ControlGoesOn DEF LostInv, IInv
<1>1. PageStep
    BY PageSteps DEF IInv
<1>2. /\ "select" \notin scene.ops
      /\ jobs["select"].stage # "read" /\ jobs["create"].stage # "listing"
      /\ \A o \in {"close", "overwrite", "reload"} : jobs[o].stage # "settling"
    BY DEF LostOps, IInv, Base, JobInv, CloseInv, AllOps
<1>3. ~dirty => ~unsaved
    BY <1>2 DEF CleanInv, NoSelecting, CleanMeansSaved
<1> QED  BY <1>1, <1>2, <1>3 DEF PageStep, LostInv

\* Text that was typed is not replaced before it reached the disk (isDirty
\* guards every replacement), in every scene without selecting, creating and
\* closing; creating and selecting together do lose it (the run
\* NotebookHome_unlock).
THEOREM TypingIsKept == Spec => [](scene.ops \subseteq LostOps => NoTypingLost)
<1>1. Init => CleanInv /\ LostInv
    BY DEF Init, CleanInv, CleanMeansSaved, LostInv
<1>2. LostInv => (scene.ops \subseteq LostOps => NoTypingLost)
    BY DEF LostInv, NoTypingLost
<1> QED  BY <1>1, <1>2, CleanGoesOn, LostGoesOn, Invariance, PTL DEF Spec

-----------------------------------------------------------------------------
(***************************************************************************)
(* The indicator                                                           *)
(***************************************************************************)

\* Without a delete or a rename a running save owns the page's save state.
OwnedInv ==
    {"delete", "rename"} \cap scene.ops = {} =>
        \A i \in 1..Len(tasks) : tasks[i].stage # "queued" => tasks[i].mine

\* The page's save state is taken from a running save only by a delete or a
\* rename (saveGeneration++).
LEMMA OwnedGoesOn == IInv /\ OwnedInv /\ [Next]_vars => OwnedInv'
<1> SUFFICES ASSUME IInv, OwnedInv, [Next]_vars, {"delete", "rename"} \cap scene.ops = {},
                    NEW i \in 1..Len(tasks'), tasks'[i].stage # "queued"
             PROVE  tasks'[i].mine
    BY ControlGoesOn DEF OwnedInv, IInv
<1>1. Origin(i)
    BY TasksGoOn DEF IInv, Origins
<1>2. \A j \in 1..Len(tasks) : tasks[j].stage # "queued" => tasks[j].mine
    BY DEF OwnedInv
<1>3. ~New(tasks'[i])
    BY DEF New
<1>4. ASSUME NEW j \in 1..Len(tasks), Kept(tasks[j], tasks'[i])  PROVE tasks'[i].mine
    <2>1. tasks'[i].stage = tasks[j].stage /\ tasks'[i].mine = tasks[j].mine
        BY <1>4 DEF Kept
    <2> QED  BY <1>2, <2>1
<1>5. ASSUME i = 1, i \in 1..Len(tasks),
             \/ Started(tasks[1], tasks'[1])
             \/ Written(tasks[1], tasks'[1])
             \/ Advanced(tasks[1], tasks'[1])
      PROVE  tasks'[i].mine
    BY <1>2, <1>5 DEF Started, Written, Advanced
<1> QED  BY <1>1, <1>3, <1>4, <1>5 DEF Origin

\* A step that ends no save leaves the chain as long as it is.
LEMMA ChainStays ==
    ASSUME TypeOK,
           \/ tasks' = tasks \/ tasks' = Outdated(tasks) \/ tasks' = Disowned(tasks)
           \/ \E t \in Task : tasks' = Append(tasks, t)
           \/ \E k \in 1..Len(tasks), t \in Task : tasks' = [tasks EXCEPT ![k] = t]
    PROVE  tasks # <<>> => tasks' # <<>>
<1>0. tasks \in Seq(Task)
    BY DEF TypeOK
<1>s. SameChain(tasks, tasks') => (tasks # <<>> => tasks' # <<>>)
    BY <1>0, EmptySeq DEF SameChain
<1>1. CASE tasks' = Outdated(tasks)
    <2>1. SameChain(tasks, tasks')
        BY <1>0, <1>1, OutdatedTasks
    <2> QED  BY <1>s, <2>1
<1>2. CASE tasks' = Disowned(tasks)
    <2>1. SameChain(tasks, tasks')
        BY <1>0, <1>2, DisownedTasks
    <2> QED  BY <1>s, <2>1
<1>3. ASSUME NEW t \in Task, tasks' = Append(tasks, t)  PROVE tasks' # <<>>
    BY <1>0, <1>3, AppendedTask, EmptySeq, LenProperties
<1>4. ASSUME NEW k \in 1..Len(tasks), NEW t \in Task, tasks' = [tasks EXCEPT ![k] = t]
      PROVE  tasks # <<>> => tasks' # <<>>
    BY <1>0, <1>4, ReplacedTask, EmptySeq, LenProperties
<1> QED  BY <1>1, <1>2, <1>3, <1>4

\* What a step does to the indicator.
SavingStep ==
    saving' => \/ lamp' \/ tasks' # <<>>
               \/ /\ saving
                  /\ lamp' = lamp \/ "delete" \in scene.ops \/ "rename" \in scene.ops
                  /\ tasks # <<>> => tasks' # <<>>
               \/ tasks # <<>> /\ tasks[1].stage # "queued" /\ ~tasks[1].mine

\* Every step is a SavingStep.
LEMMA SavingSteps == ASSUME Base, [Next]_vars PROVE SavingStep
<1> USE DEF Base
<1>k. ASSUME saving' = FALSE \/ (UNCHANGED <<saving, lamp>> /\ (tasks # <<>> => tasks' # <<>>))
      PROVE  SavingStep
    BY <1>k DEF SavingStep
<1>o. tasks' = tasks \/ tasks' = Outdated(tasks) => (tasks # <<>> => tasks' # <<>>)
    BY ChainStays
<1>c. ASSUME NEW consent, ClearActiveNoteState(consent)  PROVE SavingStep
    BY <1>c DEF ClearActiveNoteState, SavingStep
<1>n. ASSUME NEW p \in Notes \cup {NoNote}, NEW c \in Contents, NEW f \in BOOLEAN,
             NEW e \in Revisions \cup {Baseline}, NEW w \in SUBSET AllOps,
             tasks' = Append(tasks, NewTask(p, c, f, e, w))
      PROVE  SavingStep
    <2>1. tasks' # <<>>
        BY <1>n, NewTaskTyped, AppendedTask, EmptySeq, LenProperties DEF TypeOK
    <2> QED  BY <2>1 DEF SavingStep
<1>a. ASSUME NEW o \in AllOps, Attempt(o), UNCHANGED <<saving, lamp>>  PROVE SavingStep
    <2>1. CASE PushTask(o, NewTask(open, text, TRUE, Baseline, {o}))
        <3>1. tasks' = Append(tasks, NewTask(open, text, TRUE, Baseline, {o}))
            BY <2>1 DEF PushTask
        <3>2. /\ {o} \in SUBSET AllOps /\ open \in Notes \cup {NoNote} /\ text \in Contents
              /\ Baseline \in Revisions \cup {Baseline} /\ TRUE \in BOOLEAN
            BY DEF TypeOK
        <3> QED  BY <1>n, <3>1, <3>2
    <2>2. CASE tasks # <<>> /\ WaitForLast(o, "awaiting")
        <3>1. Len(tasks') = Len(tasks) /\ tasks' \in Seq(Task)
            BY <2>2, Waits DEF Steps
        <3>2. tasks' # <<>>
            BY <2>2, <3>1, EmptySeq DEF TypeOK
        <3> QED  BY <3>2 DEF SavingStep
    <2>3. CASE UNCHANGED tasks
        BY <1>a, <1>k, <2>3
    <2> QED  BY <1>a, <2>1, <2>2, <2>3 DEF Attempt
<1>1. CASE User
    <2>1. CASE \E c \in Contents : Type(c)
        BY <1>k, <1>o, <2>1 DEF Type
    <2>2. CASE CancelDialog \/ AskReload \/ AskClose \/ Discard
        BY <1>k, <2>2 DEF CancelDialog, AskReload, AskClose, Discard
    <2>3. CASE \E n \in scene.notes : AskSelect(n) \/ AskCreate(n) \/ AskDelete(n)
                  \/ \E m \in scene.notes : AskRename(n, m)
        BY <1>k, <2>3 DEF AskSelect, AskCreate, AskDelete, AskRename
    <2>4. CASE AskRetry
        <3>1. CASE PushTask("retry", NewTask(open, text, TRUE, Baseline, {"retry"}))
            <4>1. tasks' = Append(tasks, NewTask(open, text, TRUE, Baseline, {"retry"}))
                BY <3>1 DEF PushTask
            <4>2. /\ {"retry"} \in SUBSET AllOps /\ open \in Notes \cup {NoNote}
                  /\ text \in Contents /\ Baseline \in Revisions \cup {Baseline}
                  /\ TRUE \in BOOLEAN
                BY DEF TypeOK, AllOps
            <4> QED  BY <1>n, <4>1, <4>2
        <3>2. CASE UNCHANGED tasks
            BY <1>k, <2>4, <3>2 DEF AskRetry
        <3> QED  BY <2>4, <3>1, <3>2 DEF AskRetry
    <2>5. CASE AskOverwrite
        <3>1. issue.path \in Notes /\ issue.actual \in Revisions /\ "overwrite" \in AllOps
            BY <2>5 DEF AskOverwrite, RequestInv, Paused, TypeOK, Issue, AllOps
        <3>2. tasks' = Append(tasks,
                          NewTask(issue.path, text, TRUE, issue.actual, {"overwrite"}))
            BY <2>5 DEF AskOverwrite
        <3>3. /\ {"overwrite"} \in SUBSET AllOps /\ text \in Contents /\ TRUE \in BOOLEAN
              /\ issue.path \in Notes \cup {NoNote} /\ issue.actual \in Revisions \cup {Baseline}
            BY <3>1 DEF TypeOK
        <3> QED  BY <1>n, <3>2, <3>3
    <2> QED  BY <1>1, <2>1, <2>2, <2>3, <2>4, <2>5 DEF User
<1>2. CASE Continuation
    <2>1. CASE StartTask
        <3>1. tasks # <<>> /\ tasks[1] \in Task /\ 1 \in 1..Len(tasks)
            BY <2>1, HeadTask DEF StartTask, HeadQueued
        <3>2. CASE saving' = FALSE
            BY <1>k, <3>2
        <3>3. CASE tasks' = [tasks EXCEPT ![1].stage = "calling", ![1].mine = TRUE,
                          ![1].expected = IF @ = Baseline THEN baseline ELSE @]
            <4> DEFINE u == [tasks[1] EXCEPT !.stage = "calling", !.mine = TRUE,
                                  !.expected = IF @ = Baseline THEN baseline ELSE @]
            <4>1. u \in Task
                BY <3>1 DEF Task, TypeOK
            <4>2. tasks' = [tasks EXCEPT ![1] = u]
                BY <3>1, <3>3 DEF TypeOK
            <4> HIDE DEF u
            <4>3. tasks' # <<>>
                BY <3>1, <4>1, <4>2, ChainStays
            <4> QED  BY <4>3 DEF SavingStep
        <3> QED  BY <2>1, <3>2, <3>3 DEF StartTask
    <2>2. ASSUME NEW o \in {"delete", "rename"}, Flushed(o)  PROVE SavingStep
        <3>1. o \in scene.ops
            BY <2>2 DEF Flushed, Prompted, Prompt, JobInv, AllOps
        <3>2. (tasks # <<>> => tasks' # <<>>) /\ saving' = saving
            BY <2>2, ChainStays DEF Flushed, ClearPendingSaveForPath
        <3> QED  BY <3>1, <3>2 DEF SavingStep
    <2>3. CASE StartSelect \/ SelectFlushed \/ CreateFlushed \/ CloseFlushed \/ RetryDone
                  \/ OverwriteDone
        BY <1>k, <2>3
        DEF StartSelect, SelectFlushed, CreateFlushed, CloseFlushed, RetryDone, OverwriteDone
    <2>4. ASSUME NEW o \in AllOps, Flush(o)  PROVE SavingStep
        <3>1. UNCHANGED <<saving, lamp>>
            BY <2>4 DEF Flush
        <3>2. CASE Attempt(o)
            BY <1>a, <3>1, <3>2
        <3>3. CASE LeaveFlush(o, issue = NoIssue)
            BY <1>k, <3>1, <3>3 DEF LeaveFlush
        <3>4. CASE tasks # <<>> /\ WaitForLast(o, "draining")
            <4>1. Len(tasks') = Len(tasks) /\ tasks' \in Seq(Task)
                BY <3>4, Waits DEF Steps
            <4>2. tasks' # <<>>
                BY <3>4, <4>1, EmptySeq DEF TypeOK
            <4> QED  BY <4>2 DEF SavingStep
        <3> QED  BY <2>4, <3>2, <3>3, <3>4 DEF Flush
    <2>5. ASSUME NEW o \in AllOps, FlushGoesOn(o)  PROVE SavingStep
        <3>1. UNCHANGED <<saving, lamp>>
            BY <2>5 DEF FlushGoesOn
        <3>2. CASE Attempt(o)
            BY <1>a, <3>1, <3>2
        <3>3. CASE UNCHANGED tasks
            BY <1>k, <3>1, <3>3
        <3> QED  BY <2>5, <3>2, <3>3 DEF FlushGoesOn, LeaveFlush
    <2> QED  BY <1>2, <2>1, <2>2, <2>3, <2>4, <2>5 DEF Continuation
<1>3. CASE Backend
    <2>1. CASE CreateExecuted \/ DeleteExecuted \/ RenameExecuted \/ WatchReads
               \/ JobReads("select") \/ JobReads("reload")
        BY <1>k, <2>1 DEF CreateExecuted, DeleteExecuted, RenameExecuted, WatchReads, JobReads
    <2>2. CASE SaveExecuted
        <3>1. tasks # <<>> /\ tasks[1].stage = "calling"
            BY <2>2, AtHead, CallerNames DEF SaveExecuted, Sent
        <3>2. tasks' # <<>>
            <4>1. PICK s, a : tasks' = [tasks EXCEPT ![1].status = s, ![1].actual = a]
                BY <2>2 DEF SaveExecuted, Answer
            <4>2. tasks' = [tasks EXCEPT ![1] = [tasks[1] EXCEPT !.status = s, !.actual = a]]
                BY <3>1, <4>1, HeadTask DEF TypeOK
            <4>3. 1 \in 1..Len(tasks) /\ tasks \in Seq(Task) /\ Len(tasks) \in Nat
                BY <3>1, HeadTask, LenProperties DEF TypeOK
            <4>4. Len(tasks') = Len(tasks)
                BY <4>2, <4>3
            <4> QED  BY <4>3, <4>4
        <3> QED  BY <3>2 DEF SavingStep
    <2> QED  BY <1>3, <2>1, <2>2 DEF Backend
<1>4. CASE SaveEvent
    <2> DEFINE t == tasks[1]
    <2>1. tasks # <<>> /\ t \in Task /\ 1 \in 1..Len(tasks) /\ tasks \in Seq(Task)
        BY <1>4, AtHead, CallerNames, HeadTask
        DEF SaveEvent, SaveAnswered, Indexed, Settled, Replied, TypeOK
    <2>2. t.stage # "queued"
        BY <1>4, AtHead, CallerNames DEF SaveEvent, SaveAnswered, Indexed, Settled, Replied
    <2>3. ASSUME ~t.mine  PROVE SavingStep
        BY <2>1, <2>2, <2>3 DEF SavingStep
    <2>4. ASSUME NEW slow \in BOOLEAN, t.mine, SwitchOff(t.mine, slow)  PROVE SavingStep
        BY <2>4 DEF SwitchOff, SavingStep
    <2>5. ASSUME NEW st \in {"indexing", "settling"}, tasks' = [tasks EXCEPT ![1].stage = st]
          PROVE  SavingStep
        <3>1. tasks' = [tasks EXCEPT ![1] = [tasks[1] EXCEPT !.stage = st]]
            BY <2>1, <2>5
        <3>2. [tasks[1] EXCEPT !.stage = st] \in Task
            BY <2>1 DEF Task
        <3>3. tasks' # <<>>
            BY <2>1, <3>1, <3>2, ChainStays
        <3> QED  BY <3>3 DEF SavingStep
    <2>6. CASE SaveAnswered
        BY <2>3, <2>4, <2>5, <2>6 DEF SaveAnswered, SaveConflict, SaveFailed, SaveDone
    <2>7. CASE Indexed \/ Settled
        BY <2>3, <2>4, <2>5, <2>7 DEF Indexed, Settled
    <2> QED  BY <1>4, <2>6, <2>7 DEF SaveEvent
<1>5. CASE OperationEvent
    <2>1. CASE SelectStat \/ SelectDone \/ CreateAnswered \/ RenameAnswered
               \/ \E o \in AllOps : CloseWindow(o)
        BY <1>k, <2>1 DEF SelectStat, SelectDone, CreateAnswered, RenameAnswered, CloseWindow
    <2>2. CASE SelectAnswered \/ CreateListed \/ DeleteAnswered \/ ReloadAnswered
        BY <1>k, <1>o, <1>c, <2>2
        DEF SelectAnswered, CreateListed, EnterCreated, DeleteAnswered,
                    ReloadAnswered, AdoptReloaded
    <2> QED  BY <1>5, <2>1, <2>2 DEF OperationEvent
<1>6. CASE WatchEvent
    BY <1>k, <1>o, <1>c, <1>6
    DEF WatchEvent, WatchFlush, WatchListed, WatchAnswered, WatchMisses, WatchAdopts
<1>7. CASE LampOff \/ UNCHANGED vars \/ \E n \in scene.notes : Outside(n)
    BY <1>k, <1>7 DEF LampOff, vars, Outside
<1>8. CASE TimerFires
    <2>1. timer.path \in Notes /\ timer.text \in Contents /\ ("timer" \in current) \in BOOLEAN
          /\ {} \in SUBSET AllOps
        BY <1>8 DEF TimerFires, TypeOK
    <2>2. tasks' = Append(tasks,
                      NewTask(timer.path, timer.text, "timer" \in current, Baseline, {}))
        BY <1>8 DEF TimerFires
    <2> QED  BY <1>n, <2>1, <2>2
<1> QED  BY <1>1, <1>2, <1>3, <1>4, <1>5, <1>6, <1>7, <1>8 DEF Next

\* The indicator goes on only with its cause.
LEMMA CauseGoesOn ==
    IInv /\ OwnedInv /\ [Next]_vars =>
        (({"delete", "rename"} \cap scene.ops = {} => SavingHasACause)
            => ({"delete", "rename"} \cap scene.ops = {} => SavingHasACause)')
<1> SUFFICES ASSUME IInv, OwnedInv, [Next]_vars, {"delete", "rename"} \cap scene.ops = {},
                    SavingHasACause
             PROVE  SavingHasACause'
    BY ControlGoesOn DEF IInv
<1>1. SavingStep
    BY SavingSteps DEF IInv
<1>2. tasks # <<>> /\ tasks[1].stage # "queued" => tasks[1].mine
    BY HeadTask DEF OwnedInv, IInv, Base
<1> QED  BY <1>1, <1>2 DEF SavingStep, SavingHasACause

\* "Saving" is shown only while a save runs or its switch-off is scheduled
\* (isSaving, savingTimer).  A delete or a rename that takes the save state from
\* a running save may leave the indicator on.
THEOREM SavingIsShownForACause ==
    Spec => []({"delete", "rename"} \cap scene.ops = {} => SavingHasACause)
<1>1. Init => OwnedInv /\ ({"delete", "rename"} \cap scene.ops = {} => SavingHasACause)
    BY DEF Init, OwnedInv, SavingHasACause
<1> QED  BY <1>1, OwnedGoesOn, CauseGoesOn, Invariance, PTL DEF Spec

-----------------------------------------------------------------------------
(***************************************************************************)
(* The versions the user knows of                                          *)
(***************************************************************************)

\* The operations under which a note is open under one name, or none is.
KnownOps == {"delete", "retry", "overwrite", "reload", "close"}

\* The page knows its baseline, and a save what it will replace.
KnowingInv ==
    scene.ops \subseteq KnownOps =>
        /\ open # NoNote => baseline \in known[open]
        /\ \A i \in 1..Len(tasks) :
              /\ tasks[i].stage = "queued" =>
                    \/ tasks[i].path = NoNote \/ tasks[i].expected = Baseline
                    \/ tasks[i].expected \in known[tasks[i].path]
              /\ tasks[i].stage # "queued" =>
                    /\ tasks[i].path = open \/ open = NoNote
                    /\ tasks[i].expected \in known[tasks[i].path]
                    /\ tasks[i].status = "saved" => tasks[i].actual \in known[tasks[i].path]

\* What a step may do to the known versions, the open note and its baseline.
KnowingStep ==
    /\ \A n \in Notes : known[n] \subseteq known'[n]
    /\ open' = open \/ open' = NoNote
    /\ open' # NoNote =>
          \/ baseline' = baseline
          \/ baseline' \in known'[open']
          \/ /\ tasks # <<>> /\ tasks[1].stage = "calling" /\ tasks[1].status = "saved"
             /\ baseline' = tasks[1].actual
    /\ AskOverwrite => issue.path = NoNote \/ issue.actual \in known'[issue.path]

\* Every step is a KnowingStep while the open note keeps its name.
LEMMA KnowingSteps ==
    ASSUME Base, scene.ops \subseteq KnownOps, [Next]_vars
    PROVE  KnowingStep
<1> USE DEF Base
<1>o. /\ {"select", "create", "rename"} \cap scene.ops = {}
      /\ {"select", "create", "rename"} \subseteq AllOps
      /\ {"select", "create", "rename"} \subseteq Callers
    BY DEF KnownOps, AllOps, Callers
<1>i. \A o \in {"select", "create", "rename"} : jobs[o].stage = "idle"
    BY <1>o DEF JobInv
<1>t. known \in [Notes -> SUBSET Revisions] /\ open \in Notes \cup {NoNote}
    BY DEF TypeOK
<1>k. ASSUME UNCHANGED <<known, open, baseline>>, ~AskOverwrite  PROVE KnowingStep
    BY <1>k DEF KnowingStep
<1>s. ASSUME NEW p \in {open, NoNote}, NEW c, NEW b \in Revisions, NEW consent,
             Show(p, c, b, consent),
             ~AskOverwrite
      PROVE  KnowingStep
    <2>1. CASE p = NoNote
        BY <1>s, <2>1 DEF Show, KnowingStep
    <2>2. CASE p # NoNote
        <3>1. p \in Notes /\ p = open /\ known' = [known EXCEPT ![p] = known[p] \cup {b}]
            BY <1>s, <1>t, <2>2 DEF Show
        <3>2. \A n \in Notes : known[n] \subseteq known'[n]
            BY <1>t, <3>1
        <3>3. b \in known'[p] /\ baseline' = b /\ open' = p
            BY <1>s, <1>t, <3>1 DEF Show
        <3> QED  BY <1>s, <3>1, <3>2, <3>3 DEF KnowingStep
    <2> QED  BY <2>1, <2>2
<1>0. Missing \in Revisions /\ watch \in Watch /\ jobs["reload"] \in Job
    BY DEF Revisions, TypeOK, AllOps
<1>a. AskOverwrite => /\ issue.path \in Notes
                      /\ known' = IF issue.path = NoNote THEN known
                                  ELSE [known EXCEPT ![issue.path] = @ \cup {issue.actual}]
                      /\ UNCHANGED <<open, baseline, alive, calls, answers>>
                      /\ dialog # "hidden" /\ timer' = NoTimer /\ dirty' = TRUE
    BY DEF AskOverwrite, RequestInv, Paused
<1>1. CASE AskOverwrite
    BY <1>1, <1>a, <1>t DEF KnowingStep
<1> SUFFICES ASSUME ~AskOverwrite  PROVE KnowingStep
    BY <1>1
<1>2. CASE User
    <2>1. CASE \E c \in Contents : Type(c)
        BY <1>k, <2>1 DEF Type
    <2>2. CASE CancelDialog \/ AskRetry \/ AskReload \/ AskClose \/ Discard
        BY <1>k, <2>2 DEF CancelDialog, AskRetry, AskReload, AskClose, Discard
    <2>3. CASE \E n \in scene.notes : AskSelect(n) \/ AskCreate(n) \/ AskDelete(n)
                  \/ \E m \in scene.notes : AskRename(n, m)
        BY <1>k, <2>3 DEF AskSelect, AskCreate, AskDelete, AskRename
    <2> QED  BY <1>2, <2>1, <2>2, <2>3 DEF User
<1>3. CASE Continuation
    BY <1>k, <1>3 DEF Continuation, StartTask, Flush, FlushGoesOn, StartSelect, SelectFlushed,
       CreateFlushed, CloseFlushed, Flushed, RetryDone, OverwriteDone
<1>4. CASE Backend
    <2>1. CASE DeleteExecuted \/ WatchReads \/ JobReads("select") \/ JobReads("reload")
        BY <1>k, <2>1 DEF DeleteExecuted, WatchReads, JobReads
    <2>2. CASE CreateExecuted \/ RenameExecuted
        BY <1>i, <1>o, <2>2, AtHead DEF CreateExecuted, RenameExecuted, Sent
    <2>3. CASE SaveExecuted
        <3>1. tasks # <<>> /\ tasks[1].path \in Notes /\ UNCHANGED <<open, baseline>>
            BY <2>3, AtHead, CallerNames, HeadTask DEF SaveExecuted, Sent, TaskInv
        <3>2. CASE UNCHANGED known
            BY <1>k, <3>1, <3>2
        <3>3. CASE WriteNote(tasks[1])
            <4>1. known' = [known EXCEPT ![tasks[1].path] =
                            known[tasks[1].path] \cup {tasks[1].text}]
                BY <1>t, <3>1, <3>3 DEF WriteNote
            <4>2. \A n \in Notes : known[n] \subseteq known'[n]
                BY <1>t, <3>1, <4>1
            <4> QED  BY <3>1, <4>2 DEF KnowingStep
        <3> QED  BY <2>3, <3>2, <3>3 DEF SaveExecuted
    <2> QED  BY <1>4, <2>1, <2>2, <2>3 DEF Backend
<1>5. CASE SaveEvent
    <2>1. CASE SaveAnswered
        <3>1. tasks # <<>> /\ tasks[1].stage = "calling" /\ UNCHANGED <<known, open>>
            BY <2>1, AtHead, CallerNames DEF SaveAnswered, Replied
        <3>2. CASE UNCHANGED baseline
            BY <1>k, <3>1, <3>2
        <3>3. CASE tasks[1].status = "saved" /\ baseline' = tasks[1].actual
            BY <3>1, <3>3 DEF KnowingStep
        <3> QED  BY <2>1, <3>2, <3>3 DEF SaveAnswered, SaveConflict, SaveFailed, SaveDone
    <2>2. CASE Indexed \/ Settled
        BY <1>k, <2>2 DEF Indexed, Settled
    <2> QED  BY <1>5, <2>1, <2>2 DEF SaveEvent
<1>6. CASE OperationEvent
    <2>1. CASE SelectStat \/ SelectDone \/ CreateAnswered \/ \E o \in AllOps : CloseWindow(o)
        BY <1>k, <2>1 DEF SelectStat, SelectDone, CreateAnswered, CloseWindow
    <2>2. CASE SelectAnswered \/ CreateListed \/ RenameAnswered
        BY <1>i, <1>o, <2>2, AtHead DEF SelectAnswered, CreateListed, RenameAnswered, Replied
    <2>3. CASE DeleteAnswered
        BY <1>0, <1>k, <1>s, <2>3 DEF DeleteAnswered, ClearActiveNoteState
    <2>4. CASE ReloadAnswered
        <3>1. jobs["reload"].snap \in Revisions
            BY <1>0 DEF Job
        <3> QED  BY <1>k, <1>s, <2>4, <3>1 DEF ReloadAnswered, AdoptReloaded
    <2> QED  BY <1>6, <2>1, <2>2, <2>3, <2>4 DEF OperationEvent
<1>7. CASE WatchEvent
    <2>1. watch.snap \in Revisions
        BY <1>0 DEF Watch
    <2>2. CASE WatchFlush \/ WatchListed
        BY <1>k, <2>2 DEF WatchFlush, WatchListed
    <2>3. CASE WatchAnswered
        BY <1>0, <1>k, <1>s, <2>1, <2>3
        DEF WatchAnswered, WatchMisses, WatchAdopts, ClearActiveNoteState
    <2> QED  BY <1>7, <2>2, <2>3 DEF WatchEvent
<1>8. CASE LampOff \/ TimerFires \/ UNCHANGED vars \/ \E n \in scene.notes : Outside(n)
    BY <1>k, <1>8 DEF LampOff, TimerFires, vars, Outside
<1> QED  BY <1>2, <1>3, <1>4, <1>5, <1>6, <1>7, <1>8 DEF Next

\* Every step keeps KnowingInv.
LEMMA KnowingGoesOn == IInv /\ KnowingInv /\ [Next]_vars => KnowingInv'
<1> SUFFICES ASSUME IInv, KnowingInv, [Next]_vars, scene.ops \subseteq KnownOps
             PROVE  /\ open' # NoNote => baseline' \in known'[open']
                    /\ \A i \in 1..Len(tasks') :
                          /\ tasks'[i].stage = "queued" =>
                                \/ tasks'[i].path = NoNote \/ tasks'[i].expected = Baseline
                                \/ tasks'[i].expected \in known'[tasks'[i].path]
                          /\ tasks'[i].stage # "queued" =>
                                /\ tasks'[i].path = open' \/ open' = NoNote
                                /\ tasks'[i].expected \in known'[tasks'[i].path]
                                /\ tasks'[i].status = "saved" =>
                                       tasks'[i].actual \in known'[tasks'[i].path]
    BY ControlGoesOn DEF KnowingInv, IInv
<1> USE DEF IInv
<1>1. KnowingStep
    BY KnowingSteps
<1>0. /\ open # NoNote => baseline \in known[open] /\ open \in Notes
      /\ known' \in [Notes -> SUBSET Revisions]
      /\ \A n \in Notes : \A r : r \in known[n] => r \in known'[n]
    BY <1>1, TypesGoOn DEF KnowingInv, KnowingStep, Base, TypeOK
<1>2. ASSUME open' # NoNote  PROVE baseline' \in known'[open']
    <2>1. open' = open /\ open \in Notes /\ baseline \in known'[open]
        BY <1>0, <1>1, <1>2 DEF KnowingStep
    <2>2. CASE /\ tasks # <<>> /\ tasks[1].stage = "calling" /\ tasks[1].status = "saved"
               /\ baseline' = tasks[1].actual
        <3>1. 1 \in 1..Len(tasks)
            BY <2>2, HeadTask DEF Base
        <3>2. tasks[1].path = open /\ tasks[1].actual \in known[open]
            BY <1>2, <2>1, <2>2, <3>1 DEF KnowingInv
        <3> QED  BY <1>0, <2>1, <2>2, <3>2
    <2> QED  BY <1>1, <1>2, <2>1, <2>2 DEF KnowingStep
<1>3. ASSUME NEW i \in 1..Len(tasks')
      PROVE  /\ tasks'[i].stage = "queued" =>
                    \/ tasks'[i].path = NoNote \/ tasks'[i].expected = Baseline
                    \/ tasks'[i].expected \in known'[tasks'[i].path]
             /\ tasks'[i].stage # "queued" =>
                    /\ tasks'[i].path = open' \/ open' = NoNote
                    /\ tasks'[i].expected \in known'[tasks'[i].path]
                    /\ tasks'[i].status = "saved" =>
                           tasks'[i].actual \in known'[tasks'[i].path]
    <2>1. Origin(i)
        BY TasksGoOn DEF Origins
    <2>p. \A j \in 1..Len(tasks) : tasks[j].path \in Notes
        BY DEF Base, TaskInv
    <2>2. CASE New(tasks'[i])
        BY <1>1, <2>2 DEF New, KnowingStep
    <2>3. ASSUME NEW j \in 1..Len(tasks), Same(tasks[j], tasks'[i]), Kept(tasks[j], tasks'[i])
          PROVE  /\ tasks'[i].stage = "queued" =>
                        \/ tasks'[i].path = NoNote \/ tasks'[i].expected = Baseline
                        \/ tasks'[i].expected \in known'[tasks'[i].path]
                 /\ tasks'[i].stage # "queued" =>
                        /\ tasks'[i].path = open' \/ open' = NoNote
                        /\ tasks'[i].expected \in known'[tasks'[i].path]
                        /\ tasks'[i].status = "saved" =>
                               tasks'[i].actual \in known'[tasks'[i].path]
        <3>1. /\ tasks'[i].path = tasks[j].path /\ tasks'[i].stage = tasks[j].stage
              /\ tasks'[i].expected = tasks[j].expected /\ tasks'[i].status = tasks[j].status
              /\ tasks'[i].actual = tasks[j].actual
            BY <2>3 DEF Same, Kept
        <3> QED  BY <1>0, <1>1, <2>p, <3>1 DEF KnowingInv, KnowingStep
    <2>4. ASSUME i = 1, 1 \in 1..Len(tasks), Same(tasks[1], tasks'[1]),
                 Started(tasks[1], tasks'[1])
          PROVE  /\ tasks'[1].stage # "queued" /\ tasks'[1].status # "saved"
                 /\ tasks'[1].path = open' \/ open' = NoNote
                 /\ tasks'[1].expected \in known'[tasks'[1].path]
        <3>1. tasks[1].path = open /\ open # NoNote /\ tasks'[1].path = open
            BY <2>4 DEF Same, Started
        <3>2. tasks[1].expected = Baseline \/ tasks[1].expected \in known[open]
            BY <2>4, <3>1 DEF Started, KnowingInv
        <3>3. tasks'[1].expected \in known[open]
            BY <1>0, <2>4, <3>1, <3>2 DEF Started
        <3> QED  BY <1>0, <1>1, <2>4, <3>1, <3>3 DEF Started, KnowingStep
    <2>5. ASSUME i = 1, 1 \in 1..Len(tasks), Same(tasks[1], tasks'[1]),
                 Written(tasks[1], tasks'[1]) \/ Advanced(tasks[1], tasks'[1])
          PROVE  /\ tasks'[1].stage # "queued"
                 /\ tasks'[1].path = open' \/ open' = NoNote
                 /\ tasks'[1].expected \in known'[tasks'[1].path]
                 /\ tasks'[1].status = "saved" => tasks'[1].actual \in known'[tasks'[1].path]
        <3>1. /\ tasks'[1].path = tasks[1].path /\ tasks'[1].expected = tasks[1].expected
              /\ tasks[1].stage # "queued" /\ tasks'[1].stage # "queued"
              /\ tasks'[1].text = tasks[1].text
            BY <2>5 DEF Same, Written, Advanced
        <3>2. /\ tasks[1].path = open \/ open = NoNote
              /\ tasks[1].expected \in known[tasks[1].path]
              /\ tasks[1].status = "saved" => tasks[1].actual \in known[tasks[1].path]
            BY <2>5, <3>1 DEF KnowingInv
        <3>3. tasks'[1].status = "saved" => tasks'[1].actual \in known'[tasks'[1].path]
            <4>1. CASE Written(tasks[1], tasks'[1])
                <5>1. tasks'[1].status = "saved" =>
                          known' = [known EXCEPT ![tasks[1].path] =
                                    known[tasks[1].path] \cup {tasks[1].text}]
                    BY <2>5, <2>p, <4>1 DEF Written, WriteNote, Base, TypeOK
                <5> QED  BY <1>0, <2>5, <2>p, <3>1, <4>1, <5>1 DEF Written, Base, TypeOK
            <4>2. CASE Advanced(tasks[1], tasks'[1])
                BY <1>0, <2>5, <2>p, <3>1, <3>2, <4>2 DEF Advanced
            <4> QED  BY <2>5, <4>1, <4>2
        <3>4. tasks'[1].path = open' \/ open' = NoNote
            BY <1>1, <3>1, <3>2 DEF KnowingStep
        <3>5. tasks'[1].expected \in known'[tasks'[1].path]
            BY <1>0, <2>5, <2>p, <3>1, <3>2
        <3> QED  BY <3>1, <3>3, <3>4, <3>5
    <2> QED  BY <2>1, <2>2, <2>3, <2>4, <2>5 DEF Origin
<1> QED  BY <1>2, <1>3

\* Only a save runs the command of a save.
LEMMA TakesEffect ==
    ASSUME TypeOK, CallInv, [Next]_vars, SaveTakesEffect
    PROVE  /\ SaveExecuted /\ tasks # <<>> /\ tasks[1].stage = "calling"
           /\ disk[tasks[1].path] = tasks[1].expected
<1>1. /\ calls # <<>> /\ Head(calls) = "save" /\ calls' = Tail(calls) /\ disk' # disk
      /\ answers' = Append(answers, "save")
    BY DEF SaveTakesEffect, Executed
<1>2. calls \in Seq(Callers) /\ calls' # calls
    BY <1>1, HeadTailProperties, EmptySeq, LenProperties DEF TypeOK
<1>3. SaveExecuted
    <2>1. ~User
        BY <1>1
        DEF User, Type, CancelDialog, AskSelect, AskCreate, AskDelete, AskRename, AskRetry,
           AskOverwrite, AskReload, AskClose, Discard
    <2>2. ~Continuation
        BY <1>1 DEF Continuation, StartTask, Flush, FlushGoesOn, StartSelect, SelectFlushed,
           CreateFlushed, CloseFlushed, Flushed, RetryDone, OverwriteDone
    <2>3. Backend => SaveExecuted
        BY <1>1
        DEF Backend, CreateExecuted, DeleteExecuted, RenameExecuted, WatchReads, JobReads,
           Executed
    <2>4. ~SaveEvent /\ ~WatchEvent
        BY <1>1
        DEF SaveEvent, WatchEvent, SaveAnswered, Indexed, Settled, WatchFlush, WatchListed,
           WatchAnswered
    <2>5. ~OperationEvent
        BY <1>1 DEF OperationEvent, SelectStat, SelectAnswered, SelectDone, CreateAnswered,
           CreateListed, DeleteAnswered, RenameAnswered, ReloadAnswered, CloseWindow
    <2>6. ~LampOff /\ ~TimerFires /\ ~UNCHANGED vars /\ ~\E n \in scene.notes : Outside(n)
        BY <1>1, <1>2 DEF LampOff, TimerFires, vars, Outside
    <2> QED  BY <2>1, <2>2, <2>3, <2>4, <2>5, <2>6 DEF Next
<1>4. tasks # <<>> /\ tasks[1].stage = "calling"
    BY <1>3, AtHead, CallerNames DEF SaveExecuted, Sent
<1>5. disk[tasks[1].path] = tasks[1].expected
    BY <1>1, <1>3 DEF SaveExecuted
<1> QED  BY <1>3, <1>4, <1>5

\* A save replaces only a version that was opened, saved or shown before (the
\* expected revision of saveFile), while the open note keeps its name: also with
\* other programs writing, failing saves and changes followed at the same time.
THEOREM KnownVersionsAreReplaced ==
    Spec /\ [](scene.ops \subseteq KnownOps) => NoBlindOverwrite
<1>1. Init => KnowingInv
    <2> SUFFICES ASSUME Init  PROVE KnowingInv
        OBVIOUS
    <2>1. PICK n \in scene.notes : open = n /\ baseline = disk[n]
              /\ known = [m \in Notes |-> IF m = n THEN {disk[n]} ELSE {}]
        BY DEF Init
    <2>2. n \in Notes
        BY <2>1, ScenesAssumption DEF Init, Scene
    <2>3. baseline \in known[open]
        BY <2>1, <2>2
    <2> QED  BY <2>3 DEF Init, KnowingInv
<1>2. IInv /\ KnowingInv /\ scene.ops \subseteq KnownOps /\ [Next]_vars =>
          [SaveTakesEffect => LET n == tasks[1].path IN disk[n] \in known[n]]_vars
    <2> SUFFICES ASSUME IInv, KnowingInv, scene.ops \subseteq KnownOps, [Next]_vars,
                        SaveTakesEffect
                 PROVE  disk[tasks[1].path] \in known[tasks[1].path]
        OBVIOUS
    <2>1. tasks # <<>> /\ tasks[1].stage = "calling" /\ disk[tasks[1].path] = tasks[1].expected
        BY TakesEffect DEF IInv, Base
    <2>2. 1 \in 1..Len(tasks)
        BY <2>1, HeadTask DEF IInv, Base
    <2> QED  BY <2>1, <2>2 DEF KnowingInv
<1> QED  BY <1>1, <1>2, KnowingGoesOn, Invariance, PTL DEF Spec, NoBlindOverwrite

-----------------------------------------------------------------------------
(***************************************************************************)
(* The open note                                                           *)
(***************************************************************************)

\* The timer and the issue are about the open note, a clean page shows what
\* its next save will expect to replace.
OpenNoteInv ==
    /\ timer # NoTimer => "timer" \in current /\ timer.path = open /\ open # NoNote
    /\ issue # NoIssue => issue.path = open /\ open # NoNote
    /\ ~dirty /\ open # NoNote => text = baseline

\* The saves of the chain are of the open note; the outdated ones come first.
ChainInv ==
    /\ \A i \in 1..Len(tasks) :
          /\ tasks[i].path = open /\ open # NoNote
          /\ tasks[i].mine = (tasks[i].stage # "queued")
          /\ ~dirty => tasks[i].fresh
          /\ i = 1 /\ tasks[i].fresh /\ tasks[i].stage \in {"indexing", "settling"} =>
                 baseline = text
    /\ \A i, j \in 1..Len(tasks) : i < j /\ tasks[i].fresh => tasks[j].fresh

\* The text is replaced only while no save is on its way, and by operations
\* that leave the note its name.
Steady ==
    /\ {"delete", "rename", "reload"} \cap scene.ops = {}
    /\ scene.watching => scene.ops = {}
    /\ watch.stage # "idle" /\ ~dirty => tasks = <<>> /\ timer = NoTimer
    /\ jobs["select"].stage \in {"stat", "read"} \/ jobs["create"].stage = "listing" =>
           tasks = <<>> /\ timer = NoTimer /\ ~dirty /\ issue = NoIssue
    /\ jobs["retry"].stage # "idle" => open # NoNote

\* What a step does to the open note.
NoteStep ==
    /\ open' # open =>
          /\ tasks = <<>> /\ tasks' = <<>> /\ timer' = NoTimer /\ ~dirty'
          /\ open' = NoNote \/ text' = baseline'
          /\ watch.stage # "idle" \/ Replacing
    /\ timer' # NoTimer =>
          \/ timer' = timer /\ open' = open /\ ("timer" \in current => "timer" \in current')
          \/ /\ "timer" \in current' /\ timer'.path = open' /\ open' # NoNote
             /\ dirty' /\ \A i \in 1..Len(tasks') : ~tasks'[i].fresh
    /\ ~dirty' => \/ ~dirty
                  \/ /\ tasks # <<>> /\ tasks[1].stage = "settling" /\ tasks[1].fresh
                     /\ tasks' = Tail(tasks) /\ UNCHANGED <<open, text, baseline, timer>>
    /\ \/ UNCHANGED <<text, baseline>>
       \/ dirty' /\ baseline' = baseline /\ \A i \in 1..Len(tasks') : ~tasks'[i].fresh
       \/ /\ tasks # <<>> /\ tasks[1].stage = "calling" /\ tasks[1].status = "saved"
          /\ text' = text /\ dirty' = dirty /\ baseline' = tasks[1].actual
       \/ tasks = <<>> /\ tasks' = <<>> /\ (open' = NoNote \/ text' = baseline')
    /\ issue' # NoIssue => \/ issue' = issue /\ open' = open
                           \/ issue'.path = open' /\ open' # NoNote

\* Every step is a NoteStep while the saves are left in peace.
LEMMA NoteSteps ==
    ASSUME Base, Steady, OpenNoteInv, ChainInv, [Next]_vars
    PROVE  NoteStep
<1> USE DEF Base
<1> DEFINE Others == {"delete", "rename", "reload"}
<1>o. Others \cap scene.ops = {} /\ Others \subseteq AllOps /\ Others \subseteq Callers
    BY DEF Steady, AllOps, Callers
<1>i. \A o \in Others : jobs[o].stage = "idle"
    BY <1>o DEF JobInv
<1>k. ASSUME UNCHANGED <<open, text, baseline>>, dirty' = dirty \/ dirty' = TRUE,
             timer' = NoTimer
                    \/ (timer' = timer /\ ("timer" \in current => "timer" \in current')),
             issue' = issue \/ issue' = NoIssue \/ (issue'.path = open /\ open # NoNote)
      PROVE  NoteStep
    BY <1>k DEF NoteStep
<1>h. tasks # <<>> => /\ tasks[1].path = open /\ open # NoNote /\ 1 \in 1..Len(tasks)
    BY HeadTask DEF ChainInv
<1>s. ASSUME tasks = <<>>, timer = NoTimer, tasks' = Outdated(tasks), NEW p, NEW c, NEW b,
             Show(p, c, b, FALSE), p = NoNote \/ c = b, timer' = timer, ~dirty, ~dirty',
             issue' = NoIssue, watch.stage # "idle" \/ Replacing
      PROVE  NoteStep
    <2>1. SameChain(tasks, tasks')
        BY <1>s, OutdatedTasks DEF TypeOK
    <2>2. tasks' = <<>>
        BY <1>s, <2>1, EmptySeq DEF SameChain
    <2>3. open' = p /\ text' = c /\ baseline' = b
        BY <1>s DEF Show
    <2> QED  BY <1>s, <2>2, <2>3 DEF NoteStep
<1>a. \A o \in AllOps : o # "timer"
    BY DEF AllOps
<1>1. CASE User
    <2>1. ASSUME NEW c \in Contents, Type(c)  PROVE NoteStep
        <3>1. \A i \in 1..Len(tasks') : ~tasks'[i].fresh
            BY <2>1, OutdatedAll DEF Type
        <3>2. /\ open # NoNote /\ UNCHANGED <<open, baseline>> /\ dirty'
              /\ issue' = issue \/ issue' = NoIssue
            BY <2>1 DEF Type, ClearSaveIssue, Report
        <3>3. timer' = NoTimer \/ (timer'.path = open /\ "timer" \in current')
            BY <2>1 DEF Type
        <3> QED  BY <3>1, <3>2, <3>3 DEF NoteStep
    <2>2. CASE CancelDialog \/ AskClose \/ Discard
                  \/ \E n \in scene.notes : AskSelect(n) \/ AskCreate(n)
        BY <1>k, <2>2 DEF CancelDialog, AskClose, Discard, AskSelect, AskCreate
    <2>3. CASE AskReload \/ \E n \in scene.notes : AskDelete(n)
                  \/ \E m \in scene.notes : AskRename(n, m)
        BY <1>o, <2>3 DEF AskReload, AskDelete, AskRename, UserMay
    <2>4. CASE AskRetry
        BY <1>k, <2>4 DEF AskRetry
    <2>5. CASE AskOverwrite
        BY <1>k, <2>5 DEF AskOverwrite
    <2> QED  BY <1>1, <2>1, <2>2, <2>3, <2>4, <2>5 DEF User
<1>2. CASE Continuation
    <2>1. CASE StartTask
        BY <1>h, <1>k, <2>1 DEF StartTask, HeadQueued
    <2>2. CASE Flushed("delete") \/ Flushed("rename")
        BY <1>i, <2>2 DEF Flushed, Prompted, Prompt
    <2>3. CASE StartSelect \/ SelectFlushed \/ CreateFlushed \/ CloseFlushed \/ OverwriteDone
        BY <1>k, <2>3 DEF StartSelect, SelectFlushed, CreateFlushed, CloseFlushed, OverwriteDone
    <2>4. CASE RetryDone
        <3>1. open # NoNote
            BY <2>4 DEF RetryDone, Prompted, Prompt, Steady
        <3>2. IoIssue(open).path = open
            BY DEF IoIssue
        <3> QED  BY <1>k, <2>4, <3>1, <3>2 DEF RetryDone, Report
    <2>5. ASSUME NEW o \in AllOps, Flush(o) \/ FlushGoesOn(o)  PROVE NoteStep
        <3>1. current' = current \/ current' = current \cup {o} \/ current' = current \ {o}
            BY <2>5 DEF Flush, FlushGoesOn, Attempt, PushTask, LeaveFlush
        <3>2. /\ UNCHANGED <<open, text, baseline, dirty, issue>>
              /\ timer' = timer \/ timer' = NoTimer
            BY <2>5 DEF Flush, FlushGoesOn
        <3> QED  BY <1>a, <1>k, <3>1, <3>2
    <2> QED  BY <1>2, <2>1, <2>2, <2>3, <2>4, <2>5 DEF Continuation
<1>3. CASE Backend
    <2>1. CASE DeleteExecuted \/ RenameExecuted \/ JobReads("reload")
        BY <1>i, <1>o, <2>1, AtHead DEF DeleteExecuted, RenameExecuted, JobReads, Sent
    <2>2. CASE CreateExecuted \/ WatchReads \/ JobReads("select")
        BY <1>k, <2>2 DEF CreateExecuted, WatchReads, JobReads
    <2>3. CASE SaveExecuted
        BY <1>k, <2>3 DEF SaveExecuted
    <2> QED  BY <1>3, <2>1, <2>2, <2>3 DEF Backend
<1>4. CASE SaveEvent
    <2> DEFINE t == tasks[1]
    <2>0. tasks # <<>> /\ (SaveAnswered => t.stage = "calling")
        BY <1>4, AtHead, CallerNames DEF SaveEvent, SaveAnswered, Indexed, Settled, Replied
    <2>1. CASE SaveAnswered
        <3>0. UNCHANGED <<open, text, dirty, timer>>
            BY <2>1 DEF SaveAnswered
        <3>1. CASE SaveConflict(t)
            <4>1. DiskIssue(t.path, t.actual).path = open
                BY <1>h, <2>0 DEF DiskIssue
            <4> QED  BY <1>h, <1>k, <2>0, <3>0, <3>1, <4>1 DEF SaveConflict, Report
        <3>2. CASE SaveFailed(t)
            <4>1. IoIssue(t.path).path = open
                BY <1>h, <2>0 DEF IoIssue
            <4> QED  BY <1>h, <1>k, <2>0, <3>0, <3>2, <4>1 DEF SaveFailed, Report
        <3>3. CASE SaveDone(t)
            <4>1. /\ (t.status = "saved" /\ baseline' = t.actual) \/ baseline' = baseline
                  /\ issue' = NoIssue \/ issue' = issue
                  /\ "timer" \in current => "timer" \in current'
                BY <3>3 DEF SaveDone, ClearSaveIssue, Report
            <4>2. CASE baseline' = baseline
                BY <1>k, <3>0, <4>1, <4>2
            <4>3. CASE t.status = "saved" /\ baseline' = t.actual
                BY <2>0, <2>1, <3>0, <4>1, <4>3 DEF NoteStep
            <4> QED  BY <4>1, <4>2, <4>3
        <3> QED  BY <2>1, <3>1, <3>2, <3>3 DEF SaveAnswered
    <2>2. CASE Indexed
        BY <1>k, <2>2 DEF Indexed
    <2>3. CASE Settled
        <3>1. /\ UNCHANGED <<open, text, baseline, issue, timer, current>>
              /\ tasks' = Tail(tasks) /\ t.stage = "settling"
              /\ dirty' = (dirty /\ ~(t.mine /\ t.path = open /\ t.fresh))
            BY <2>3 DEF Settled, Finish
        <3>2. CASE t.mine /\ t.path = open /\ t.fresh
            BY <2>0, <3>1, <3>2 DEF NoteStep
        <3>3. CASE ~(t.mine /\ t.path = open /\ t.fresh)
            BY <3>1, <3>3 DEF NoteStep
        <3> QED  BY <3>2, <3>3
    <2> QED  BY <1>4, <2>1, <2>2, <2>3 DEF SaveEvent
<1>5. CASE OperationEvent
    <2>1. CASE DeleteAnswered \/ RenameAnswered \/ ReloadAnswered
        BY <1>i, <1>o, <2>1, AtHead DEF DeleteAnswered, RenameAnswered, ReloadAnswered, Replied
    <2>2. CASE SelectDone \/ CreateAnswered \/ \E o \in AllOps : CloseWindow(o)
        BY <1>k, <2>2 DEF SelectDone, CreateAnswered, CloseWindow
    <2>3. CASE SelectStat
        <3>1. ~dirty
            BY <2>3 DEF SelectStat, Steady
        <3>2. dirty' = FALSE \/ dirty' = dirty
            BY <2>3 DEF SelectStat
        <3>3. /\ UNCHANGED <<open, text, baseline, timer, current>>
              /\ issue' = issue \/ issue' = NoIssue
            BY <2>3 DEF SelectStat, ClearSaveIssue, Report
        <3> QED  BY <3>1, <3>2, <3>3 DEF NoteStep
    <2>4. CASE SelectAnswered
        <3>1. jobs["select"].stage = "read"
            BY <2>4, AtHead, CallerNames DEF SelectAnswered, Replied, AllOps
        <3>2. tasks = <<>> /\ timer = NoTimer /\ ~dirty /\ issue = NoIssue
            BY <3>1 DEF Steady
        <3>3. timer' = timer /\ Replacing
            BY <2>4, <3>1 DEF SelectAnswered, Replacing
        <3>4. CASE UNCHANGED <<pageVars, issue, pinned, tasks, saving, current, ghostVars>>
            BY <1>k, <3>3, <3>4
        <3>5. CASE ClearActiveNoteState(FALSE) /\ tasks' = Outdated(tasks)
            BY <1>s, <3>2, <3>3, <3>5 DEF ClearActiveNoteState, ClearSaveIssue, Report
        <3>6. CASE /\ tasks' = Outdated(tasks) /\ UNCHANGED <<dirty, issue>>
                   /\ Show(jobs["select"].path, jobs["select"].snap, jobs["select"].snap, FALSE)
            BY <1>s, <3>2, <3>3, <3>6
        <3> QED  BY <2>4, <3>4, <3>5, <3>6 DEF SelectAnswered
    <2>5. CASE CreateListed
        <3>1. jobs["create"].stage = "listing"
            BY <2>5 DEF CreateListed
        <3>2. tasks = <<>> /\ timer = NoTimer /\ ~dirty /\ issue = NoIssue
            BY <3>1 DEF Steady
        <3> QED  BY <1>k, <1>s, <2>5, <3>1, <3>2
                 DEF CreateListed, EnterCreated, ClearSaveIssue, Report, Replacing
    <2> QED  BY <1>5, <2>1, <2>2, <2>3, <2>4, <2>5 DEF OperationEvent
<1>6. CASE WatchEvent
    <2>1. CASE WatchFlush
        BY <1>k, <2>1 DEF WatchFlush
    <2>2. CASE WatchListed
        BY <1>k, <2>2 DEF WatchListed
    <2>3. CASE WatchAnswered
        <3>1. watch.stage = "read" /\ timer' = timer
            BY <2>3, AtHead, CallerNames DEF WatchAnswered, Replied
        <3>2. watch.path = open => open # NoNote
            BY <3>1 DEF RequestInv
        <3>3. ~dirty => tasks = <<>> /\ timer = NoTimer
            BY <3>1 DEF Steady
        <3>4. CASE StillWatched /\ watch.snap = Missing /\ WatchMisses
            <4>1. open # NoNote
                BY <3>2, <3>4 DEF StillWatched
            <4>2. IoIssue(open).path = open /\ DiskIssue(open, Missing).path = open
                BY DEF IoIssue, DiskIssue
            <4> QED  BY <1>k, <1>s, <3>1, <3>3, <3>4, <4>1, <4>2
                     DEF WatchMisses, ClearActiveNoteState, ClearSaveIssue, Report
        <3>5. CASE ~dirty /\ WatchAdopts
            BY <1>s, <3>1, <3>3, <3>5 DEF WatchAdopts, ClearSaveIssue, Report
        <3>6. CASE UNCHANGED <<pageVars, issueVars, current>>
            BY <1>k, <3>1, <3>6
        <3> QED  BY <2>3, <3>4, <3>5, <3>6 DEF WatchAnswered
    <2> QED  BY <1>6, <2>1, <2>2, <2>3 DEF WatchEvent
<1>7. CASE LampOff \/ TimerFires \/ UNCHANGED vars \/ \E n \in scene.notes : Outside(n)
    BY <1>k, <1>7 DEF LampOff, TimerFires, vars, Outside
<1> QED  BY <1>1, <1>2, <1>3, <1>4, <1>5, <1>6, <1>7 DEF Next

\* Without an operation that replaces it the text keeps its saves up to date.
LEMMA SavesKeepUp ==
    ASSUME Base, Steady, tasks # <<>>, NoteStep, ~dirty'
    PROVE  ~Replaced
<1>1. jobs["delete"].stage = "idle" /\ jobs["reload"].stage = "idle"
    BY DEF Base, JobInv, Steady, AllOps
<1>2. ~Replacing
    BY <1>1 DEF Replacing, Steady
<1>3. ~(~dirty /\ watch.stage # "idle")
    BY DEF Steady
<1> QED  BY <1>2, <1>3 DEF Replaced

\* A save that was in the chain, followed to its place in the new chain.
Follows(j, i) ==
    /\ j \in 1..Len(tasks)
    /\ j = i \/ (j = i + 1 /\ Len(tasks') = Len(tasks) - 1)
    /\ Same(tasks[j], tasks'[i])
    /\ \/ tasks'[i].mine = tasks[j].mine /\ tasks'[i].stage = tasks[j].stage
       \/ i = 1 /\ tasks'[i].stage # "queued" /\ tasks'[i].mine = TRUE

\* A save that joins the chain is of the open note and up to date.
Joins(i) ==
    /\ i = Len(tasks) + 1 /\ open' = open
    /\ tasks'[i].path = open /\ open # NoNote
    /\ tasks'[i].fresh /\ tasks'[i].stage = "queued" /\ tasks'[i].mine = FALSE
    /\ scene.watching => TimerFires

\* Every save of the new chain joins it or was in it.
LEMMA NoteOrigins ==
    ASSUME IInv, Steady, OpenNoteInv, ChainInv, [Next]_vars, NEW i \in 1..Len(tasks')
    PROVE  Joins(i) \/ \E j \in 1..Len(tasks) : Follows(j, i)
<1>1. Origin(i)
    BY TasksGoOn DEF IInv, Origins
<1>2. CASE New(tasks'[i]) /\ i = Len(tasks) + 1
    <2>1. scene.watching => scene.ops = {}
        BY DEF Steady
    <2>2. timer # NoTimer => "timer" \in current /\ timer.path = open /\ open # NoNote
        BY DEF OpenNoteInv
    <2>3. TimerFires => timer # NoTimer
        BY DEF TimerFires
    <2>4. AskOverwrite => "overwrite" \in scene.ops /\ issue # NoIssue
        BY DEF AskOverwrite, UserMay, Paused
    <2>5. issue # NoIssue => issue.path = open /\ open # NoNote
        BY DEF OpenNoteInv
    <2> QED  BY <1>2, <2>1, <2>2, <2>3, <2>4, <2>5 DEF New, Joins
<1>3. ASSUME NEW j \in 1..Len(tasks), j = i \/ (j = i + 1 /\ Len(tasks') = Len(tasks) - 1),
             Same(tasks[j], tasks'[i]), Kept(tasks[j], tasks'[i])
      PROVE  Follows(j, i)
    <2>1. "delete" \notin scene.ops /\ "rename" \notin scene.ops
        BY DEF Steady
    <2>2. tasks'[i].mine = tasks[j].mine /\ tasks'[i].stage = tasks[j].stage
        BY <1>3, <2>1 DEF Kept
    <2> QED  BY <1>3, <2>2 DEF Follows
<1>4. ASSUME i = 1, 1 \in 1..Len(tasks), Same(tasks[1], tasks'[1]),
             \/ Started(tasks[1], tasks'[1])
             \/ Written(tasks[1], tasks'[1])
             \/ Advanced(tasks[1], tasks'[1])
      PROVE  Follows(1, 1)
    <2>1. tasks[1].stage # "queued" => tasks[1].mine
        BY <1>4 DEF ChainInv
    <2>2. tasks'[1].stage # "queued" /\ tasks'[1].mine
        BY <1>4, <2>1 DEF Started, Written, Advanced
    <2>3. tasks'[1] \in Task
        BY TypesGoOn, ElementOfSeq DEF IInv, TypeOK
    <2>4. tasks'[1].mine = TRUE
        BY <2>2, <2>3 DEF Task
    <2> QED  BY <1>4, <2>2, <2>4 DEF Follows
<1> QED  BY <1>1, <1>2, <1>3, <1>4 DEF Origin

\* Every step keeps OpenNoteInv.
LEMMA NoteGoesOn ==
    ASSUME IInv, OpenNoteInv, ChainInv, NoteStep
    PROVE  OpenNoteInv'
<1>1. timer' # NoTimer => "timer" \in current' /\ timer'.path = open' /\ open' # NoNote
    BY DEF NoteStep, OpenNoteInv
<1>2. issue' # NoIssue => issue'.path = open' /\ open' # NoNote
    BY DEF NoteStep, OpenNoteInv
<1>3. ASSUME ~dirty', open' # NoNote  PROVE text' = baseline'
    <2>1. open' = open \/ text' = baseline'
        BY <1>3 DEF NoteStep
    <2>2. ASSUME tasks # <<>>
          PROVE  /\ 1 \in 1..Len(tasks)
                 /\ ~dirty => tasks[1].fresh
                 /\ tasks[1].fresh => tasks[1].text = text
                 /\ tasks[1].status = "saved" => tasks[1].actual = tasks[1].text
                 /\ tasks[1].fresh /\ tasks[1].stage = "settling" => baseline = text
        <3>1. 1 \in 1..Len(tasks)
            BY <2>2, HeadTask DEF IInv, Base
        <3> QED  BY <3>1 DEF ChainInv, IInv, FreshInv, Base, TaskInv
    <2>3. CASE /\ tasks # <<>> /\ tasks[1].stage = "settling" /\ tasks[1].fresh
               /\ UNCHANGED <<text, baseline>>
        BY <2>2, <2>3
    <2>4. CASE ~dirty /\ UNCHANGED <<text, baseline>>
        BY <1>3, <2>1, <2>4 DEF OpenNoteInv
    <2>5. CASE /\ ~dirty /\ tasks # <<>> /\ tasks[1].status = "saved"
               /\ text' = text /\ baseline' = tasks[1].actual
        BY <2>2, <2>5
    <2> QED  BY <1>3, <2>3, <2>4, <2>5 DEF NoteStep
<1> QED  BY <1>1, <1>2, <1>3 DEF OpenNoteInv

\* Every step keeps ChainInv.
LEMMA ChainGoesOn ==
    ASSUME IInv, Steady, OpenNoteInv, ChainInv, NoteStep, [Next]_vars
    PROVE  ChainInv'
<1>0. Len(tasks) \in Nat /\ Len(tasks') \in Nat
    BY TypesGoOn, LenProperties DEF IInv, Base, TypeOK
<1>1. ASSUME NEW i \in 1..Len(tasks')
      PROVE Joins(i) \/ \E j \in 1..Len(tasks) : Follows(j, i)
    BY NoteOrigins
<1>2. ASSUME NEW i \in 1..Len(tasks')
      PROVE  /\ tasks'[i].path = open' /\ open' # NoNote
             /\ tasks'[i].mine = (tasks'[i].stage # "queued")
    <2>1. CASE Joins(i)
        BY <2>1 DEF Joins
    <2>2. ASSUME NEW j \in 1..Len(tasks), Follows(j, i)
          PROVE tasks'[i].path = open /\ open # NoNote
        BY <2>2 DEF Follows, Same, ChainInv
    <2>3. ASSUME NEW j \in 1..Len(tasks), Follows(j, i)
          PROVE  tasks'[i].mine = (tasks'[i].stage # "queued")
        BY <2>3 DEF Follows, ChainInv
    <2>4. tasks # <<>> => open' = open
        BY DEF NoteStep
    <2>5. (\E j \in 1..Len(tasks) : Follows(j, i)) => tasks # <<>>
        BY EmptySeq, <1>0 DEF IInv, Base, TypeOK
    <2> QED  BY <1>1, <2>1, <2>2, <2>3, <2>4, <2>5
<1>3. ASSUME NEW i \in 1..Len(tasks'), NEW j \in 1..Len(tasks), Follows(j, i)
      PROVE  /\ tasks'[i].fresh => tasks[j].fresh
             /\ tasks[j].fresh => tasks'[i].fresh
                    \/ (Replaced /\ \A k \in 1..Len(tasks') : ~tasks'[k].fresh)
    BY <1>3 DEF Follows, Same
<1>4. ASSUME NEW i \in 1..Len(tasks'), ~dirty'  PROVE tasks'[i].fresh
    <2>1. CASE Joins(i)
        BY <2>1 DEF Joins
    <2>2. ASSUME NEW j \in 1..Len(tasks), Follows(j, i)  PROVE tasks'[i].fresh
        <3>1. CASE ~dirty
            <4>1. tasks[j].fresh /\ tasks # <<>>
                BY <3>1, <1>0, EmptySeq DEF ChainInv, IInv, Base, TypeOK
            <4>2. ~Replaced
                BY <1>4, <4>1, SavesKeepUp DEF IInv
            <4> QED  BY <1>3, <2>2, <4>1, <4>2
        <3>2. CASE dirty
            <4>1. tasks # <<>> /\ tasks[1].fresh
                BY <1>4, <3>2 DEF NoteStep
            <4>2. 1 \in 1..Len(tasks)
                BY <4>1, HeadTask DEF IInv, Base
            <4>3. tasks[j].fresh
                <5>1. j = 1 \/ 1 < j
                    BY <1>0
                <5> QED  BY <4>1, <4>2, <5>1 DEF ChainInv
            <4>4. ~Replaced
                BY <1>4, <4>1, SavesKeepUp DEF IInv
            <4> QED  BY <1>3, <2>2, <4>3, <4>4
        <3> QED  BY <3>1, <3>2
    <2> QED  BY <1>1, <2>1, <2>2
<1>5. ASSUME NEW i \in 1..Len(tasks'), NEW j \in 1..Len(tasks'), i < j, tasks'[i].fresh
      PROVE  tasks'[j].fresh
    <2>1. CASE Joins(j)
        BY <2>1 DEF Joins
    <2>2. ASSUME NEW q \in 1..Len(tasks), Follows(q, j)  PROVE tasks'[j].fresh
        <3>1. ~Joins(i)
            BY <1>0, <1>5, <2>2 DEF Joins, Follows
        <3>2. PICK p \in 1..Len(tasks) : Follows(p, i)
            BY <1>1, <3>1
        <3>3. p = q \/ p < q
            BY <1>0, <1>5, <2>2, <3>2 DEF Follows
        <3>4. tasks[p].fresh
            BY <1>3, <1>5, <3>2
        <3>5. tasks[q].fresh
            BY <3>3, <3>4 DEF ChainInv
        <3> QED  BY <1>3, <1>5, <2>2, <3>5
    <2> QED  BY <1>1, <2>1, <2>2
<1>6. ASSUME 1 \in 1..Len(tasks'), tasks'[1].fresh, tasks'[1].stage \in {"indexing", "settling"}
      PROVE  baseline' = text'
    <2>1. Origin(1)
        BY <1>6, TasksGoOn DEF IInv, Origins
    <2>2. ~New(tasks'[1])
        BY <1>6 DEF New
    <2>3. ASSUME NEW j \in 1..Len(tasks), Same(tasks[j], tasks'[1]), Kept(tasks[j], tasks'[1])
          PROVE  baseline' = text'
        <3>1. tasks[j].fresh /\ tasks[j].stage \in {"indexing", "settling"}
            BY <1>6, <2>3 DEF Same, Kept
        <3>2. j = 1 /\ tasks # <<>>
            BY <3>1, <1>0, EmptySeq DEF IInv, Base, TypeOK, TaskInv
        <3>3. baseline = text
            BY <3>1, <3>2 DEF ChainInv
        <3> QED  BY <1>6, <3>1, <3>2, <3>3 DEF NoteStep
    <2>4. ASSUME 1 \in 1..Len(tasks), Same(tasks[1], tasks'[1]), Advanced(tasks[1], tasks'[1])
          PROVE  baseline' = text'
        <3>1. tasks[1].fresh /\ tasks[1].text = text /\ tasks[1].actual = tasks[1].text
            BY <1>6, <2>4 DEF Same, Advanced, IInv, FreshInv, Base, TaskInv
        <3>2. CASE SaveAnswered /\ SaveDone(tasks[1])
            BY <2>4, <3>1, <3>2 DEF SaveAnswered, SaveDone, Advanced
        <3>3. CASE Indexed /\ tasks[1].stage = "indexing"
            BY <2>4, <3>1, <3>3 DEF Indexed, ChainInv
        <3> QED  BY <2>4, <3>2, <3>3 DEF Advanced
    <2>5. ASSUME Started(tasks[1], tasks'[1]) \/ Written(tasks[1], tasks'[1])  PROVE FALSE
        BY <1>6, <2>5 DEF Started, Written
    <2> QED  BY <2>1, <2>2, <2>3, <2>4, <2>5 DEF Origin
<1> QED  BY <1>2, <1>4, <1>5, <1>6 DEF ChainInv

-----------------------------------------------------------------------------
(***************************************************************************)
(* One note at work                                                        *)
(***************************************************************************)

\* The user writes and saves one note: other programs may change it, or its
\* changes are followed while the user only types.
Editing ==
    /\ scene.ops \subseteq {"retry", "overwrite", "close"}
    /\ scene.watching => scene.ops = {}

\* The watcher has nothing to say.
NoNews == watch.stage = "idle" /\ events = {}

\* A note is open until the watcher finds its file gone.
PageInv ==
    /\ OpenNoteInv
    /\ ~scene.watching => open # NoNote /\ NoNews

\* Where changes are followed the text shown is saved once.
WatchedInv ==
    scene.watching =>
        /\ \A i \in 1..Len(tasks) : tasks[i].fresh => i = Len(tasks) /\ timer = NoTimer
        /\ ~dirty => tasks = <<>> /\ timer = NoTimer

\* The invariant of one note at work.
EditInv == Editing => PageInv /\ ChainInv /\ WatchedInv

\* No other operation replaces the text.
LEMMA EditingIsSteady ==
    ASSUME Base, Editing, PageInv, WatchedInv
    PROVE  Steady /\ ~Replacing
<1>1. \A o \in {"select", "create", "delete", "reload"} : jobs[o].stage = "idle"
    BY DEF Base, JobInv, Editing, AllOps
<1>2. jobs["retry"].stage # "idle" => ~scene.watching
    BY DEF Base, JobInv, Editing, AllOps
<1>3. watch.stage # "idle" => scene.watching
    BY DEF PageInv, NoNews
<1> QED  BY <1>1, <1>2, <1>3 DEF Editing, Steady, PageInv, WatchedInv, Replacing

\* Changes that are not watched are not heard of.
LEMMA NoNewsGoesOn ==
    ASSUME Base, ~scene.watching, NoNews, [Next]_vars
    PROVE  NoNews'
<1> USE DEF Base
<1>w. \A changes : Seen(changes) => events' = events
    BY DEF Seen
<1>n. NoWatch.stage = "idle"
    BY DEF NoWatch
<1>k. ASSUME events' = events, watch' = watch  PROVE NoNews'
    BY <1>k DEF NoNews
<1>1. CASE User
    BY <1>k, <1>1
    DEF User, Type, CancelDialog, AskSelect, AskCreate, AskDelete, AskRename, AskRetry,
       AskOverwrite, AskReload, AskClose, Discard
<1>2. CASE Continuation
    BY <1>k, <1>2 DEF Continuation, StartTask, Flush, FlushGoesOn, StartSelect, SelectFlushed,
       CreateFlushed, CloseFlushed, Flushed, RetryDone, OverwriteDone
<1>3. CASE Backend
    <2>1. ~WatchReads
        BY AtHead, CallerNames DEF WatchReads, Sent, NoNews
    <2>2. CASE SaveExecuted \/ CreateExecuted
        BY <1>k, <1>w, <2>2 DEF SaveExecuted, WriteNote, CreateExecuted
    <2>3. CASE DeleteExecuted \/ RenameExecuted \/ JobReads("select") \/ JobReads("reload")
        BY <1>k, <1>w, <2>3 DEF DeleteExecuted, RenameExecuted, JobReads
    <2> QED  BY <1>3, <2>1, <2>2, <2>3 DEF Backend
<1>4. CASE SaveEvent
    BY <1>k, <1>4 DEF SaveEvent, SaveAnswered, Indexed, Settled
<1>5. CASE OperationEvent
    BY <1>k, <1>5 DEF OperationEvent, SelectStat, SelectAnswered, SelectDone, CreateAnswered,
       CreateListed, DeleteAnswered, RenameAnswered, ReloadAnswered, CloseWindow
<1>6. CASE WatchEvent
    BY <1>6, AtHead, CallerNames
    DEF WatchEvent, WatchFlush, WatchListed, WatchAnswered, Replied, NoNews
<1>7. CASE LampOff \/ TimerFires \/ UNCHANGED vars \/ \E n \in scene.notes : Outside(n)
    BY <1>k, <1>w, <1>7 DEF LampOff, TimerFires, vars, Outside
<1> QED  BY <1>1, <1>2, <1>3, <1>4, <1>5, <1>6, <1>7 DEF Next

\* Every step keeps WatchedInv.
LEMMA WatchedGoesOn ==
    ASSUME IInv, Steady, OpenNoteInv, ChainInv, WatchedInv, NoteStep, [Next]_vars,
           scene' = scene
    PROVE  WatchedInv'
<1> SUFFICES ASSUME scene.watching
             PROVE  /\ \A i \in 1..Len(tasks') :
                           tasks'[i].fresh => i = Len(tasks') /\ timer' = NoTimer
                    /\ ~dirty' => tasks' = <<>> /\ timer' = NoTimer
    BY DEF WatchedInv
<1>0. Len(tasks) \in Nat /\ Len(tasks') \in Nat /\ tasks' \in Seq(Task) /\ tasks \in Seq(Task)
    BY TypesGoOn, LenProperties DEF IInv, Base, TypeOK
<1>1. \A i \in 1..Len(tasks') : Joins(i) \/ \E j \in 1..Len(tasks) : Follows(j, i)
    BY NoteOrigins
<1>2. \A i \in 1..Len(tasks') : Joins(i) => timer # NoTimer /\ timer' = NoTimer
    BY DEF Joins, TimerFires
<1>3. Len(tasks') <= Len(tasks) + 1
    <2>1. CASE Len(tasks') = 0
        BY <1>0, <2>1
    <2>2. CASE Len(tasks') \in 1..Len(tasks')
        BY <1>0, <1>1, <2>2 DEF Joins, Follows
    <2> QED  BY <1>0, <2>1, <2>2
<1>4. timer = NoTimer => Len(tasks') <= Len(tasks)
    <2>1. CASE Len(tasks') = Len(tasks) + 1
        <3>1. Len(tasks') \in 1..Len(tasks')
            BY <1>0, <2>1
        <3>2. Joins(Len(tasks'))
            BY <1>0, <1>1, <2>1, <3>1 DEF Follows
        <3> QED  BY <1>2, <3>1, <3>2
    <2> QED  BY <1>0, <1>3, <2>1
<1>5. ASSUME NEW i \in 1..Len(tasks'), tasks'[i].fresh
      PROVE i = Len(tasks') /\ timer' = NoTimer
    <2>1. CASE Joins(i)
        BY <1>0, <1>2, <1>3, <2>1 DEF Joins
    <2>2. ASSUME NEW j \in 1..Len(tasks), Follows(j, i)
          PROVE i = Len(tasks') /\ timer' = NoTimer
        <3>1. j = Len(tasks) /\ timer = NoTimer
            BY <1>5, <2>2 DEF Follows, Same, WatchedInv
        <3>2. i = Len(tasks')
            BY <1>0, <1>4, <2>2, <3>1 DEF Follows
        <3>3. timer' = NoTimer
            BY <1>5, <3>1 DEF NoteStep
        <3> QED  BY <3>2, <3>3
    <2> QED  BY <1>1, <2>1, <2>2
<1>6. ASSUME ~dirty'  PROVE tasks' = <<>> /\ timer' = NoTimer
    <2>1. CASE ~dirty
        <3>1. tasks = <<>> /\ timer = NoTimer
            BY <2>1 DEF WatchedInv
        <3>2. Len(tasks) = 0
            BY <3>1
        <3>3. tasks' = <<>>
            BY <1>0, <1>4, <3>1, <3>2, EmptySeq
        <3>4. timer' = NoTimer
            BY <1>6, <3>1 DEF NoteStep
        <3> QED  BY <3>3, <3>4
    <2>2. CASE dirty
        <3>1. tasks # <<>> /\ tasks[1].fresh /\ tasks' = Tail(tasks) /\ timer' = timer
            BY <1>6, <2>2 DEF NoteStep
        <3>2. 1 = Len(tasks) /\ timer = NoTimer
            BY <3>1, HeadTask DEF WatchedInv, IInv, Base
        <3>3. Len(tasks') = 0
            BY <1>0, <3>1, <3>2, TailTasks
        <3> QED  BY <1>0, <3>1, <3>2, <3>3, EmptySeq
    <2> QED  BY <2>1, <2>2
<1> QED  BY <1>5, <1>6

\* Every step keeps EditInv.
LEMMA EditGoesOn == IInv /\ EditInv /\ [Next]_vars => EditInv'
<1> SUFFICES ASSUME IInv, EditInv, [Next]_vars  PROVE EditInv'
    OBVIOUS
<1>1. scene' = scene
    BY ControlGoesOn DEF IInv
<1>2. ASSUME Editing  PROVE PageInv' /\ ChainInv' /\ WatchedInv'
    <2>1. PageInv /\ OpenNoteInv /\ ChainInv /\ WatchedInv
        BY <1>2 DEF EditInv, PageInv
    <2>2. Steady /\ ~Replacing
        BY <1>2, <2>1, EditingIsSteady DEF IInv
    <2>3. NoteStep
        BY <2>1, <2>2, NoteSteps DEF IInv
    <2>4. OpenNoteInv' /\ ChainInv' /\ WatchedInv'
        BY <1>1, <2>1, <2>2, <2>3, NoteGoesOn, ChainGoesOn, WatchedGoesOn
    <2>5. ASSUME ~scene.watching  PROVE open' # NoNote /\ NoNews'
        BY <2>1, <2>2, <2>3, <2>5, NoNewsGoesOn DEF IInv, PageInv, NoNews, NoteStep
    <2> QED  BY <1>1, <2>4, <2>5 DEF PageInv
<1> QED  BY <1>1, <1>2 DEF EditInv, Editing

\* EditInv holds in every state the page can reach.
LEMMA EditInvariance == Spec => []EditInv
<1>1. Init => EditInv
    <2> SUFFICES ASSUME Init, Editing  PROVE PageInv /\ ChainInv /\ WatchedInv
        BY DEF EditInv
    <2>1. PICK n \in scene.notes : open = n /\ text = disk[n] /\ baseline = disk[n]
        BY DEF Init
    <2>2. PageInv
        BY <2>1, NoNoteAssumption, ScenesAssumption DEF Init, PageInv, OpenNoteInv, NoNews, NoWatch, Scene
    <2>3. tasks = <<>> /\ timer = NoTimer
        BY DEF Init
    <2> QED  BY <2>2, <2>3 DEF ChainInv, WatchedInv
<1> QED  BY <1>1, EditGoesOn, Invariance, PTL DEF Spec

\* A clean page with no save under way shows the text whose revision its next
\* save expects (baselineRevision), with conflicts, overwriting and closing.
THEOREM CleanPageShowsItsBaseline == Spec => [](Editing => CleanIsBaseline)
<1>1. EditInv => (Editing => CleanIsBaseline)
    BY DEF EditInv, PageInv, OpenNoteInv, CleanIsBaseline
<1> QED  BY <1>1, EditInvariance, PTL

\* An issue is shown only while its note is open, so that saving again or
\* overwriting can resolve it.
THEOREM ErrorsCanBeResolved == Spec => [](Editing => ErrorIsActionable)
<1>1. EditInv => (Editing => ErrorIsActionable)
    BY DEF EditInv, PageInv, OpenNoteInv, ErrorIsActionable
<1> QED  BY <1>1, EditInvariance, PTL

\* The issue shown is about the note shown: "overwrite" writes the text of the
\* editor to the path of the issue.
THEOREM IssuesAreAboutTheNote == Spec => [](Editing => IssueIsAboutTheNote)
<1>1. EditInv => (Editing => IssueIsAboutTheNote)
    BY DEF EditInv, PageInv, OpenNoteInv, IssueIsAboutTheNote
<1> QED  BY <1>1, EditInvariance, PTL

\* While the page is clean a save writes only the text shown: a draft that was
\* given up does not come back.  Reloading is not among these operations: the run
\* NotebookHome_discard shows what it does.
THEOREM GivenUpDraftsStayAway == Spec /\ []Editing => DiscardedStaysDiscarded
<1>1. IInv /\ EditInv /\ Editing /\ [Next]_vars =>
          [SaveTakesEffect /\ ~dirty => tasks[1].text = text]_vars
    <2> SUFFICES ASSUME IInv, EditInv, Editing, [Next]_vars, SaveTakesEffect, ~dirty
                 PROVE  tasks[1].text = text
        OBVIOUS
    <2>1. tasks # <<>>
        BY TakesEffect DEF IInv, Base
    <2>2. 1 \in 1..Len(tasks)
        BY <2>1, HeadTask DEF IInv, Base
    <2> QED  BY <2>2 DEF EditInv, ChainInv, IInv, FreshInv
<1> QED  BY <1>1, EditInvariance, Invariance, PTL DEF Spec, DiscardedStaysDiscarded

\* What is saved under a path was typed into the note open under it.
THEOREM SavesAreOfTheOpenNote == Spec /\ []Editing => SavesGoToTheOpenNote
<1>1. IInv /\ EditInv /\ Editing /\ [Next]_vars => [SaveTakesEffect => tasks[1].path = open]_vars
    <2> SUFFICES ASSUME IInv, EditInv, Editing, [Next]_vars, SaveTakesEffect
                 PROVE  tasks[1].path = open
        OBVIOUS
    <2>1. tasks # <<>>
        BY TakesEffect DEF IInv, Base
    <2>2. 1 \in 1..Len(tasks)
        BY <2>1, HeadTask DEF IInv, Base
    <2> QED  BY <2>2 DEF EditInv, ChainInv
<1> QED  BY <1>1, EditInvariance, Invariance, PTL DEF Spec, SavesGoToTheOpenNote
=============================================================================
