---------------------------- MODULE SavePipeline ----------------------------
(***************************************************************************)
(* useSavePipeline: how a window of the app brings what the user typed to  *)
(* the disk.  The save timer, the chain of save tasks (debouncedSave), the *)
(* flush an operation runs before it leaves the note, the save shortcut.   *)
(* NotebookHome extends this module with the page's other operations.      *)
(*                                                                         *)
(* The page is single-threaded.  An action is what it runs between two     *)
(* awaits that leave the JavaScript job queue; continuations that only     *)
(* wait for promises of the page itself run first (Quiet).  A command sent *)
(* to the Rust side is executed in the order sent, each in one step (what  *)
(* FileMutation shows of the commands), and answered in that order.        *)
(*                                                                         *)
(* contentRevision, localWriteEpoch and saveGeneration are counters that   *)
(* are only compared with a value captured earlier.  They are modelled by  *)
(* the set of captures that still equal the counter, which keeps the model *)
(* finite without bounding them.  A revision is a hash of the content, so  *)
(* it is the content here; Missing is the null revision.                   *)
(***************************************************************************)
EXTENDS Naturals, Sequences

CONSTANTS
    Notes,       \* paths of notes
    Contents,    \* what a note can hold
    Blank,       \* the content of a new note and of a page without a note
    Scenes,      \* what users do and the world does: a subset of Scene
    MaxTasks,    \* how many save tasks wait at most (not bounded in the code)
    NoNote,      \* no note is open: activePath is ''
    Missing,     \* no file: the null revision
    NoIssue,     \* saveIssue is null (and so is saveError)
    NoTimer,     \* saveTimer is null
    Baseline     \* no expectedRevisionOverride: use currentDiskRevision

AllOps == {"select", "create", "delete", "rename", "retry", "overwrite",
           "reload", "close"}

Revisions == Contents \cup {Missing}

\* The notes in play, the operations the user performs, and whether other
\* programs write and remove notes, the watcher delivers changes, and
\* commands may fail.
Scene == [notes : SUBSET Notes, ops : SUBSET AllOps, outsiders : BOOLEAN,
          watching : BOOLEAN, failing : BOOLEAN]

ASSUME ScenesAssumption == Scenes \subseteq Scene
ASSUME BoundAssumption == MaxTasks \in Nat \ {0}
ASSUME BlankAssumption == Blank \in Contents
ASSUME NoNoteAssumption == NoNote \notin Notes
ASSUME MissingAssumption == Missing \notin Contents

VARIABLES
    scene,     \* the scene played in this behaviour, fixed by Init
    disk,      \* the notebook folder
    open,      \* activePath
    text,      \* currentContent, which is also what the editor shows
    dirty,     \* isDirty
    baseline,  \* currentDiskRevision
    issue,     \* saveIssue
    pinned,    \* the issue is still the object a reload started from
    dialog,    \* the recovery dialog: hidden, or its intent
    locked,    \* isNoteSwitching: the editor is read-only
    timer,     \* saveTimer: the save it will start
    tasks,     \* the chain of save tasks that ends in currentSavePromise
    saving,    \* isSaving, the "saving" indicator
    lamp,      \* a pending delayed switch-off of the indicator
    jobs,      \* the operation handlers in progress
    queued,    \* the latest selection waiting in noteSelectionQueue
    current,   \* who holds a captured contentRevision that is still current
    calls,     \* commands sent, not executed
    answers,   \* commands executed, not answered
    events,    \* file changes the watcher has seen and not delivered
    watch,     \* the watcher's re-read of the open note
    alive,     \* the window exists
    unsaved,   \* history: the text was typed and no save of it hit the disk
    lost,      \* history: such a text was replaced without being asked for
    known      \* history: the versions of each note the user knows of

pageVars == <<open, text, dirty, baseline>>
issueVars == <<issue, pinned, dialog>>
queueVars == <<timer, tasks, saving, lamp>>
ipcVars == <<calls, answers>>
watchVars == <<events, watch>>
windowVars == <<scene, alive>>
ghostVars == <<unsaved, lost, known>>
vars == <<disk, pageVars, issueVars, locked, queueVars, jobs, queued, current,
          ipcVars, watchVars, windowVars, ghostVars>>

Issue == [kind : {"conflict", "missing", "io"},
          path : Notes \cup {NoNote}, actual : Revisions]

ASSUME NoIssueAssumption == NoIssue \notin Issue

IoIssue(p) == [kind |-> "io", path |-> p, actual |-> Missing]
DiskIssue(p, actual) ==
    [kind |-> IF actual = Missing THEN "missing" ELSE "conflict",
     path |-> p, actual |-> actual]

\* isAutosavePausedForDiskIssue
Paused == issue # NoIssue /\ issue.kind \in {"conflict", "missing"}

Task == [path : Notes \cup {NoNote}, text : Contents, fresh : BOOLEAN,
         expected : Revisions \cup {Baseline},
         stage : {"queued", "calling", "indexing", "settling"},
         mine : BOOLEAN, status : {"none", "saved", "conflict", "failed"},
         actual : Revisions, wakes : SUBSET AllOps]

NewTask(p, c, fresh, expected, wakes) ==
    [path |-> p, text |-> c, fresh |-> fresh, expected |-> expected,
     stage |-> "queued", mine |-> FALSE, status |-> "none",
     actual |-> Missing, wakes |-> wakes]

Steps == {"idle", "flush", "saving", "draining", "awaiting", "saved",
          "unsaved", "drained", "awaited", "flushed", "blocked", "stat",
          "reading", "read", "applying", "applied", "listing", "settling"}

\* What a job does next without leaving the JavaScript job queue.
Prompt == {"flush", "saved", "unsaved", "drained", "awaited", "flushed",
           "blocked"}

Job == [stage : Steps, path : Notes \cup {NoNote}, to : Notes \cup {NoNote},
        at : Notes \cup {NoNote}, held : BOOLEAN, tries : 0..3,
        snap : Revisions]

NoJob == [stage |-> "idle", path |-> NoNote, to |-> NoNote, at |-> NoNote,
          held |-> FALSE, tries |-> 0, snap |-> Missing]

Watch == [stage : {"idle", "listing", "reading", "read"},
          path : Notes \cup {NoNote}, gone : BOOLEAN, snap : Revisions]

NoWatch == [stage |-> "idle", path |-> NoNote, gone |-> FALSE,
            snap |-> Missing]

Callers == AllOps \cup {"save", "watch"}

HeadQueued == tasks # <<>> /\ tasks[1].stage = "queued"

\* No continuation of the page is runnable, so the next event is handled.
Quiet ==
    /\ alive
    /\ ~HeadQueued
    /\ \A o \in AllOps : jobs[o].stage \notin Prompt
    /\ queued = NoNote \/ jobs["select"].stage # "idle"

-----------------------------------------------------------------------------
(* Pieces of the handlers *)

\* contentRevision++: nothing captured before is current any more.
Outdated(ts) == [i \in 1..Len(ts) |-> [ts[i] EXCEPT !.fresh = FALSE]]

\* saveGeneration++: a running save no longer owns the page's save state.
Disowned(ts) == [i \in 1..Len(ts) |-> [ts[i] EXCEPT !.mine = FALSE]]

\* A new issue object, or none: a reload that looked at the old one is stale.
Report(i) == issue' = i /\ pinned' = FALSE
ClearSaveIssue == Report(NoIssue)

Continue(o, stage) == jobs' = [jobs EXCEPT ![o].stage = stage]
EndJob(o) == jobs' = [jobs EXCEPT ![o] = NoJob]

\* The page replaces what the editor shows.  Typed text that no save has
\* written is gone, unless the user asked for exactly that.
Show(p, c, base, consent) ==
    /\ open' = p
    /\ text' = c
    /\ baseline' = base
    /\ current' = {}
    /\ lost' = (lost \/ (unsaved /\ ~consent))
    /\ unsaved' = FALSE
    /\ known' = IF p = NoNote THEN known
               ELSE [known EXCEPT ![p] = @ \cup {base}]

\* Mutant: the issue of the note that was closed stays.
ClearActiveNoteStateKeepsIssue(consent) ==
    /\ Show(NoNote, Blank, Missing, consent)
    /\ dirty' = FALSE
    /\ saving' = FALSE
    /\ UNCHANGED <<issue, pinned>>

ClearActiveNoteState(consent) ==
    /\ Show(NoNote, Blank, Missing, consent)
    /\ dirty' = FALSE
    /\ saving' = FALSE
    /\ ClearSaveIssue

\* A save task returns: the chain moves on and whoever waited is woken.
Woken(job, ok) ==
    [job EXCEPT !.stage = CASE @ = "draining" -> "drained"
                            [] @ = "awaiting" -> "awaited"
                            [] OTHER -> IF ok THEN "saved" ELSE "unsaved"]

Finish(ok) ==
    /\ tasks' = Tail(tasks)
    /\ jobs' = [o \in AllOps |-> IF o \in tasks[1].wakes
                                 THEN Woken(jobs[o], ok) ELSE jobs[o]]

\* Mutant: only the delayed switch-off is remembered.
SwitchOffOnlyDelayed(mine, delayed) ==
    /\ saving' = saving
    /\ lamp' = IF mine THEN delayed ELSE lamp

\* finally: the owner switches the indicator off, at once or delayed.
SwitchOff(mine, delayed) ==
    IF mine
    THEN /\ saving' = delayed
         /\ lamp' = delayed
    ELSE UNCHANGED <<saving, lamp>>

PushTask(o, task) ==
    /\ tasks' = Append(tasks, task)
    /\ jobs' = [jobs EXCEPT ![o].stage = "saving", ![o].at = task.path,
                            ![o].tries = @ + 1]
    /\ current' = current \cup {o}

WaitForLast(o, stage) ==
    /\ tasks' = [tasks EXCEPT ![Len(tasks)].wakes = @ \cup {o}]
    /\ Continue(o, stage)

Send(who) == calls' = Append(calls, who)
Executed(who) ==
    /\ calls # <<>>
    /\ Head(calls) = who
    /\ calls' = Tail(calls)
    /\ answers' = Append(answers, who)
Answered(who) ==
    /\ answers # <<>>
    /\ Head(answers) = who
    /\ answers' = Tail(answers)

Seen(changes) ==
    events' = IF scene.watching THEN events \cup changes ELSE events

-----------------------------------------------------------------------------
(* The user types, the save timer, the indicator *)

\* Mutant: no save is scheduled while one is running.
TypeWhileSaving(c) ==
    /\ Quiet
    /\ ~locked
    /\ dialog = "hidden"
    /\ open # NoNote
    /\ c # text
    /\ text' = c
    /\ dirty' = TRUE
    /\ unsaved' = TRUE
    /\ current' = IF Paused THEN {} ELSE {"timer"}
    /\ tasks' = Outdated(tasks)
    /\ timer' = IF Paused \/ saving THEN NoTimer ELSE [path |-> open, text |-> c]
    /\ IF Paused THEN UNCHANGED <<issue, pinned>> ELSE ClearSaveIssue
    /\ UNCHANGED <<disk, open, baseline, dialog, locked, saving, lamp, jobs,
                   queued, ipcVars, watchVars, windowVars, lost, known>>

Type(c) ==
    /\ Quiet
    /\ ~locked
    /\ dialog = "hidden"
    /\ open # NoNote
    /\ c # text
    /\ text' = c
    /\ dirty' = TRUE
    /\ unsaved' = TRUE
    /\ current' = IF Paused THEN {} ELSE {"timer"}
    /\ tasks' = Outdated(tasks)
    /\ timer' = IF Paused THEN NoTimer ELSE [path |-> open, text |-> c]
    /\ IF Paused THEN UNCHANGED <<issue, pinned>> ELSE ClearSaveIssue
    /\ UNCHANGED <<disk, open, baseline, dialog, locked, saving, lamp, jobs,
                   queued, ipcVars, watchVars, windowVars, lost, known>>

TimerFires ==
    /\ Quiet
    /\ timer # NoTimer
    /\ Len(tasks) < MaxTasks
    /\ tasks' = Append(tasks, NewTask(timer.path, timer.text,
                                      "timer" \in current, Baseline, {}))
    /\ timer' = NoTimer
    /\ current' = current \ {"timer"}
    /\ UNCHANGED <<disk, pageVars, issueVars, locked, saving, lamp, jobs,
                   queued, ipcVars, watchVars, windowVars, ghostVars>>

LampOff ==
    /\ Quiet
    /\ lamp
    /\ lamp' = FALSE
    /\ saving' = FALSE
    /\ UNCHANGED <<disk, pageVars, issueVars, locked, timer, tasks, jobs,
                   queued, current, ipcVars, watchVars, windowVars, ghostVars>>
-----------------------------------------------------------------------------
(* debouncedSave: the task at the head of the chain *)

\* Mutant: a save does not ask whether its note is still open.
StartTaskUnchecked ==
    /\ alive
    /\ HeadQueued
    /\ lamp' = FALSE
    /\ tasks' = [tasks EXCEPT ![1].stage = "calling", ![1].mine = TRUE,
                    ![1].expected = IF @ = Baseline THEN baseline ELSE @]
    /\ saving' = TRUE
    /\ Send("save")
    /\ UNCHANGED <<disk, pageVars, issueVars, locked, timer, jobs, queued,
                   current, answers, watchVars, windowVars, ghostVars>>

StartTask ==
    /\ alive
    /\ HeadQueued
    /\ lamp' = FALSE
    /\ LET task == tasks[1] IN
       \/ /\ task.path = open
          /\ open # NoNote
          /\ tasks' = [tasks EXCEPT ![1].stage = "calling", ![1].mine = TRUE,
                          ![1].expected = IF @ = Baseline THEN baseline ELSE @]
          /\ saving' = TRUE
          /\ Send("save")
          /\ UNCHANGED <<issueVars, jobs>>
       \/ /\ task.path # open \/ open = NoNote
          /\ Report(IoIssue(task.path))
          /\ saving' = FALSE
          /\ Finish(FALSE)
          /\ UNCHANGED <<dialog, calls>>
    /\ UNCHANGED <<disk, pageVars, locked, timer, queued, current, answers,
                   watchVars, windowVars, ghostVars>>

\* The conditional write takes effect, or is refused, or fails: before the
\* file is replaced or after (the directory could not be synchronised).
WriteNote(task) ==
    /\ disk' = [disk EXCEPT ![task.path] = task.text]
    /\ Seen({<<task.path, "changed">>})
    /\ known' = [known EXCEPT ![task.path] = @ \cup {task.text}]
    /\ unsaved' = (unsaved /\ ~(task.path = open /\ task.text = text))

Answer(status, actual) ==
    tasks' = [tasks EXCEPT ![1].status = status, ![1].actual = actual]

SaveExecuted ==
    /\ Executed("save")
    /\ LET task == tasks[1] IN
       \/ /\ disk[task.path] = task.expected
          /\ WriteNote(task)
          /\ \/ Answer("saved", task.text)
             \/ scene.failing /\ Answer("failed", Missing)
       \/ /\ disk[task.path] # task.expected
          /\ Answer("conflict", disk[task.path])
          /\ UNCHANGED <<disk, events, known, unsaved>>
       \/ /\ scene.failing
          /\ Answer("failed", Missing)
          /\ UNCHANGED <<disk, events, known, unsaved>>
    /\ UNCHANGED <<pageVars, issueVars, locked, timer, saving, lamp, jobs,
                   queued, current, watch, windowVars, lost>>

\* Mutant: a conflict makes the page adopt the revision on disk.
SaveConflictAdopts(task) ==
    /\ task.status = "conflict"
    /\ Report(DiskIssue(task.path, task.actual))
    /\ dialog' = "recover"
    /\ Finish(FALSE)
    /\ SwitchOff(task.mine, FALSE)
    /\ baseline' = task.actual
    /\ UNCHANGED current

\* The answer of the command reaches the task.  A conflict is reported even
\* when the task no longer owns the save state.
SaveConflict(task) ==
    /\ task.status = "conflict"
    /\ Report(DiskIssue(task.path, task.actual))
    /\ dialog' = "recover"
    /\ Finish(FALSE)
    /\ SwitchOff(task.mine, FALSE)
    /\ UNCHANGED <<baseline, current>>

SaveFailed(task) ==
    /\ task.status = "failed"
    /\ IF task.mine THEN Report(IoIssue(task.path))
                    ELSE UNCHANGED <<issue, pinned>>
    /\ Finish(FALSE)
    /\ SwitchOff(task.mine, FALSE)
    /\ UNCHANGED <<baseline, current, dialog>>

\* Mutant: the revision that was written is not kept.
SaveDoneKeepsBaseline(task) ==
    /\ task.status = "saved"
    /\ UNCHANGED <<saving, lamp, dialog, baseline>>
    /\ IF task.mine
       THEN /\ current' = current \ {"watch"}
            /\ ClearSaveIssue
            /\ tasks' = [tasks EXCEPT ![1].stage = "indexing"]
            /\ UNCHANGED jobs
       ELSE /\ Finish(TRUE)
            /\ UNCHANGED <<current, issue, pinned>>

SaveDone(task) ==
    /\ task.status = "saved"
    /\ UNCHANGED <<saving, lamp, dialog>>
    /\ IF task.mine
       THEN /\ baseline' = task.actual
            /\ current' = current \ {"watch"}      \* localWriteEpoch++
            /\ ClearSaveIssue
            /\ tasks' = [tasks EXCEPT ![1].stage = "indexing"]
            /\ UNCHANGED jobs
       ELSE /\ Finish(TRUE)
            /\ UNCHANGED <<baseline, current, issue, pinned>>

SaveAnswered ==
    /\ Quiet
    /\ Answered("save")
    /\ \/ SaveConflict(tasks[1])
       \/ SaveFailed(tasks[1])
       \/ SaveDone(tasks[1])
    /\ UNCHANGED <<disk, open, text, dirty, locked, timer, queued, calls,
                   watchVars, windowVars, ghostVars>>

\* The index was refreshed: is the text that was saved still the text?
Indexed ==
    /\ Quiet
    /\ tasks # <<>>
    /\ tasks[1].stage = "indexing"
    /\ LET task == tasks[1] IN
       IF task.mine /\ task.path = open /\ task.fresh
       THEN /\ tasks' = [tasks EXCEPT ![1].stage = "settling"]
            /\ UNCHANGED <<saving, lamp, jobs>>
       ELSE /\ Finish(TRUE)
            /\ \E slow \in BOOLEAN : SwitchOff(task.mine, slow)
    /\ UNCHANGED <<disk, pageVars, issueVars, locked, timer, queued, current,
                   ipcVars, watchVars, windowVars, ghostVars>>

\* Mutant: the second question, after the feedback settled, is left out.
SettledUnasked ==
    /\ Quiet
    /\ tasks # <<>>
    /\ tasks[1].stage = "settling"
    /\ LET task == tasks[1] IN
       /\ dirty' = FALSE
       /\ Finish(TRUE)
       /\ \E slow \in BOOLEAN : SwitchOff(task.mine, slow)
    /\ UNCHANGED <<disk, open, text, baseline, issueVars, locked, timer,
                   queued, current, ipcVars, watchVars, windowVars, ghostVars>>

\* settlePendingAutocompleteFeedback returned: ask once more.
Settled ==
    /\ Quiet
    /\ tasks # <<>>
    /\ tasks[1].stage = "settling"
    /\ LET task == tasks[1] IN
       /\ dirty' = (dirty /\ ~(task.mine /\ task.path = open /\ task.fresh))
       /\ Finish(TRUE)
       /\ \E slow \in BOOLEAN : SwitchOff(task.mine, slow)
    /\ UNCHANGED <<disk, open, text, baseline, issueVars, locked, timer,
                   queued, current, ipcVars, watchVars, windowVars, ghostVars>>

-----------------------------------------------------------------------------
(* flushPendingCurrentSave *)

\* One attempt of the loop.
Attempt(o) ==
    \/ /\ open # NoNote
       /\ PushTask(o, NewTask(open, text, TRUE, Baseline, {o}))
    \/ /\ open = NoNote /\ tasks # <<>>
       /\ WaitForLast(o, "awaiting")
       /\ current' = current \cup {o}
    \/ /\ open = NoNote /\ tasks = <<>>
       /\ Continue(o, "blocked")
       /\ UNCHANGED <<tasks, current>>

LeaveFlush(o, ok) ==
    /\ jobs' = [jobs EXCEPT ![o].stage = IF ok THEN "flushed" ELSE "blocked",
                            ![o].at = NoNote, ![o].tries = 0]
    /\ current' = current \ {o}
    /\ UNCHANGED tasks

\* Mutant: the scheduled save is not cancelled.
FlushKeepsTimer(o) ==
    /\ alive
    /\ ~HeadQueued
    /\ jobs[o].stage = "flush"
    /\ UNCHANGED timer
    /\ \/ dirty /\ Attempt(o)
       \/ ~dirty /\ tasks = <<>> /\ LeaveFlush(o, issue = NoIssue)
       \/ /\ ~dirty /\ tasks # <<>>
          /\ WaitForLast(o, "draining")
          /\ UNCHANGED current
    /\ UNCHANGED <<disk, pageVars, issueVars, locked, saving, lamp, queued,
                   ipcVars, watchVars, windowVars, ghostVars>>

Flush(o) ==
    /\ alive
    /\ ~HeadQueued
    /\ jobs[o].stage = "flush"
    /\ timer' = NoTimer
    /\ \/ dirty /\ Attempt(o)
       \/ ~dirty /\ tasks = <<>> /\ LeaveFlush(o, issue = NoIssue)
       \/ /\ ~dirty /\ tasks # <<>>
          /\ WaitForLast(o, "draining")
          /\ UNCHANGED current
    /\ UNCHANGED <<disk, pageVars, issueVars, locked, saving, lamp, queued,
                   ipcVars, watchVars, windowVars, ghostVars>>

Flushing == {"select", "create", "delete", "rename", "close"}

\* Mutant: one attempt too many.
FlushGoesOnOnceMore(o) ==
    /\ alive
    /\ ~HeadQueued
    /\ o \in Flushing
    /\ LET job == jobs[o]
           saved == \/ job.stage = "saved"
                    \/ job.stage = "awaited" /\ issue = NoIssue
           moved == ~(o \in current /\ job.at = open)
       IN \/ job.stage = "drained" /\ LeaveFlush(o, issue = NoIssue)
          \/ /\ job.stage \in {"saved", "unsaved", "awaited"}
             /\ IF saved /\ moved /\ dirty /\ job.tries <= 3
                THEN Attempt(o)
                ELSE LeaveFlush(o, saved /\ ~dirty /\ issue = NoIssue)
    /\ UNCHANGED <<disk, pageVars, issueVars, locked, timer, saving, lamp,
                   queued, ipcVars, watchVars, windowVars, ghostVars>>

FlushGoesOn(o) ==
    /\ alive
    /\ ~HeadQueued
    /\ o \in Flushing
    /\ LET job == jobs[o]
           saved == \/ job.stage = "saved"
                    \/ job.stage = "awaited" /\ issue = NoIssue
           moved == ~(o \in current /\ job.at = open)
       IN \/ job.stage = "drained" /\ LeaveFlush(o, issue = NoIssue)
          \/ /\ job.stage \in {"saved", "unsaved", "awaited"}
             /\ IF saved /\ moved /\ dirty /\ job.tries < 3
                THEN Attempt(o)
                ELSE LeaveFlush(o, saved /\ ~dirty /\ issue = NoIssue)
    /\ UNCHANGED <<disk, pageVars, issueVars, locked, timer, saving, lamp,
                   queued, ipcVars, watchVars, windowVars, ghostVars>>

\* flushCurrentSaveOrBlock asks again what the flush returned.
MayGoOn(o) == jobs[o].stage = "flushed" /\ ~dirty /\ issue = NoIssue
MustStop(o) ==
    \/ jobs[o].stage = "blocked"
    \/ jobs[o].stage = "flushed" /\ (dirty \/ issue # NoIssue)

Prompted(o) == alive /\ ~HeadQueued /\ jobs[o].stage \in Prompt
UserMay(o) == Quiet /\ o \in scene.ops /\ jobs[o].stage = "idle"
NoDialog == dialog = "hidden"

-----------------------------------------------------------------------------
(* retryCurrentSave: the shortcut is off while the editor is locked *)

AskRetry ==
    /\ UserMay("retry")
    /\ ~locked
    /\ timer' = NoTimer
    /\ \/ /\ Paused
          /\ dialog' = "recover"
          /\ UNCHANGED <<dirty, tasks, jobs, current>>
       \/ /\ ~Paused /\ open # NoNote
          /\ dirty' = TRUE
          /\ PushTask("retry", NewTask(open, text, TRUE, Baseline, {"retry"}))
          /\ UNCHANGED dialog
       \/ /\ ~Paused /\ open = NoNote
          /\ UNCHANGED <<dialog, dirty, tasks, jobs, current>>
    /\ UNCHANGED <<disk, open, text, baseline, issue, pinned, locked, saving,
                   lamp, queued, ipcVars, watchVars, windowVars, ghostVars>>

RetryDone ==
    /\ Prompted("retry")
    /\ IF jobs["retry"].stage = "unsaved" /\ issue = NoIssue
       THEN Report(IoIssue(open))
       ELSE UNCHANGED <<issue, pinned>>
    /\ EndJob("retry")
    /\ current' = current \ {"retry"}
    /\ UNCHANGED <<disk, pageVars, dialog, locked, queueVars, queued, ipcVars,
                   watchVars, windowVars, ghostVars>>

-----------------------------------------------------------------------------
\* The variables of the page hold what the code's types let them hold, and a
\* flush makes at most its three attempts.
TypeOK ==
    /\ scene \in Scenes /\ disk \in [Notes -> Revisions]
    /\ open \in Notes \cup {NoNote} /\ text \in Contents
    /\ dirty \in BOOLEAN /\ baseline \in Revisions
    /\ issue \in Issue \cup {NoIssue} /\ pinned \in BOOLEAN
    /\ dialog \in {"hidden", "recover", "close"} /\ locked \in BOOLEAN
    /\ timer \in [path : Notes, text : Contents] \cup {NoTimer}
    /\ tasks \in Seq(Task) /\ saving \in BOOLEAN /\ lamp \in BOOLEAN
    /\ jobs \in [AllOps -> Job] /\ queued \in Notes \cup {NoNote}
    /\ current \subseteq AllOps \cup {"timer", "watch"}
    /\ calls \in Seq(Callers) /\ answers \in Seq(Callers)
    /\ events \subseteq Notes \X {"gone", "changed"} /\ watch \in Watch
    /\ alive \in BOOLEAN /\ unsaved \in BOOLEAN /\ lost \in BOOLEAN
    /\ known \in [Notes -> SUBSET Revisions]
=============================================================================
