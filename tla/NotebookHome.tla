---------------------------- MODULE NotebookHome ----------------------------
(***************************************************************************)
(* The page NotebookHome around its save pipeline: selecting, creating,    *)
(* deleting and renaming notes, the recovery dialog, closing the window,   *)
(* the file watcher's refresh, and the other programs that use the folder. *)
(***************************************************************************)
EXTENDS SavePipeline

\* A step of an operation that moves only its job, the lock and the queue.
idleVars == <<disk, pageVars, issueVars, queueVars, current, ipcVars,
              watchVars, windowVars, ghostVars>>

CancelDialog ==
    /\ Quiet
    /\ dialog # "hidden"
    /\ dialog' = "hidden"
    /\ locked' = FALSE
    /\ UNCHANGED <<disk, pageVars, issue, pinned, queueVars, jobs, queued,
                   current, ipcVars, watchVars, windowVars, ghostVars>>

\* Another program writes or removes a note.
Outside(n) ==
    /\ scene.outsiders
    /\ alive
    /\ \E r \in Revisions \ {disk[n]} :
        /\ disk' = [disk EXCEPT ![n] = r]
        /\ Seen({<<n, IF r = Missing THEN "gone" ELSE "changed">>})
    /\ UNCHANGED <<pageVars, issueVars, locked, queueVars, jobs, queued,
                   current, ipcVars, watch, windowVars, ghostVars>>

-----------------------------------------------------------------------------
(* onSelectNote and selectNoteNow.  A selection is the latest one, and its *)
(* version current, while no other one is queued behind it.                *)

Latest == queued = NoNote

\* finally: only the latest selection gives the editor back.
EndSelect ==
    /\ EndJob("select")
    /\ locked' = (locked /\ ~Latest)

AskSelect(n) ==
    /\ Quiet
    /\ "select" \in scene.ops
    /\ NoDialog
    /\ queued' = n
    /\ locked' = TRUE
    /\ UNCHANGED <<idleVars, jobs>>

StartSelect ==
    /\ alive
    /\ ~HeadQueued
    /\ queued # NoNote
    /\ jobs["select"].stage = "idle"
    /\ jobs' = [jobs EXCEPT !["select"] = [NoJob EXCEPT !.stage = "flush",
                                                        !.path = queued]]
    /\ queued' = NoNote
    /\ UNCHANGED <<idleVars, locked>>

\* Mutant: the selection goes on although the flush failed.
SelectFlushedAnyway ==
    /\ Prompted("select")
    /\ jobs["select"].stage \in {"flushed", "blocked"}
    /\ \/ Latest /\ Continue("select", "stat") /\ UNCHANGED locked
       \/ ~Latest /\ EndSelect
    /\ UNCHANGED <<idleVars, queued>>

SelectFlushed ==
    /\ Prompted("select")
    /\ \/ /\ jobs["select"].stage = "flushed" /\ Latest
          /\ Continue("select", "stat")
          /\ UNCHANGED locked
       \/ /\ jobs["select"].stage = "blocked" \/ ~Latest
          /\ jobs["select"].stage \in {"flushed", "blocked"}
          /\ EndSelect
    /\ UNCHANGED <<idleVars, queued>>

\* statFile answered.  Its failure is ignored, the version check with it.
SelectStat ==
    /\ Quiet
    /\ jobs["select"].stage = "stat"
    /\ \/ /\ ~Latest
          /\ EndSelect
          /\ UNCHANGED <<dirty, saving, issue, pinned, calls>>
       \/ /\ Latest \/ disk[jobs["select"].path] = Missing \/ scene.failing
          /\ dirty' = FALSE
          /\ saving' = FALSE
          /\ ClearSaveIssue
          /\ Continue("select", "reading")
          /\ Send("select")
          /\ UNCHANGED locked
    /\ UNCHANGED <<disk, open, text, baseline, dialog, timer, tasks, lamp,
                   queued, current, answers, watchVars, windowVars, ghostVars>>

\* readFileSnapshot for a selection, a reload or the watcher.
Read(n, snap) == snap = disk[n] \/ (scene.failing /\ snap = Missing)

JobReads(o) ==
    /\ Executed(o)
    /\ jobs[o].stage = "reading"
    /\ \E snap \in Revisions :
        /\ Read(jobs[o].path, snap)
        /\ jobs' = [jobs EXCEPT ![o].stage = "read", ![o].snap = snap]
    /\ UNCHANGED <<disk, pageVars, issueVars, locked, queueVars, queued,
                   current, events, watch, windowVars, ghostVars>>

SelectAnswered ==
    /\ Quiet
    /\ Answered("select")
    /\ LET job == jobs["select"] IN
       \/ /\ ~Latest
          /\ EndSelect
          /\ UNCHANGED <<pageVars, issue, pinned, tasks, saving, current,
                         ghostVars>>
       \/ /\ Latest
          /\ job.snap = Missing
          /\ Continue("select", "listing")
          /\ IF job.path = open
             THEN ClearActiveNoteState(FALSE) /\ tasks' = Outdated(tasks)
             ELSE UNCHANGED <<pageVars, issue, pinned, tasks, saving, current,
                              ghostVars>>
          /\ UNCHANGED locked
       \/ /\ Latest
          /\ job.snap # Missing
          /\ Show(job.path, job.snap, job.snap, FALSE)
          /\ tasks' = Outdated(tasks)
          /\ Continue("select", "listing")
          /\ UNCHANGED <<dirty, issue, pinned, saving, locked>>
    /\ UNCHANGED <<disk, dialog, timer, lamp, queued, calls, watchVars,
                   windowVars>>

\* The index or the file tree was refreshed.
SelectDone ==
    /\ Quiet
    /\ jobs["select"].stage = "listing"
    /\ EndSelect
    /\ UNCHANGED <<idleVars, queued>>

-----------------------------------------------------------------------------
(* confirmNewFile, onCreateBlank, onTemplateSelect *)

AskCreate(n) ==
    /\ UserMay("create")
    /\ NoDialog
    /\ jobs' = [jobs EXCEPT !["create"] = [NoJob EXCEPT !.stage = "flush",
                                                        !.path = n]]
    /\ locked' = TRUE
    /\ UNCHANGED <<idleVars, queued>>

CreateFlushed ==
    /\ Prompted("create")
    /\ \/ /\ MayGoOn("create")
          /\ Continue("create", "applying")
          /\ Send("create")
          /\ UNCHANGED locked
       \/ /\ MustStop("create")
          /\ EndJob("create")
          /\ locked' = FALSE
          /\ UNCHANGED calls
    /\ UNCHANGED <<disk, pageVars, issueVars, queueVars, queued, current,
                   answers, watchVars, windowVars, ghostVars>>

\* createTextFile: a conditional write that expects no file; like a save it
\* may fail with the file in place.
CreateExecuted ==
    /\ Executed("create")
    /\ LET n == jobs["create"].path IN
       \/ /\ disk[n] = Missing
          /\ disk' = [disk EXCEPT ![n] = Blank]
          /\ known' = [known EXCEPT ![n] = {Blank}]
          /\ Seen({<<n, "changed">>})
          /\ \/ jobs' = [jobs EXCEPT !["create"].snap = Blank]
             \/ scene.failing /\ UNCHANGED jobs
       \/ /\ disk[n] # Missing \/ scene.failing
          /\ UNCHANGED <<disk, known, events, jobs>>
    /\ UNCHANGED <<pageVars, issueVars, locked, queueVars, queued, current,
                   watch, windowVars, unsaved, lost>>

\* Mutant: a note that could not be created leaves the editor locked.
CreateAnsweredLocked ==
    /\ Quiet
    /\ Answered("create")
    /\ IF jobs["create"].snap = Missing
       THEN EndJob("create")
       ELSE Continue("create", "listing")
    /\ UNCHANGED <<disk, pageVars, issueVars, locked, queueVars, queued,
                   current, calls, watchVars, windowVars, ghostVars>>

CreateAnswered ==
    /\ Quiet
    /\ Answered("create")
    /\ \/ /\ jobs["create"].snap = Missing
          /\ EndJob("create")
          /\ locked' = FALSE
       \/ /\ jobs["create"].snap # Missing
          /\ Continue("create", "listing")
          /\ UNCHANGED locked
    /\ UNCHANGED <<disk, pageVars, issueVars, queueVars, queued, current,
                   calls, watchVars, windowVars, ghostVars>>

\* The tree and the index were refreshed: enterNotebookFileState.
EnterCreated ==
    /\ Show(jobs["create"].path, Blank, Blank, FALSE)
    /\ tasks' = Outdated(tasks)
    /\ dirty' = FALSE
    /\ saving' = FALSE
    /\ ClearSaveIssue

CreateListed ==
    /\ Quiet
    /\ jobs["create"].stage = "listing"
    /\ \/ EnterCreated
       \/ /\ scene.failing
          /\ UNCHANGED <<pageVars, tasks, saving, issue, pinned, current,
                         ghostVars>>
    /\ EndJob("create")
    /\ locked' = FALSE
    /\ UNCHANGED <<disk, dialog, timer, lamp, queued, ipcVars, watchVars,
                   windowVars>>

-----------------------------------------------------------------------------
(* onDeleteFile and onRenameFile: the editor stays writable meanwhile *)

AskDelete(n) ==
    /\ UserMay("delete")
    /\ NoDialog
    /\ jobs' = [jobs EXCEPT !["delete"] =
                  [NoJob EXCEPT !.path = n,
                     !.stage = IF open = n THEN "flush" ELSE "flushed"]]
    /\ UNCHANGED <<idleVars, locked, queued>>

AskRename(n, to) ==
    /\ UserMay("rename")
    /\ NoDialog
    /\ n # to
    /\ jobs' = [jobs EXCEPT !["rename"] =
                  [NoJob EXCEPT !.path = n, !.to = to, !.held = (open = n),
                     !.stage = IF open = n THEN "flush" ELSE "flushed"]]
    /\ UNCHANGED <<idleVars, locked, queued>>

ClearPendingSaveForPath(n) ==
    IF n = open
    THEN /\ timer' = NoTimer
         /\ tasks' = Disowned(tasks)
         /\ lamp' = FALSE
    ELSE UNCHANGED <<timer, tasks, lamp>>

\* Deleting trusts what the flush returned, renaming asks again.
Flushed(o) ==
    /\ Prompted(o)
    /\ LET job == jobs[o]
           stop == \/ job.stage = "blocked"
                   \/ o = "rename" /\ job.held /\ MustStop(o)
       IN \/ /\ stop
             /\ EndJob(o)
             /\ UNCHANGED <<timer, tasks, lamp, calls>>
          \/ /\ job.stage = "flushed" /\ ~stop
             /\ ClearPendingSaveForPath(job.path)
             /\ Continue(o, "applying")
             /\ Send(o)
    /\ UNCHANGED <<disk, pageVars, issueVars, locked, saving, queued, current,
                   answers, watchVars, windowVars, ghostVars>>

\* snap tells whether the command succeeded.
Applied(o, ok) ==
    jobs' = [jobs EXCEPT ![o].stage = "applied",
                         ![o].snap = IF ok THEN Blank ELSE Missing]

DeleteExecuted ==
    /\ Executed("delete")
    /\ LET n == jobs["delete"].path IN
       \/ /\ disk[n] # Missing
          /\ disk' = [disk EXCEPT ![n] = Missing]
          /\ Seen({<<n, "gone">>})
          /\ Applied("delete", TRUE)
       \/ /\ disk[n] = Missing \/ scene.failing
          /\ Applied("delete", FALSE)
          /\ UNCHANGED <<disk, events>>
    /\ UNCHANGED <<pageVars, issueVars, locked, queueVars, queued, current,
                   watch, windowVars, ghostVars>>

DeleteAnswered ==
    /\ Quiet
    /\ Answered("delete")
    /\ LET job == jobs["delete"] IN
       IF job.snap # Missing /\ job.path = open
       THEN ClearActiveNoteState(TRUE) /\ tasks' = Outdated(tasks)
       ELSE UNCHANGED <<pageVars, issue, pinned, tasks, saving, current,
                        ghostVars>>
    /\ EndJob("delete")
    /\ UNCHANGED <<disk, dialog, locked, timer, lamp, queued, calls,
                   watchVars, windowVars>>

RenameExecuted ==
    /\ Executed("rename")
    /\ LET job == jobs["rename"] IN
       \/ /\ disk[job.path] # Missing
          /\ disk[job.to] = Missing
          /\ disk' = [disk EXCEPT ![job.to] = disk[job.path],
                                  ![job.path] = Missing]
          /\ known' = [known EXCEPT ![job.to] = known[job.path]]
          /\ Seen({<<job.path, "gone">>, <<job.to, "changed">>})
          /\ Applied("rename", TRUE)
       \/ /\ \/ disk[job.path] = Missing
             \/ disk[job.to] # Missing
             \/ scene.failing
          /\ Applied("rename", FALSE)
          /\ UNCHANGED <<disk, known, events>>
    /\ UNCHANGED <<pageVars, issueVars, locked, queueVars, queued, current,
                   watch, windowVars, unsaved, lost>>

\* Whether the renamed note is open was asked before the flush.
RenameAnswered ==
    /\ Quiet
    /\ Answered("rename")
    /\ LET job == jobs["rename"] IN
       open' = IF job.snap # Missing /\ job.held THEN job.to ELSE open
    /\ EndJob("rename")
    /\ UNCHANGED <<disk, text, dirty, baseline, issueVars, locked, queueVars,
                   queued, current, calls, watchVars, windowVars, ghostVars>>

-----------------------------------------------------------------------------
(* The recovery dialog: overwrite, reload, discard *)

\* The user is told which revision the disk has and replaces that one.
AskOverwrite ==
    /\ UserMay("overwrite")
    /\ dialog # "hidden"
    /\ Paused
    /\ timer' = NoTimer
    /\ dirty' = TRUE
    /\ locked' = TRUE
    /\ tasks' = Append(tasks, NewTask(issue.path, text, TRUE, issue.actual,
                                      {"overwrite"}))
    /\ jobs' = [jobs EXCEPT !["overwrite"] =
                  [NoJob EXCEPT !.stage = "saving", !.held = (dialog = "close")]]
    /\ known' = IF issue.path = NoNote THEN known
               ELSE [known EXCEPT ![issue.path] = @ \cup {issue.actual}]
    /\ UNCHANGED <<disk, open, text, baseline, issueVars, saving, lamp, queued,
                   current, ipcVars, watchVars, windowVars, unsaved, lost>>

OverwriteDone ==
    /\ Prompted("overwrite")
    /\ locked' = FALSE
    /\ IF jobs["overwrite"].stage = "saved"
       THEN /\ dialog' = "hidden"
            /\ IF jobs["overwrite"].held THEN Continue("overwrite", "settling")
                                         ELSE EndJob("overwrite")
       ELSE /\ EndJob("overwrite")
            /\ UNCHANGED dialog
    /\ UNCHANGED <<disk, pageVars, issue, pinned, queueVars, queued, current,
                   ipcVars, watchVars, windowVars, ghostVars>>

AskReload ==
    /\ UserMay("reload")
    /\ dialog # "hidden"
    /\ issue # NoIssue /\ issue.kind = "conflict"
    /\ pinned' = TRUE
    /\ locked' = TRUE
    /\ jobs' = [jobs EXCEPT !["reload"] =
                  [NoJob EXCEPT !.stage = "reading", !.path = issue.path,
                                !.held = (dialog = "close")]]
    /\ Send("reload")
    /\ UNCHANGED <<disk, pageVars, issue, dialog, queueVars, queued, current,
                   answers, watchVars, windowVars, ghostVars>>

\* The user chose the version on disk, so the typed text may go.
AdoptReloaded(job) ==
    /\ Show(open, job.snap, job.snap, TRUE)
    /\ tasks' = Outdated(tasks)
    /\ dirty' = FALSE
    /\ ClearSaveIssue
    /\ dialog' = "hidden"
    /\ IF job.held THEN Continue("reload", "settling") /\ UNCHANGED locked
                   ELSE EndJob("reload") /\ locked' = FALSE

ReloadAnswered ==
    /\ Quiet
    /\ Answered("reload")
    /\ LET job == jobs["reload"] IN
       \/ /\ job.snap # Missing /\ pinned /\ job.path = open
          /\ AdoptReloaded(job)
       \/ /\ job.snap # Missing /\ ~(pinned /\ job.path = open)
          /\ EndJob("reload")
          /\ locked' = FALSE
          /\ UNCHANGED <<pageVars, issueVars, tasks, current, ghostVars>>
       \/ /\ job.snap = Missing
          /\ Report(IoIssue(job.path))
          /\ EndJob("reload")
          /\ locked' = FALSE
          /\ UNCHANGED <<pageVars, dialog, tasks, current, ghostVars>>
    /\ UNCHANGED <<disk, timer, saving, lamp, queued, calls, watchVars,
                   windowVars>>

-----------------------------------------------------------------------------
(* requestDesktopWindowClose, discardUnsavedAndClose, closeCurrentWindow *)

\* The window's own close button works whatever the page shows.
AskClose ==
    /\ UserMay("close")
    /\ locked' = TRUE
    /\ jobs' = [jobs EXCEPT !["close"] = [NoJob EXCEPT !.stage = "flush"]]
    /\ UNCHANGED <<idleVars, queued>>

CloseFlushed ==
    /\ Prompted("close")
    /\ \/ /\ MayGoOn("close")
          /\ Continue("close", "settling")
          /\ UNCHANGED <<locked, dialog>>
       \/ /\ MustStop("close")
          /\ EndJob("close")
          /\ locked' = FALSE
          /\ dialog' = "close"
    /\ UNCHANGED <<disk, pageVars, issue, pinned, queueVars, queued, current,
                   ipcVars, watchVars, windowVars, ghostVars>>

Discard ==
    /\ UserMay("close")
    /\ dialog = "close"
    /\ jobs' = [jobs EXCEPT !["close"] = [NoJob EXCEPT !.stage = "settling",
                                                       !.held = TRUE]]
    /\ UNCHANGED <<idleVars, locked, queued>>

Discarding(o) == o = "close" /\ jobs[o].held

\* The completion feedback settled: the window is destroyed, or cannot be.
CloseWindow(o) ==
    /\ Quiet
    /\ o \in {"close", "overwrite", "reload"}
    /\ jobs[o].stage = "settling"
    /\ \/ /\ alive' = FALSE
          /\ lost' = (lost \/ (unsaved /\ ~Discarding(o)))
          /\ UNCHANGED <<jobs, locked>>
       \/ /\ scene.failing
          /\ EndJob(o)
          /\ locked' = (locked /\ (o = "overwrite" \/ Discarding(o)))
          /\ UNCHANGED <<alive, lost>>
    /\ UNCHANGED <<scene, disk, pageVars, issueVars, queueVars, queued,
                   current, ipcVars, watchVars, unsaved, known>>

-----------------------------------------------------------------------------
(* flushWatcherEvents: the batch collected in 120 ms *)

WatchFlush ==
    /\ Quiet
    /\ watch.stage = "idle"
    /\ events # {}
    /\ events' = {}
    /\ watch' = IF open # NoNote /\ \E kind \in {"gone", "changed"} :
                                        <<open, kind>> \in events
                THEN [NoWatch EXCEPT !.stage = "listing", !.path = open,
                                     !.gone = (<<open, "gone">> \in events)]
                ELSE watch
    /\ UNCHANGED <<disk, pageVars, issueVars, locked, queueVars, jobs, queued,
                   current, ipcVars, windowVars, ghostVars>>

\* The tree and the index were refreshed: capture, then read.
WatchListed ==
    /\ Quiet
    /\ watch.stage = "listing"
    /\ watch' = [watch EXCEPT !.stage = "reading"]
    /\ current' = current \cup {"watch"}
    /\ Send("watch")
    /\ UNCHANGED <<disk, pageVars, issueVars, locked, queueVars, jobs, queued,
                   answers, events, windowVars, ghostVars>>

WatchReads ==
    /\ Executed("watch")
    /\ \E snap \in Revisions :
        /\ Read(watch.path, snap)
        /\ watch' = [watch EXCEPT !.stage = "read", !.snap = snap]
    /\ UNCHANGED <<disk, pageVars, issueVars, locked, queueVars, jobs, queued,
                   current, events, windowVars, ghostVars>>

StillWatched == watch.path = open /\ "watch" \in current

\* The file is readable: a clean page follows it.
WatchAdopts ==
    /\ Show(open, watch.snap, watch.snap, FALSE)
    /\ tasks' = Outdated(tasks)
    /\ ClearSaveIssue
    /\ UNCHANGED <<dirty, saving, dialog>>

\* It is not: the page is emptied, or says that its file is missing.
WatchMisses ==
    \/ /\ watch.gone /\ dirty
       /\ Report(DiskIssue(open, Missing))
       /\ dialog' = "recover"
       /\ UNCHANGED <<pageVars, tasks, saving, current, ghostVars>>
    \/ /\ watch.gone /\ ~dirty
       /\ ClearActiveNoteState(FALSE)
       /\ tasks' = Outdated(tasks)
       /\ UNCHANGED dialog
    \/ /\ ~watch.gone /\ ~dirty
       /\ Report(IoIssue(open))
       /\ UNCHANGED <<pageVars, tasks, saving, current, ghostVars, dialog>>
    \/ /\ ~watch.gone /\ dirty
       /\ UNCHANGED <<pageVars, issueVars, tasks, saving, current, ghostVars>>

WatchAnswered ==
    /\ Quiet
    /\ Answered("watch")
    /\ watch' = NoWatch
    /\ \/ StillWatched /\ watch.snap = Missing /\ WatchMisses
       \/ StillWatched /\ watch.snap # Missing /\ ~dirty /\ WatchAdopts
       \/ /\ ~StillWatched \/ (watch.snap # Missing /\ dirty)
          /\ UNCHANGED <<pageVars, issueVars, tasks, saving, current,
                         ghostVars>>
    /\ UNCHANGED <<disk, locked, timer, lamp, jobs, queued, calls, events,
                   windowVars>>

-----------------------------------------------------------------------------
Init ==
    /\ scene \in Scenes
    /\ disk \in [Notes -> Revisions]
    /\ \A n \in Notes \ scene.notes : disk[n] = Missing
    /\ \E n \in scene.notes :
        /\ disk[n] # Missing
        /\ open = n
        /\ text = disk[n]
        /\ baseline = disk[n]
        /\ known = [m \in Notes |-> IF m = n THEN {disk[n]} ELSE {}]
    /\ dirty = FALSE
    /\ issue = NoIssue /\ pinned = FALSE /\ dialog = "hidden"
    /\ locked = FALSE
    /\ timer = NoTimer /\ tasks = <<>> /\ saving = FALSE /\ lamp = FALSE
    /\ jobs = [o \in AllOps |-> NoJob] /\ queued = NoNote
    /\ current = {} /\ calls = <<>> /\ answers = <<>>
    /\ events = {} /\ watch = NoWatch
    /\ alive = TRUE /\ unsaved = FALSE /\ lost = FALSE

\* What the user and other programs may do, and need not.
User ==
    \/ \E c \in Contents : Type(c)
    \/ CancelDialog
    \/ \E n \in scene.notes : AskSelect(n) \/ AskCreate(n) \/ AskDelete(n)
    \/ \E n, m \in scene.notes : AskRename(n, m)
    \/ AskRetry \/ AskOverwrite \/ AskReload \/ AskClose \/ Discard

\* Continuations of the page that run before any other event.
Continuation ==
    \/ StartTask
    \/ \E o \in AllOps : Flush(o) \/ FlushGoesOn(o)
    \/ StartSelect \/ SelectFlushed \/ CreateFlushed \/ CloseFlushed
    \/ Flushed("delete") \/ Flushed("rename")
    \/ RetryDone \/ OverwriteDone

\* The Rust side executes the next command.
Backend ==
    \/ SaveExecuted \/ CreateExecuted \/ DeleteExecuted \/ RenameExecuted
    \/ JobReads("select") \/ JobReads("reload") \/ WatchReads

\* Awaited events of the page, one chain of them per activity.
SaveEvent == SaveAnswered \/ Indexed \/ Settled
OperationEvent ==
    \/ SelectStat \/ SelectAnswered \/ SelectDone
    \/ CreateAnswered \/ CreateListed
    \/ DeleteAnswered \/ RenameAnswered \/ ReloadAnswered
    \/ \E o \in AllOps : CloseWindow(o)
WatchEvent == WatchFlush \/ WatchListed \/ WatchAnswered

Next ==
    \/ User \/ (\E n \in scene.notes : Outside(n))
    \/ Continuation \/ Backend
    \/ SaveEvent \/ OperationEvent \/ WatchEvent \/ LampOff \/ TimerFires

\* Promise continuations run and the Rust side executes what it is sent.  An
\* event of the page waits while continuations run and is then handled: the
\* browser's task queue starves none of them.  The save timer fires if it is
\* not reset for ever.
Fairness ==
    /\ WF_vars(Continuation)
    /\ WF_vars(Backend)
    /\ SF_vars(SaveEvent)
    /\ SF_vars(OperationEvent)
    /\ SF_vars(WatchEvent)
    /\ SF_vars(LampOff)
    /\ SF_vars(TimerFires)

Spec == Init /\ [][Next]_vars
FairSpec == Spec /\ Fairness

-----------------------------------------------------------------------------
(* Safety *)

\* A page that shows no unsaved changes (isDirty) has none: the text in the
\* editor was opened from the disk or reached it.
CleanMeansSaved == ~dirty => ~unsaved

\* Typed text is never replaced in the editor, and the window never closed
\* over it, before a save brought it to the disk; unless the user asked to
\* reload, delete or discard it.
NoTypingLost == ~lost

SaveTakesEffect == Executed("save") /\ disk' # disk

\* A save replaces only a version the user knows of: opened, saved before, or
\* shown by the recovery dialog before "overwrite" was chosen.
NoBlindOverwrite ==
    [][SaveTakesEffect => LET n == tasks[1].path IN disk[n] \in known[n]]_vars

\* While the page is clean no save changes the disk to something else than
\* what it shows: a draft the user gave up does not come back.
DiscardedStaysDiscarded ==
    [][SaveTakesEffect /\ ~dirty => tasks[1].text = text]_vars

\* What is saved under a path was typed into the note open under that path.
SavesGoToTheOpenNote == [][SaveTakesEffect => tasks[1].path = open]_vars

\* A save issue blocks selecting, creating and closing; it can be resolved
\* only while a note is open (save again, overwrite, reload).
ErrorIsActionable == issue # NoIssue => open # NoNote

\* The issue shown is about the note shown: "overwrite" writes the text of
\* the editor to the issue's path.
IssueIsAboutTheNote == issue # NoIssue => issue.path = open

\* When nothing is unsaved and no save is under way, the revision the next
\* save will expect is that of the text shown.
CleanIsBaseline ==
    ~dirty /\ tasks = <<>> /\ open # NoNote => text = baseline

\* "Saving" is shown only while a save runs or its switch-off is scheduled.
SavingHasACause == saving => lamp \/ tasks # <<>>

-----------------------------------------------------------------------------
(* Liveness, under FairSpec *)

\* Text that stays in the editor is saved without the user doing anything, or
\* an issue tells why it is not.
DirtyResolves ==
    \A c \in Contents :
        (dirty /\ text = c) ~>
            (~dirty \/ text # c \/ issue # NoIssue \/ ~alive)

\* An operation gives the editor back, unless it ends in the recovery dialog
\* or the user selects yet another note.
LockEnds ==
    locked ~> (~locked \/ queued # NoNote \/ dialog # "hidden" \/ ~alive)
=============================================================================
