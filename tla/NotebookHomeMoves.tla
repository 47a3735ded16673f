------------------------- MODULE NotebookHomeMoves --------------------------
(***************************************************************************)
(* Leaving the open note: selecting another note, creating one, closing    *)
(* the window.  The flush brings what was typed to the disk before the     *)
(* page shows something else.                                              *)
(***************************************************************************)
EXTENDS NotebookHomeProofs

USE DEF pageVars, issueVars, queueVars, ipcVars, watchVars,
        windowVars, ghostVars, idleVars

\* The operations that leave the open note.
Movers == {"select", "create", "close"}

\* The user types, saves again, and has one way of leaving the note; no other
\* program uses the folder.  Closing is taken where no command fails: a save
\* that fails opens the dialog about closing.
Moving ==
    /\ ~scene.outsiders /\ ~scene.watching
    /\ \E o \in Movers : scene.ops \subseteq {o, "retry"}
    /\ "close" \in scene.ops => ~scene.failing

\* The save under way has reached the disk, and the page has not heard of it.
Landed == tasks # <<>> /\ tasks[1].stage = "calling" /\ tasks[1].status = "saved"

\* The disk has another version of the open note than the page believes: a
\* save failed after the file was replaced.
Diverged == open # NoNote /\ disk[open] # baseline /\ ~Landed

\* The steps of a mover after its flush let it go on.
Gone == {"flushed", "stat", "reading", "read", "applying", "listing", "settling"}

\* The saves, the disk and the baseline of the open note.
DiskInv ==
    /\ \A i \in 1..Len(tasks) : tasks[i].stage = "queued" => tasks[i].expected = Baseline
    /\ tasks # <<>> /\ tasks[1].stage = "calling" =>
          /\ tasks[1].expected = baseline
          /\ tasks[1].status = "saved" => disk[open] = tasks[1].actual
          /\ tasks[1].status = "conflict" => disk[open] # baseline
    /\ tasks # <<>> /\ tasks[1].stage \in {"indexing", "settling"} => disk[open] = baseline
    /\ Diverged => dirty
    /\ dialog # "hidden" \/ Paused => Diverged
    /\ open = NoNote => ~dirty

\* The last save of the chain is of the text shown and will wake the job of o.
EndsWith(o) ==
    tasks # <<>> /\ o \in tasks[Len(tasks)].wakes /\ tasks[Len(tasks)].fresh

\* While a mover is in progress the editor is locked, so that the save it waits
\* for is of the text shown; when it goes on nothing is unsaved or scheduled.
\* Where the disk diverged the save is refused and the mover gives up.
MoverFits(o) ==
    /\ jobs[o].stage # "idle" => locked \/ Diverged
    /\ jobs[o].stage \notin {"awaiting", "awaited", "applied"}
    /\ jobs[o].stage \in {"saving", "draining"} =>
           Diverged \/ (timer = NoTimer /\ EndsWith(o))
    /\ jobs[o].stage = "draining" => ~dirty
    /\ jobs[o].stage \in {"saved", "drained"} \cup Gone =>
           tasks = <<>> /\ timer = NoTimer /\ ~dirty
    /\ jobs[o].stage \in Gone => issue = NoIssue

\* What was read for a selection, or created, is what the disk has.
ReadInv ==
    /\ jobs["select"].stage = "read" /\ jobs["select"].snap # Missing =>
           disk[jobs["select"].path] = jobs["select"].snap
    /\ jobs["create"].snap # Missing =>
           /\ jobs["create"].stage \in {"applying", "listing"}
           /\ disk[jobs["create"].path] = Blank
    /\ jobs["create"].stage = "listing" => jobs["create"].snap # Missing

\* Saving again waits for its own save, and reports when it failed.
RetryInv ==
    /\ jobs["retry"].stage \in {"idle", "saving", "saved", "unsaved"}
    /\ jobs["retry"].stage # "idle" => open # NoNote
    /\ jobs["retry"].stage = "saving" => \E i \in 1..Len(tasks) : "retry" \in tasks[i].wakes
    /\ jobs["retry"].stage = "unsaved" => issue # NoIssue

\* Where no command fails no save fails.
CalmInv ==
    ~scene.failing =>
        /\ issue = NoIssue /\ ~Diverged
        /\ tasks # <<>> => tasks[1].status \in {"none", "saved"}
        /\ \A o \in AllOps : jobs[o].stage \notin {"unsaved", "blocked"}

\* The baseline of the open note is a version the user knows of.
KnownInv ==
    /\ open # NoNote => baseline \in known[open]
    /\ Landed => tasks[1].actual \in known[open]

\* A selection that waits keeps the editor locked.
QueuedInv == queued # NoNote => locked \/ Diverged

\* The invariant of leaving the open note.
MoveInv ==
    /\ OpenNoteInv /\ ChainInv /\ NoNews /\ DiskInv
    /\ \A o \in Movers : MoverFits(o)
    /\ ReadInv /\ RetryInv /\ CalmInv /\ KnownInv /\ QueuedInv

-----------------------------------------------------------------------------
(***************************************************************************)
(* What can happen                                                         *)
(***************************************************************************)

\* Only one mover is in progress, and no other operation but saving again.
LEMMA OneMover ==
    ASSUME Base, Moving
    PROVE  /\ \A o, q \in Movers : jobs[o].stage # "idle" /\ jobs[q].stage # "idle" => o = q
           /\ \A o \in AllOps \ Movers : o # "retry" => jobs[o].stage = "idle"
           /\ Movers \subseteq AllOps /\ "retry" \in AllOps
BY DEF Base, JobInv, Moving, Movers, AllOps

\* The text is replaced only after the flush of a mover.
LEMMA MovingIsSteady == ASSUME Base, Moving, MoveInv PROVE Steady
<1>1. "select" \in Movers /\ "create" \in Movers
    BY DEF Movers
<1> QED  BY <1>1 DEF Moving, MoveInv, MoverFits, RetryInv, NoNews, Steady, Movers, Gone

\* The steps that are possible.
LEMMA MoverActions ==
    ASSUME Base, Moving, MoveInv, [Next]_vars
    PROVE  \/ (\E c \in Contents : Type(c)) \/ CancelDialog \/ AskRetry
           \/ (\E n \in scene.notes : AskSelect(n) \/ AskCreate(n)) \/ AskClose
           \/ StartTask \/ (\E o \in Movers : Flush(o) \/ FlushGoesOn(o))
           \/ StartSelect \/ SelectFlushed \/ CreateFlushed
           \/ (CloseFlushed /\ MayGoOn("close")) \/ RetryDone
           \/ SaveExecuted \/ CreateExecuted \/ JobReads("select")
           \/ SaveAnswered \/ Indexed \/ Settled
           \/ SelectStat \/ SelectAnswered \/ SelectDone
           \/ CreateAnswered \/ CreateListed \/ (CloseWindow("close") /\ UNCHANGED <<jobs, locked>>)
           \/ LampOff \/ TimerFires \/ UNCHANGED vars
<1> USE DEF Base
<1>o. /\ \A o \in {"delete", "rename", "overwrite", "reload"} :
            o \notin scene.ops /\ jobs[o].stage = "idle" /\ o \in AllOps /\ o \in Callers
    BY OneMover DEF Moving, Movers, AllOps, Callers
<1>c. "close" \in scene.ops =>
          /\ ~scene.failing /\ ~Diverged /\ issue = NoIssue /\ jobs["close"].stage # "blocked"
    BY DEF Moving, MoveInv, CalmInv, AllOps
<1>d. dialog # "hidden" => Diverged
    BY DEF MoveInv, DiskInv
<1>1. CASE User
    <2>1. \A n, m \in scene.notes : ~AskDelete(n) /\ ~AskRename(n, m)
        BY <1>o DEF AskDelete, AskRename, UserMay
    <2>2. ~AskOverwrite /\ ~AskReload
        BY <1>o DEF AskOverwrite, AskReload, UserMay
    <2>3. ~Discard
        BY <1>c, <1>d DEF Discard, UserMay
    <2> QED  BY <1>1, <2>1, <2>2, <2>3 DEF User
<1>2. CASE Continuation
    <2>1. ~Flushed("delete") /\ ~Flushed("rename") /\ ~OverwriteDone
        BY <1>o DEF Flushed, OverwriteDone, Prompted, Prompt
    <2>2. CloseFlushed => MayGoOn("close")
        <3> SUFFICES ASSUME CloseFlushed, MustStop("close")  PROVE FALSE
            BY DEF CloseFlushed
        <3>1. jobs["close"].stage \in {"flushed", "blocked"}
            BY DEF MustStop
        <3>2. "close" \in scene.ops
            BY <3>1 DEF JobInv, AllOps
        <3>3. jobs["close"].stage = "flushed" => ~dirty
            BY DEF MoveInv, MoverFits, Movers, Gone
        <3> QED  BY <1>c, <3>1, <3>2, <3>3 DEF MustStop
    <2>3. ASSUME NEW o \in AllOps, Flush(o) \/ FlushGoesOn(o)  PROVE o \in Movers
        <3>1. jobs[o].stage # "idle" /\ (o = "retry" => jobs[o].stage = "flush")
            BY <2>3 DEF Flush, FlushGoesOn, Flushing
        <3>2. jobs["retry"].stage # "flush"
            BY DEF MoveInv, RetryInv
        <3> QED  BY <3>1, <3>2, OneMover
    <2> QED  BY <1>2, <2>1, <2>2, <2>3 DEF Continuation
<1>3. CASE Backend
    <2>1. ~DeleteExecuted /\ ~RenameExecuted /\ ~JobReads("reload")
        BY <1>o, AtHead DEF DeleteExecuted, RenameExecuted, JobReads, Sent
    <2>2. ~WatchReads
        BY AtHead, CallerNames DEF WatchReads, Sent, MoveInv, NoNews
    <2> QED  BY <1>3, <2>1, <2>2 DEF Backend
<1>4. CASE OperationEvent
    <2>1. ~DeleteAnswered /\ ~RenameAnswered /\ ~ReloadAnswered
        BY <1>o, AtHead DEF DeleteAnswered, RenameAnswered, ReloadAnswered, Replied
    <2>2. ASSUME NEW o \in AllOps, CloseWindow(o)
          PROVE  CloseWindow("close") /\ UNCHANGED <<jobs, locked>>
        <3>1. o = "close" /\ jobs[o].stage = "settling"
            BY <1>o, <2>2 DEF CloseWindow
        <3>2. ~scene.failing
            BY <1>c, <3>1 DEF JobInv
        <3> QED  BY <2>2, <3>1, <3>2 DEF CloseWindow
    <2> QED  BY <1>4, <2>1, <2>2 DEF OperationEvent
<1>5. ~WatchEvent
    BY AtHead, CallerNames
    DEF WatchEvent, WatchFlush, WatchListed, WatchAnswered, Replied, MoveInv, NoNews
<1>6. \A n \in scene.notes : ~Outside(n)
    BY DEF Outside, Moving
<1> QED  BY <1>1, <1>2, <1>3, <1>4, <1>5, <1>6 DEF Next, SaveEvent

\* What a step does to the disk, the lock, the dialog and the issue.
MoveStep ==
    /\ \/ UNCHANGED <<open, baseline>> /\ (open # NoNote => disk'[open] = disk[open])
       \/ UNCHANGED <<open, baseline>> /\ SaveExecuted
       \/ UNCHANGED <<open, disk>> /\ Landed /\ SaveAnswered /\ SaveDone(tasks[1])
       \/ /\ tasks = <<>> /\ ~dirty /\ ~dirty' /\ disk' = disk
          /\ open' = NoNote \/ disk[open'] = baseline'
    /\ dirty' => dirty \/ (~locked /\ open' # NoNote)
    /\ dialog' # "hidden" \/ Paused' =>
          dialog # "hidden" \/ Paused \/ (SaveAnswered /\ SaveConflict(tasks[1]))
    /\ issue' # NoIssue =>
          issue # NoIssue \/ (SaveAnswered /\ (SaveConflict(tasks[1]) \/ SaveFailed(tasks[1])))
    /\ locked =>
          \/ locked' \/ dialog # "hidden"
          \/ queued' = NoNote /\ \A o \in Movers : jobs'[o].stage = "idle"
    /\ queued' # NoNote => queued' = queued \/ locked'

\* Every step is a MoveStep.
LEMMA MoveSteps ==
    ASSUME Base, Moving, MoveInv, [Next]_vars
    PROVE  MoveStep
<1> USE DEF Base
<1>h. tasks # <<>> => tasks[1].path = open /\ open # NoNote
    BY HeadTask DEF MoveInv, ChainInv
<1>p. Paused' => issue' # NoIssue /\ issue'.kind # "io"
    BY DEF Paused
<1>i. \A n : IoIssue(n).kind = "io"
    BY DEF IoIssue
<1>k. ASSUME UNCHANGED <<open, baseline, disk>>, dirty' => dirty \/ (~locked /\ open # NoNote),
             issue' = issue \/ issue' = NoIssue, dialog' = dialog \/ dialog' = "hidden",
             locked' = locked \/ locked' = TRUE,
             queued' = queued \/ queued' = NoNote \/ locked'
      PROVE  MoveStep
    BY <1>k DEF MoveStep, Paused
<1>m. /\ "select" \in Movers /\ "create" \in Movers /\ "close" \in Movers
      /\ Movers \subseteq AllOps /\ Movers \subseteq Callers
    BY OneMover, CallerNames DEF Movers
<1>q. jobs["create"].stage # "idle" \/ jobs["close"].stage # "idle" => queued = NoNote
    BY <1>m DEF JobInv, RequestInv, Moving, Movers
<1>e. ASSUME NEW o \in Movers, EndJob(o), jobs[o].stage # "idle"
      PROVE  \A q \in Movers : jobs'[q].stage = "idle"
    <2>1. \A q \in AllOps \ {o} : jobs'[q] = jobs[q]
        BY <1>e, <1>m, JobEnds
    <2>2. jobs'[o].stage = "idle"
        BY <1>e, <1>m, JobEnds DEF NoJob
    <2> QED  BY <1>e, <1>m, <2>1, <2>2, OneMover
<1>s. ASSUME EndSelect, jobs["select"].stage # "idle", UNCHANGED <<open, baseline, disk, queued>>,
             dirty' => dirty, issue' = issue \/ issue' = NoIssue, dialog' = dialog
      PROVE  MoveStep
    <2>1. \A q \in Movers : jobs'[q].stage = "idle"
        BY <1>e, <1>m, <1>s DEF EndSelect
    <2>2. locked => locked' \/ queued' = NoNote
        BY <1>s DEF EndSelect, Latest
    <2>3. Paused' => Paused
        BY <1>s DEF Paused
    <2> QED  BY <1>s, <2>1, <2>2, <2>3 DEF MoveStep
<1>n. ASSUME jobs["create"].stage # "idle", EndJob("create"),
             UNCHANGED <<open, baseline, disk, queued, dirty, issue, dialog>>
      PROVE  MoveStep
    <2>1. \A q \in Movers : jobs'[q].stage = "idle"
        BY <1>e, <1>m, <1>n
    <2>2. Paused' => Paused
        BY <1>n DEF Paused
    <2> QED  BY <1>n, <1>q, <2>1, <2>2 DEF MoveStep
<1>1. CASE (\E c \in Contents : Type(c)) \/ AskClose
              \/ \E n \in scene.notes : AskSelect(n) \/ AskCreate(n)
    BY <1>k, <1>1 DEF Type, AskSelect, AskCreate, AskClose, ClearSaveIssue, Report
<1>2. CASE CancelDialog
    BY <1>2 DEF CancelDialog, MoveStep, Paused
<1>3. CASE AskRetry
    <2>1. UNCHANGED <<disk, open, baseline, issue, locked, queued>> /\ ~locked
        BY <1>3 DEF AskRetry
    <2>2. dirty' => dirty \/ open' # NoNote
        BY <1>3, <2>1 DEF AskRetry
    <2>3. dialog' = dialog \/ Paused
        BY <1>3 DEF AskRetry
    <2>4. Paused' => Paused
        BY <2>1 DEF Paused
    <2> QED  BY <2>1, <2>2, <2>3, <2>4 DEF MoveStep
<1>4. CASE StartTask
    BY <1>h, <1>k, <1>4 DEF StartTask, HeadQueued
<1>5. CASE StartSelect \/ SelectFlushed \/ CreateFlushed
           \/ \E o \in Movers : Flush(o) \/ FlushGoesOn(o)
    <2>1. CASE StartSelect \/ \E o \in Movers : Flush(o) \/ FlushGoesOn(o)
        BY <1>k, <2>1 DEF StartSelect, Flush, FlushGoesOn
    <2>2. CASE SelectFlushed
        <3>1. jobs["select"].stage # "idle"
            BY <2>2 DEF SelectFlushed, Prompted, Prompt
        <3> QED  BY <1>k, <1>s, <2>2, <3>1 DEF SelectFlushed
    <2>3. CASE CreateFlushed
        <3>1. jobs["create"].stage # "idle"
            BY <2>3 DEF CreateFlushed, Prompted, Prompt
        <3> QED  BY <1>k, <1>n, <2>3, <3>1 DEF CreateFlushed
    <2> QED  BY <1>5, <2>1, <2>2, <2>3
<1>6. CASE CloseFlushed /\ MayGoOn("close")
    BY <1>k, <1>6 DEF CloseFlushed, MayGoOn, MustStop
<1>7. CASE RetryDone
    BY <1>k, <1>7 DEF RetryDone, MoveInv, RetryInv
<1>8. CASE SaveExecuted
    BY <1>8 DEF SaveExecuted, MoveStep, Paused
<1>9. CASE CreateExecuted
    <2> DEFINE n == jobs["create"].path
    <2>1. jobs["create"].stage = "applying"
        BY <1>9, <1>m, AtHead DEF CreateExecuted, Sent
    <2>2. n \in Notes /\ tasks = <<>> /\ ~dirty
        BY <2>1, <1>m DEF JobInv, OnNotes, MoveInv, MoverFits, Gone
    <2>3. ASSUME open # NoNote  PROVE disk[open] # Missing
        <3>1. disk[open] = baseline
            BY <2>2, <2>3 DEF MoveInv, DiskInv, Diverged, Landed
        <3>2. baseline = text /\ text \in Contents
            BY <2>2, <2>3 DEF MoveInv, OpenNoteInv, TypeOK
        <3> QED  BY <3>1, <3>2, MissingAssumption
    <2>4. disk' = disk \/ (disk[n] = Missing /\ disk' = [disk EXCEPT ![n] = Blank])
        BY <1>9 DEF CreateExecuted
    <2>5. open # NoNote => disk'[open] = disk[open]
        BY <2>2, <2>3, <2>4 DEF TypeOK
    <2> QED  BY <1>9, <2>5 DEF CreateExecuted, MoveStep, Paused
<1>10. CASE JobReads("select") \/ Indexed \/ Settled
    BY <1>k, <1>10 DEF JobReads, Indexed, Settled
<1>11. CASE SaveAnswered
    <2>1. Landed \/ ~SaveDone(tasks[1])
        BY <1>11, AtHead, CallerNames DEF SaveAnswered, Replied, SaveDone, Landed
    <2>2. UNCHANGED <<open, disk, dirty, locked, queued>>
        BY <1>11 DEF SaveAnswered
    <2>3. CASE SaveConflict(tasks[1])
        BY <1>11, <2>2, <2>3 DEF MoveStep, SaveConflict
    <2>4. CASE SaveFailed(tasks[1])
        <3>1. issue' = issue \/ issue'.kind = "io"
            BY <1>i, <2>4 DEF SaveFailed, Report
        <3>2. Paused' => Paused
            BY <1>p, <3>1 DEF Paused
        <3>3. UNCHANGED <<baseline, dialog>>
            BY <2>4 DEF SaveFailed
        <3> QED  BY <1>11, <2>2, <2>4, <3>2, <3>3 DEF MoveStep
    <2>5. CASE SaveDone(tasks[1])
        <3>1. (issue' = issue \/ issue' = NoIssue) /\ dialog' = dialog
            BY <2>5 DEF SaveDone, ClearSaveIssue, Report
        <3>2. Paused' => Paused
            BY <3>1 DEF Paused
        <3> QED  BY <1>11, <2>1, <2>2, <2>5, <3>1, <3>2 DEF MoveStep
    <2> QED  BY <1>11, <2>3, <2>4, <2>5 DEF SaveAnswered
<1>12. CASE SelectStat \/ SelectDone
    BY <1>k, <1>s, <1>12 DEF SelectStat, SelectDone, ClearSaveIssue, Report
<1>13. CASE SelectAnswered
    <2>1. jobs["select"].stage = "read"
        BY <1>13, <1>m, AtHead DEF SelectAnswered, Replied
    <2>2. tasks = <<>> /\ ~dirty
        BY <1>m, <2>1 DEF MoveInv, MoverFits, Gone
    <2>3. UNCHANGED <<disk, dialog, queued>>
        BY <1>13 DEF SelectAnswered
    <2>4. CASE EndSelect /\ UNCHANGED <<pageVars, issue>>
        BY <1>s, <2>1, <2>3, <2>4
    <2>5. CASE UNCHANGED <<pageVars, issue, locked>>
        BY <1>k, <2>3, <2>5
    <2>6. CASE ClearActiveNoteState(FALSE) /\ locked' = locked
        <3>1. open' = NoNote /\ ~dirty' /\ issue' = NoIssue
            BY <2>6 DEF ClearActiveNoteState, Show, ClearSaveIssue, Report
        <3>2. ~Paused'
            BY <3>1 DEF Paused
        <3> QED  BY <2>2, <2>3, <2>6, <3>1, <3>2 DEF MoveStep
    <2>7. CASE /\ jobs["select"].snap # Missing /\ UNCHANGED <<dirty, issue, locked>>
               /\ Show(jobs["select"].path, jobs["select"].snap, jobs["select"].snap, FALSE)
        <3>1. disk[open'] = baseline'
            BY <2>1, <2>7 DEF Show, MoveInv, ReadInv
        <3>2. Paused' => Paused
            BY <2>7 DEF Paused
        <3> QED  BY <2>2, <2>3, <2>7, <3>1, <3>2 DEF MoveStep
    <2> QED  BY <1>13, <2>4, <2>5, <2>6, <2>7 DEF SelectAnswered
<1>14. CASE CreateAnswered
    <2>1. jobs["create"].stage = "applying"
        BY <1>14, <1>m, AtHead DEF CreateAnswered, Replied
    <2> QED  BY <1>k, <1>n, <1>14, <2>1 DEF CreateAnswered
<1>15. CASE CreateListed
    <2>1. jobs["create"].stage = "listing"
        BY <1>15 DEF CreateListed
    <2>2. tasks = <<>> /\ ~dirty /\ disk[jobs["create"].path] = Blank
        BY <1>m, <2>1 DEF MoveInv, MoverFits, Gone, ReadInv
    <2>3. UNCHANGED <<disk, dialog, queued>> /\ EndJob("create")
        BY <1>15 DEF CreateListed
    <2>4. CASE UNCHANGED <<pageVars, issue>>
        BY <1>n, <2>1, <2>3, <2>4
    <2>5. CASE EnterCreated
        <3>1. disk[open'] = baseline' /\ ~dirty' /\ issue' = NoIssue
            BY <2>2, <2>5 DEF EnterCreated, Show, ClearSaveIssue, Report
        <3>2. ~Paused'
            BY <3>1 DEF Paused
        <3>3. \A q \in Movers : jobs'[q].stage = "idle"
            BY <1>e, <1>m, <2>1, <2>3
        <3>4. queued' = NoNote
            BY <1>q, <2>1, <2>3
        <3> QED  BY <2>2, <2>3, <3>1, <3>2, <3>3, <3>4 DEF MoveStep
    <2> QED  BY <1>15, <2>4, <2>5 DEF CreateListed
<1>16. CASE (CloseWindow("close") /\ UNCHANGED <<jobs, locked>>) \/ LampOff \/ TimerFires
            \/ UNCHANGED vars
    <2>1. UNCHANGED <<open, baseline, disk, dirty, issue, dialog, locked, queued>>
        BY <1>16 DEF CloseWindow, LampOff, TimerFires, vars
    <2> QED  BY <1>k, <2>1
<1> QED  BY <1>1, <1>2, <1>3, <1>4, <1>5, <1>6, <1>7, <1>8, <1>9, <1>10, <1>11, <1>12, <1>13,
            <1>14, <1>15, <1>16, MoverActions

-----------------------------------------------------------------------------
(***************************************************************************)
(* The chain of saves                                                      *)
(***************************************************************************)

\* The first save goes one step on in its place.
HeadGoesOn ==
    /\ tasks # <<>> /\ Len(tasks') = Len(tasks) /\ tasks' # <<>>
    /\ \A i \in 1..Len(tasks) : i # 1 => tasks'[i] = tasks[i]
    /\ tasks'[1].wakes = tasks[1].wakes /\ tasks'[1].fresh = tasks[1].fresh

\* The first save is replaced by what it became.
LEMMA HeadReplaced ==
    ASSUME TypeOK, tasks # <<>>, NEW u \in Task, tasks' = [tasks EXCEPT ![1] = u],
           u.wakes = tasks[1].wakes, u.fresh = tasks[1].fresh
    PROVE  HeadGoesOn /\ tasks'[1] = u
<1>1. tasks \in Seq(Task) /\ 1 \in 1..Len(tasks)
    BY HeadTask DEF TypeOK
<1>2. /\ tasks' \in Seq(Task) /\ Len(tasks') = Len(tasks) /\ tasks'[1] = u
      /\ \A i \in 1..Len(tasks) : i # 1 => tasks'[i] = tasks[i]
    BY <1>1, ReplacedTask
<1>3. tasks' # <<>>
    BY <1>1, <1>2, EmptySeq
<1> QED  BY <1>2, <1>3 DEF HeadGoesOn

\* The command of the first save: it replaces what it expected, or not.
LEMMA SaveExecutes ==
    ASSUME Base, ChainInv, SaveExecuted
    PROVE  /\ HeadGoesOn /\ tasks[1].stage = "calling" /\ tasks[1].status = "none"
           /\ tasks[1].path = open /\ open # NoNote /\ open \in Notes
           /\ tasks'[1].stage = "calling" /\ tasks'[1].expected = tasks[1].expected
           /\ \/ /\ disk[open] = tasks[1].expected /\ WriteNote(tasks[1])
                 /\ \/ tasks'[1].status = "saved" /\ tasks'[1].actual = tasks[1].text
                    \/ tasks'[1].status = "failed" /\ scene.failing
              \/ /\ disk[open] # tasks[1].expected /\ tasks'[1].status = "conflict"
                 /\ UNCHANGED <<disk, known, unsaved>>
              \/ /\ scene.failing /\ tasks'[1].status = "failed"
                 /\ UNCHANGED <<disk, known, unsaved>>
<1> USE DEF Base
<1> DEFINE t == tasks[1]
<1>1. tasks # <<>> /\ t.stage = "calling" /\ t.status = "none"
    BY AtHead, CallerNames DEF SaveExecuted, Sent
<1>2. /\ t \in Task /\ t.path = open /\ open # NoNote /\ t.path \in Notes
      /\ tasks \in Seq(Task) /\ disk \in [Notes -> Revisions]
    BY <1>1, HeadTask DEF ChainInv, TaskInv, TypeOK
<1>a. ASSUME NEW s \in {"saved", "conflict", "failed"}, NEW a \in Revisions, Answer(s, a)
      PROVE  /\ HeadGoesOn /\ tasks'[1].stage = "calling" /\ tasks'[1].expected = t.expected
             /\ tasks'[1].status = s /\ tasks'[1].actual = a
    <2> DEFINE u == [t EXCEPT !.status = s, !.actual = a]
    <2>1. /\ u \in Task /\ u.wakes = t.wakes /\ u.fresh = t.fresh /\ u.stage = "calling"
          /\ u.expected = t.expected /\ u.status = s /\ u.actual = a
        BY <1>1, <1>2 DEF Task
    <2>2. tasks' = [tasks EXCEPT ![1] = u]
        BY <1>1, <1>2, <1>a, HeadTask DEF Answer
    <2> HIDE DEF u
    <2>3. HeadGoesOn /\ tasks'[1] = u
        BY <1>1, <2>1, <2>2, HeadReplaced
    <2> QED  BY <2>1, <2>3
<1>3. CASE disk[t.path] = t.expected /\ WriteNote(t) /\ Answer("saved", t.text)
    <2>1. t.text \in Revisions
        BY <1>2 DEF Task, Revisions
    <2> QED  BY <1>1, <1>2, <1>3, <1>a, <2>1
<1>4. CASE scene.failing /\ Answer("failed", Missing)
           /\ \/ disk[t.path] = t.expected /\ WriteNote(t)
              \/ UNCHANGED <<disk, known, unsaved>>
    <2>1. Missing \in Revisions
        BY DEF Revisions
    <2> QED  BY <1>1, <1>2, <1>4, <1>a, <2>1
<1>5. CASE /\ disk[t.path] # t.expected /\ Answer("conflict", disk[t.path])
           /\ UNCHANGED <<disk, known, unsaved>>
    <2>1. disk[t.path] \in Revisions
        BY <1>2
    <2> QED  BY <1>1, <1>2, <1>5, <1>a, <2>1
<1> QED  BY <1>3, <1>4, <1>5 DEF SaveExecuted

\* What a step does to the chain.
ChainStep ==
    \/ tasks' = tasks
    \/ tasks = <<>> /\ tasks' = <<>>
    \/ ~locked /\ tasks' = Outdated(tasks)
    \/ /\ timer # NoTimer \/ ~locked \/ \E o \in Movers : jobs[o].stage = "flush"
       /\ \E t \in Task : tasks' = Append(tasks, t)
    \/ \E o \in Movers :
          jobs[o].stage = "flush" /\ tasks # <<>> /\ WaitForLast(o, "draining")
    \/ /\ HeadGoesOn
       /\ \/ tasks[1].status = "none"
          \/ tasks[1].stage = "indexing"
          \/ SaveAnswered /\ SaveDone(tasks[1])
    \/ /\ tasks # <<>> /\ Finish(FALSE) /\ SaveAnswered
       /\ tasks[1].status \in {"conflict", "failed"}
       /\ issue' = DiskIssue(tasks[1].path, tasks[1].actual) \/ issue' = IoIssue(tasks[1].path)
    \/ /\ tasks # <<>> /\ Finish(TRUE)
       /\ Settled \/ ~tasks[1].fresh
       /\ tasks[1].stage \in {"indexing", "settling"}

\* Every step is a ChainStep.
LEMMA ChainSteps ==
    ASSUME Base, Moving, MoveInv, [Next]_vars
    PROVE  ChainStep
<1> USE DEF Base
<1>0. ChainInv /\ tasks \in Seq(Task) /\ baseline \in Revisions
    BY DEF MoveInv, TypeOK
<1>h. tasks # <<>> => /\ tasks[1] \in Task /\ tasks[1].path = open /\ open # NoNote
                      /\ tasks[1].mine = (tasks[1].stage # "queued") /\ 1 \in 1..Len(tasks)
                      /\ tasks[1].stage = "queued" => tasks[1].status = "none"
    BY <1>0, HeadTask DEF ChainInv, TaskInv
<1>m. Movers \subseteq AllOps
    BY OneMover
<1>o. ASSUME tasks = <<>>, tasks' = Outdated(tasks)  PROVE tasks' = <<>>
    <2>1. SameChain(tasks, tasks')
        BY <1>0, <1>o, OutdatedTasks
    <2>2. Len(tasks') = Len(tasks) /\ tasks' \in Seq(Task) /\ Len(tasks) = 0
        BY <1>0, <1>o, <2>1, EmptySeq DEF SameChain
    <2> QED  BY <2>2, EmptySeq
<1>n. ASSUME NEW o \in AllOps,
             timer # NoTimer \/ ~locked \/ \E q \in Movers : jobs[q].stage = "flush",
             tasks' = Append(tasks, NewTask(open, text, TRUE, Baseline, {o}))
      PROVE  ChainStep
    <2>1. NewTask(open, text, TRUE, Baseline, {o}) \in Task
        BY NewTaskTyped DEF TypeOK
    <2> QED  BY <1>n, <2>1 DEF ChainStep
<1>1. CASE \E c \in Contents : Type(c)
    BY <1>1 DEF Type, ChainStep
<1>2. CASE AskRetry
    <2>1. "retry" \in AllOps
        BY OneMover
    <2> QED  BY <1>2, <1>n, <2>1 DEF AskRetry, PushTask, ChainStep
<1>3. CASE TimerFires
    <2>1. timer.path \in Notes \cup {NoNote} /\ timer.text \in Contents
        BY <1>3 DEF TimerFires, TypeOK
    <2>2. ("timer" \in current) \in BOOLEAN /\ {} \in SUBSET AllOps
          /\ Baseline \in Revisions \cup {Baseline}
        OBVIOUS
    <2>3. NewTask(timer.path, timer.text, "timer" \in current, Baseline, {}) \in Task
        BY <2>1, <2>2, NewTaskTyped
    <2> QED  BY <1>3, <2>3 DEF TimerFires, ChainStep
<1>4. ASSUME NEW o \in Movers, Flush(o)  PROVE ChainStep
    <2>1. jobs[o].stage = "flush" /\ o \in AllOps
        BY <1>4, <1>m DEF Flush
    <2>2. dirty => open # NoNote
        BY DEF MoveInv, DiskInv
    <2> QED  BY <1>4, <1>n, <2>1, <2>2 DEF Flush, Attempt, PushTask, LeaveFlush, ChainStep
<1>5. ASSUME NEW o \in Movers, FlushGoesOn(o)  PROVE ChainStep
    <2>1. jobs[o].stage = "saved" => ~dirty
        BY <1>5 DEF MoveInv, MoverFits
    <2>2. jobs[o].stage # "awaited"
        BY DEF MoveInv, MoverFits
    <2> QED  BY <1>5, <2>1, <2>2 DEF FlushGoesOn, LeaveFlush, ChainStep
<1>6. CASE StartTask
    <2>1. tasks # <<>> /\ tasks[1].stage = "queued" /\ tasks[1].status = "none"
        BY <1>6, <1>h DEF StartTask, HeadQueued
    <2> DEFINE u == [tasks[1] EXCEPT !.stage = "calling", !.mine = TRUE,
                                     !.expected = IF @ = Baseline THEN baseline ELSE @]
    <2>2. tasks' = [tasks EXCEPT ![1] = u]
        BY <1>0, <1>6, <1>h, <2>1 DEF StartTask
    <2>3. u \in Task /\ u.wakes = tasks[1].wakes /\ u.fresh = tasks[1].fresh
        BY <1>0, <1>h, <2>1 DEF Task
    <2> HIDE DEF u
    <2> QED  BY <2>1, <2>2, <2>3, HeadReplaced DEF ChainStep
<1>7. CASE SaveExecuted
    BY <1>0, <1>7, SaveExecutes DEF ChainStep
<1>8. CASE SaveAnswered
    <2>1. tasks # <<>> /\ tasks[1].stage = "calling" /\ tasks[1].mine
        BY <1>8, <1>h, AtHead, CallerNames DEF SaveAnswered, Replied
    <2>2. CASE SaveConflict(tasks[1]) \/ SaveFailed(tasks[1])
        BY <1>8, <2>1, <2>2 DEF SaveConflict, SaveFailed, Report, ChainStep
    <2>3. CASE SaveDone(tasks[1])
        <3> DEFINE u == [tasks[1] EXCEPT !.stage = "indexing"]
        <3>1. tasks' = [tasks EXCEPT ![1] = u]
            BY <1>0, <1>h, <2>1, <2>3 DEF SaveDone
        <3>2. u \in Task /\ u.wakes = tasks[1].wakes /\ u.fresh = tasks[1].fresh
            BY <1>h, <2>1 DEF Task
        <3> HIDE DEF u
        <3> QED  BY <1>8, <2>1, <2>3, <3>1, <3>2, HeadReplaced DEF ChainStep
    <2> QED  BY <1>8, <2>2, <2>3 DEF SaveAnswered
<1>9. CASE Indexed
    <2>1. tasks # <<>> /\ tasks[1].stage = "indexing" /\ tasks[1].mine /\ tasks[1].path = open
        BY <1>9, <1>h DEF Indexed
    <2>2. CASE tasks[1].fresh
        <3> DEFINE u == [tasks[1] EXCEPT !.stage = "settling"]
        <3>1. tasks' = [tasks EXCEPT ![1] = u]
            BY <1>0, <1>9, <1>h, <2>1, <2>2 DEF Indexed
        <3>2. u \in Task /\ u.wakes = tasks[1].wakes /\ u.fresh = tasks[1].fresh
            BY <1>h, <2>1 DEF Task
        <3> HIDE DEF u
        <3> QED  BY <2>1, <3>1, <3>2, HeadReplaced DEF ChainStep
    <2>3. CASE ~tasks[1].fresh
        BY <1>9, <2>1, <2>3 DEF Indexed, ChainStep
    <2> QED  BY <2>2, <2>3
<1>10. CASE Settled
    BY <1>10 DEF Settled, ChainStep
<1>11. CASE SelectAnswered \/ CreateListed
    <2>1. tasks = <<>>
        <3>1. \/ jobs["select"].stage = "read"
              \/ jobs["create"].stage = "listing"
            BY <1>11, AtHead, CallerNames DEF SelectAnswered, CreateListed, Replied, AllOps
        <3>2. "select" \in Movers /\ "create" \in Movers
            BY DEF Movers
        <3> QED  BY <3>1, <3>2 DEF MoveInv, MoverFits, Gone
    <2>2. tasks' = tasks \/ tasks' = Outdated(tasks)
        BY <1>11 DEF SelectAnswered, CreateListed, EnterCreated
    <2> QED  BY <1>o, <2>1, <2>2 DEF ChainStep
<1>12. CASE \/ CancelDialog \/ (\E n \in scene.notes : AskSelect(n) \/ AskCreate(n)) \/ AskClose
            \/ StartSelect \/ SelectFlushed \/ CreateFlushed \/ CloseFlushed \/ RetryDone
            \/ CreateExecuted \/ JobReads("select")
            \/ SelectStat \/ SelectDone \/ CreateAnswered \/ CloseWindow("close")
            \/ LampOff \/ UNCHANGED vars
    <2>1. tasks' = tasks
        BY <1>12
        DEF CancelDialog, AskSelect, AskCreate, AskClose, StartSelect, SelectFlushed,
           CreateFlushed, CloseFlushed, RetryDone, CreateExecuted, JobReads, SelectStat,
           SelectDone, CreateAnswered, CloseWindow, LampOff, vars
    <2> QED  BY <2>1 DEF ChainStep
<1> QED  BY <1>1, <1>2, <1>3, <1>4, <1>5, <1>6, <1>7, <1>8, <1>9, <1>10, <1>11, <1>12,
            MoverActions

\* A save that reached the disk stays the first one until the page hears of it.
LEMMA LandedStays ==
    ASSUME Base, Moving, MoveInv, [Next]_vars, Landed
    PROVE  Landed' \/ (SaveAnswered /\ SaveDone(tasks[1]))
<1>0. tasks \in Seq(Task) /\ tasks # <<>> /\ tasks[1] \in Task
      /\ 1 \in 1..Len(tasks) /\ Len(tasks) \in Nat
    BY HeadTask, LenProperties DEF Base, TypeOK, Landed
<1>1. CASE tasks' = tasks
    BY <1>1 DEF Landed
<1>2. CASE tasks' = Outdated(tasks)
    <2>1. SameChain(tasks, tasks')
        BY <1>0, <1>2, OutdatedTasks
    <2>2. tasks' # <<>>
        BY <1>0, <2>1, EmptySeq DEF SameChain
    <2> QED  BY <1>0, <2>1, <2>2 DEF Landed, SameChain
<1>3. ASSUME NEW t \in Task, tasks' = Append(tasks, t)  PROVE Landed'
    <2>1. tasks' \in Seq(Task) /\ Len(tasks') = Len(tasks) + 1 /\ tasks'[1] = tasks[1]
        BY <1>0, <1>3, AppendedTask
    <2>2. tasks' # <<>>
        BY <1>0, <2>1, EmptySeq
    <2> QED  BY <2>1, <2>2 DEF Landed
<1>4. ASSUME NEW o \in Movers, WaitForLast(o, "draining")  PROVE Landed'
    <2>1. o \in AllOps /\ "draining" \in Steps
        BY OneMover DEF Steps
    <2>2. /\ tasks' \in Seq(Task) /\ Len(tasks') = Len(tasks)
          /\ \A i \in 1..Len(tasks) : i # Len(tasks) => tasks'[i] = tasks[i]
          /\ tasks'[Len(tasks)] = [tasks[Len(tasks)] EXCEPT !.wakes = @ \cup {o}]
        BY <1>0, <1>4, <2>1, Waits DEF Base
    <2>3. tasks'[1].stage = tasks[1].stage /\ tasks'[1].status = tasks[1].status
        <3>1. CASE Len(tasks) = 1
            BY <1>0, <2>2, <3>1 DEF Task
        <3>2. CASE Len(tasks) # 1
            BY <1>0, <2>2, <3>2
        <3> QED  BY <3>1, <3>2
    <2>4. tasks' # <<>>
        BY <1>0, <2>2, EmptySeq
    <2> QED  BY <2>3, <2>4 DEF Landed
<1> QED  BY <1>1, <1>2, <1>3, <1>4, ChainSteps DEF ChainStep, Landed

\* The chain under the lock: its last save stays until it is the only one, and
\* nothing joins it.
EndStays ==
    IF tasks = <<>>
    THEN tasks' = <<>>
    ELSE \/ /\ tasks' # <<>>
            /\ tasks'[Len(tasks')].wakes = tasks[Len(tasks)].wakes
            /\ tasks'[Len(tasks')].fresh = tasks[Len(tasks)].fresh
         \/ Len(tasks) = 1 /\ tasks' = <<>> /\ \E ok \in BOOLEAN : Finish(ok)

\* No save joins the chain while the editor is locked, none is scheduled and
\* no flush begins.
LEMMA LockedChain ==
    ASSUME Base, Moving, MoveInv, [Next]_vars, locked, timer = NoTimer,
           \A o \in Movers : jobs[o].stage # "flush"
    PROVE  EndStays
<1>0. tasks \in Seq(Task) /\ Len(tasks) \in Nat
    BY LenProperties DEF Base, TypeOK
<1>1. CASE tasks' = tasks
    BY <1>1 DEF EndStays
<1>2. CASE HeadGoesOn
    <2>1. Len(tasks) \in 1..Len(tasks)
        BY <1>2, HeadTask DEF HeadGoesOn, Base
    <2>2. Len(tasks) = 1 \/ Len(tasks) # 1
        OBVIOUS
    <2> QED  BY <1>2, <2>1, <2>2 DEF HeadGoesOn, EndStays
<1>3. ASSUME tasks # <<>>, NEW ok \in BOOLEAN, Finish(ok), tasks' = Tail(tasks)
      PROVE  EndStays
    <2>1. /\ Len(tasks') = Len(tasks) - 1 /\ tasks' \in Seq(Task) /\ Len(tasks) > 0
          /\ \A i \in 1..Len(tasks') : i + 1 \in 1..Len(tasks) /\ tasks'[i] = tasks[i + 1]
        BY <1>0, <1>3, TailTasks
    <2>2. CASE Len(tasks) = 1
        <3>1. Len(tasks') = 0
            BY <2>1, <2>2
        <3> QED  BY <1>3, <2>1, <2>2, <3>1, EmptySeq DEF EndStays
    <2>3. CASE Len(tasks) # 1
        <3>1. Len(tasks') \in 1..Len(tasks') /\ Len(tasks') + 1 = Len(tasks)
            BY <1>0, <2>1, <2>3
        <3>2. tasks'[Len(tasks')] = tasks[Len(tasks)]
            BY <2>1, <3>1
        <3>3. tasks' # <<>>
            BY <2>1, <3>1, EmptySeq
        <3> QED  BY <1>3, <3>2, <3>3 DEF EndStays
    <2> QED  BY <2>2, <2>3
<1>4. CASE tasks = <<>> /\ tasks' = <<>>
    BY <1>4 DEF EndStays
<1> QED  BY <1>1, <1>2, <1>3, <1>4, ChainSteps DEF ChainStep, Finish

\* The first save of the new chain, when it is under way, was the first one.
LEMMA FirstSave ==
    ASSUME Base, FreshInv, [Next]_vars, tasks' # <<>>, tasks'[1].stage # "queued"
    PROVE  /\ tasks # <<>> /\ Same(tasks[1], tasks'[1])
           /\ \/ Kept(tasks[1], tasks'[1]) \/ Started(tasks[1], tasks'[1])
              \/ Written(tasks[1], tasks'[1]) \/ Advanced(tasks[1], tasks'[1])
<1>0. tasks \in Seq(Task) /\ tasks' \in Seq(Task)
    BY TypesGoOn DEF Base, TypeOK
<1>1. 1 \in 1..Len(tasks')
    BY <1>0, EmptySeq, LenProperties
<1>2. Origin(1)
    BY <1>1, TasksGoOn DEF Origins
<1>3. ~New(tasks'[1])
    BY DEF New
<1>4. ASSUME NEW j \in 1..Len(tasks), Same(tasks[j], tasks'[1]), Kept(tasks[j], tasks'[1])
      PROVE  j = 1
    BY <1>4 DEF Kept, Base, TaskInv
<1>5. 1 \in 1..Len(tasks) => tasks # <<>>
    BY <1>0, EmptySeq
<1> QED  BY <1>2, <1>3, <1>4, <1>5 DEF Origin

-----------------------------------------------------------------------------
(***************************************************************************)
(* The disk                                                                *)
(***************************************************************************)

\* Only the command of a save makes the first save one that reached the disk.
LEMMA LandedNew ==
    ASSUME Base, FreshInv, [Next]_vars, Landed', ~SaveExecuted
    PROVE  Landed
<1>1. tasks' # <<>> /\ tasks'[1].stage = "calling" /\ tasks'[1].status = "saved"
    BY DEF Landed
<1> QED  BY <1>1, FirstSave DEF Kept, Started, Written, Advanced, Landed

\* A disk that has another version of the open note keeps it.
LEMMA DivergedStays ==
    ASSUME Base, FreshInv, Moving, MoveInv, [Next]_vars, Diverged
    PROVE  Diverged'
<1>1. MoveStep /\ dirty
    BY MoveSteps DEF MoveInv, DiskInv
<1>2. CASE SaveExecuted
    <2>1. /\ tasks[1].expected = baseline /\ tasks # <<>> /\ tasks[1].stage = "calling"
        BY <1>2, SaveExecutes DEF MoveInv, DiskInv, HeadGoesOn
    <2>2. disk' = disk /\ tasks'[1].status # "saved" /\ UNCHANGED <<open, baseline>>
        BY <1>2, <2>1, SaveExecutes DEF MoveInv, Diverged, SaveExecuted
    <2> QED  BY <2>2 DEF Diverged, Landed
<1>3. CASE ~SaveExecuted
    <2>1. UNCHANGED <<open, baseline>> /\ disk'[open] = disk[open]
        BY <1>1, <1>3 DEF MoveStep, Diverged
    <2>2. ~Landed'
        BY <1>3, LandedNew DEF Diverged
    <2> QED  BY <2>1, <2>2 DEF Diverged
<1> QED  BY <1>2, <1>3

\* Every step keeps DiskInv.
LEMMA DiskGoesOn ==
    ASSUME IInv, Moving, MoveInv, [Next]_vars
    PROVE  DiskInv'
<1> USE DEF IInv
<1>0. DiskInv /\ ChainInv /\ OpenNoteInv
    BY DEF MoveInv
<1>1. MoveStep /\ NoteStep /\ Origins
    BY MoveSteps, MovingIsSteady, NoteSteps, TasksGoOn DEF MoveInv
<1>c. tasks # <<>> =>
          /\ 1 \in 1..Len(tasks) /\ tasks[1].path = open /\ open # NoNote
          /\ tasks[1].mine = (tasks[1].stage # "queued")
          /\ ~dirty => tasks[1].fresh
          /\ tasks[1].fresh => tasks[1].text = text
          /\ tasks[1].stage = "queued" => tasks[1].expected = Baseline
          /\ tasks[1].status = "saved" => tasks[1].actual = tasks[1].text
    BY <1>0, HeadTask DEF Base, ChainInv, FreshInv, DiskInv, TaskInv
<1>2. ASSUME NEW i \in 1..Len(tasks'), tasks'[i].stage = "queued"
      PROVE  tasks'[i].expected = Baseline
    <2>1. Origin(i)
        BY <1>1 DEF Origins
    <2>2. "overwrite" \notin scene.ops
        BY DEF Moving, Movers
    <2>3. CASE New(tasks'[i])
        BY <2>2, <2>3 DEF New, AskOverwrite, UserMay
    <2>4. ASSUME NEW j \in 1..Len(tasks), Kept(tasks[j], tasks'[i])
          PROVE  tasks'[i].expected = Baseline
        BY <1>0, <1>2, <2>4 DEF Kept, DiskInv
    <2>5. CASE i = 1 /\ (\/ Started(tasks[1], tasks'[1]) \/ Written(tasks[1], tasks'[1])
                         \/ Advanced(tasks[1], tasks'[1]))
        BY <1>2, <2>5 DEF Started, Written, Advanced
    <2> QED  BY <2>1, <2>3, <2>4, <2>5 DEF Origin
<1> DEFINE Calling == tasks' # <<>> /\ tasks'[1].stage = "calling" =>
                         /\ tasks'[1].expected = baseline'
                         /\ tasks'[1].status = "saved" => disk'[open'] = tasks'[1].actual
                         /\ tasks'[1].status = "conflict" => disk'[open'] # baseline'
           After == tasks' # <<>> /\ tasks'[1].stage \in {"indexing", "settling"} =>
                         disk'[open'] = baseline'
           Apart == open' # NoNote /\ disk'[open'] # baseline' /\ ~Landed' => dirty'
<1>3. Calling /\ After /\ Apart
    <2>1. CASE SaveExecuted
        <3>1. /\ tasks # <<>> /\ tasks[1].stage = "calling" /\ tasks[1].status = "none"
              /\ open # NoNote /\ open \in Notes /\ tasks[1].path = open
              /\ tasks'[1].stage = "calling" /\ tasks'[1].expected = tasks[1].expected
            BY <1>0, <2>1, SaveExecutes DEF HeadGoesOn
        <3>2. UNCHANGED <<open, baseline, dirty>> /\ tasks[1].expected = baseline
            BY <1>0, <2>1, <3>1 DEF SaveExecuted, DiskInv
        <3>3. /\ tasks' # <<>>
              /\ \/ /\ disk[open] = baseline /\ WriteNote(tasks[1])
                    /\ tasks'[1].status = "saved" => tasks'[1].actual = tasks[1].text
                    /\ tasks'[1].status \in {"saved", "failed"}
                 \/ /\ disk' = disk /\ tasks'[1].status \in {"conflict", "failed"}
                    /\ tasks'[1].status = "conflict" => disk[open] # baseline
            BY <1>0, <2>1, <3>2, SaveExecutes DEF HeadGoesOn
        <3>4. WriteNote(tasks[1]) => disk'[open] = tasks[1].text
            BY <3>1 DEF WriteNote, Base, TypeOK
        <3>5. ~dirty => tasks[1].text = baseline
            BY <1>0, <1>c, <3>1 DEF OpenNoteInv
        <3>6. ~dirty => disk[open] = baseline
            BY <1>0, <3>1 DEF DiskInv, Diverged, Landed
        <3>7. Calling
            BY <3>1, <3>2, <3>3, <3>4
        <3>8. After
            BY <3>1
        <3>9. Apart
            BY <3>2, <3>3, <3>4, <3>5, <3>6
        <3> QED  BY <3>7, <3>8, <3>9
    <2>2. CASE SaveAnswered /\ SaveDone(tasks[1]) /\ Landed
        <3>1. /\ tasks # <<>> /\ tasks[1].mine /\ tasks[1].stage = "calling"
              /\ tasks[1].status = "saved"
            BY <1>c, <2>2 DEF Landed
        <3>2. /\ UNCHANGED <<open, disk, dirty>> /\ baseline' = tasks[1].actual
              /\ tasks' = [tasks EXCEPT ![1].stage = "indexing"]
            BY <2>2, <3>1 DEF SaveAnswered, SaveDone
        <3>3. tasks'[1].stage = "indexing"
            BY <1>c, <3>1, <3>2, HeadTask DEF Base, TypeOK, Task
        <3>4. disk'[open'] = baseline'
            BY <1>0, <3>1, <3>2 DEF DiskInv
        <3> QED  BY <3>3, <3>4
    <2>3. CASE /\ ~SaveExecuted /\ ~(SaveAnswered /\ SaveDone(tasks[1]))
               /\ UNCHANGED <<open, baseline>> /\ (open # NoNote => disk'[open] = disk[open])
        <3>1. ASSUME tasks' # <<>>, tasks'[1].stage # "queued"
              PROVE  /\ tasks # <<>>
                     /\ \/ Kept(tasks[1], tasks'[1])
                        \/ Started(tasks[1], tasks'[1])
                        \/ tasks[1].stage = "indexing" /\ tasks'[1].stage = "settling"
            BY <2>3, <3>1, FirstSave DEF Written, Advanced
        <3>2. Calling
            <4>1. CASE Kept(tasks[1], tasks'[1])
                BY <1>0, <1>c, <2>3, <3>1, <4>1 DEF Kept, DiskInv
            <4>2. CASE Started(tasks[1], tasks'[1])
                BY <1>0, <1>c, <2>3, <3>1, <4>2 DEF Started
            <4> QED  BY <3>1, <4>1, <4>2
        <3>3. After
            <4>1. CASE Kept(tasks[1], tasks'[1])
                BY <1>0, <1>c, <2>3, <3>1, <4>1 DEF Kept, DiskInv
            <4>2. CASE Started(tasks[1], tasks'[1])
                BY <4>2 DEF Started
            <4>3. CASE tasks # <<>> /\ tasks[1].stage = "indexing"
                BY <1>0, <1>c, <2>3, <4>3 DEF DiskInv
            <4> QED  BY <3>1, <4>1, <4>2, <4>3
        <3>4. Apart
            <4> SUFFICES ASSUME open' # NoNote, disk'[open'] # baseline', ~Landed', ~dirty'
                         PROVE  FALSE
                OBVIOUS
            <4>1. open # NoNote /\ disk[open] # baseline
                BY <2>3
            <4>2. ~Landed
                BY <2>3, LandedStays
            <4>3. Diverged /\ dirty
                BY <1>0, <4>1, <4>2 DEF DiskInv, Diverged
            <4>4. tasks # <<>> /\ tasks[1].stage = "settling"
                BY <1>1, <4>3 DEF NoteStep
            <4> QED  BY <1>0, <4>1, <4>4 DEF DiskInv
        <3> QED  BY <3>2, <3>3, <3>4
    <2>4. CASE tasks = <<>> /\ ~SaveExecuted /\ (open' = NoNote \/ disk'[open'] = baseline')
        <3>1. tasks' # <<>> => tasks'[1].stage = "queued"
            BY <2>4, FirstSave
        <3> QED  BY <2>4, <3>1
    <2>5. SaveAnswered /\ SaveDone(tasks[1]) => Landed
        BY AtHead, CallerNames DEF SaveAnswered, SaveDone, Replied, Landed, Base
    <2>6. SaveExecuted => tasks # <<>>
        BY <1>0, SaveExecutes DEF HeadGoesOn
    <2> HIDE DEF Calling, After, Apart
    <2> QED  BY <1>1, <2>1, <2>2, <2>3, <2>4, <2>5, <2>6 DEF MoveStep
<1>4. Diverged' => dirty'
    BY <1>3 DEF Diverged
<1>5. ASSUME dialog' # "hidden" \/ Paused'  PROVE Diverged'
    <2>1. dialog # "hidden" \/ Paused \/ (SaveAnswered /\ SaveConflict(tasks[1]))
        BY <1>1, <1>5 DEF MoveStep
    <2>2. CASE SaveAnswered /\ SaveConflict(tasks[1])
        <3>1. tasks # <<>> /\ tasks[1].stage = "calling" /\ tasks[1].status = "conflict"
            BY <2>2, AtHead, CallerNames DEF SaveAnswered, SaveConflict, Replied, Base
        <3> QED  BY <1>0, <1>c, <3>1, DivergedStays DEF DiskInv, Diverged, Landed
    <2> QED  BY <1>0, <2>1, <2>2, DivergedStays DEF DiskInv
<1>6. open' = NoNote => ~dirty'
    BY <1>0, <1>1 DEF MoveStep, NoteStep, DiskInv
<1> HIDE DEF Apart
<1> QED  BY <1>2, <1>3, <1>4, <1>5, <1>6 DEF DiskInv

-----------------------------------------------------------------------------
(***************************************************************************)
(* The jobs                                                                *)
(***************************************************************************)

\* The first save returns to the job of o, which waited for it: it failed and
\* an issue says so, or what it wrote is the baseline and the page is clean if
\* its text is shown.
WakesUp(o) ==
    /\ tasks # <<>> /\ o \in tasks[1].wakes /\ timer' = timer
    /\ \/ Finish(FALSE) /\ jobs'[o] = Woken(jobs[o], FALSE) /\ issue' # NoIssue
       \/ /\ Finish(TRUE) /\ jobs'[o] = Woken(jobs[o], TRUE)
          /\ tasks[1].stage \in {"indexing", "settling"}
          /\ Settled \/ ~tasks[1].fresh

\* The steps of the handler of o itself.
OwnStep(o) ==
    \/ o = "retry" /\ (AskRetry \/ RetryDone)
    \/ o = "select" /\ (StartSelect \/ SelectFlushed \/ SelectStat \/ JobReads("select")
                           \/ SelectAnswered \/ SelectDone)
    \/ o = "create" /\ ((\E n \in scene.notes : AskCreate(n)) \/ CreateFlushed
                           \/ CreateExecuted \/ CreateAnswered \/ CreateListed)
    \/ o = "close" /\ (AskClose \/ (CloseFlushed /\ MayGoOn("close")))

\* A save that goes on wakes the job of o or leaves it alone.
LEMMA Wakings ==
    ASSUME Base, MoveInv, StartTask \/ SaveAnswered \/ Indexed \/ Settled, NEW o \in AllOps
    PROVE  jobs'[o] = jobs[o] \/ WakesUp(o)
<1> USE DEF Base
<1>1. tasks # <<>> /\ (SaveAnswered => tasks[1].stage = "calling")
    BY AtHead, CallerNames DEF StartTask, HeadQueued, SaveAnswered, Indexed, Settled, Replied
<1>2. /\ tasks[1].path = open /\ tasks[1].mine = (tasks[1].stage # "queued")
      /\ open # NoNote /\ tasks[1].path \in Notes \cup {NoNote} /\ tasks[1].actual \in Revisions
    BY <1>1, HeadTask DEF MoveInv, ChainInv, Task
<1>f. ASSUME NEW ok \in BOOLEAN, Finish(ok), timer' = timer, ~ok => issue' # NoIssue,
             ok => /\ tasks[1].stage \in {"indexing", "settling"}
                   /\ Settled \/ ~tasks[1].fresh
      PROVE  jobs'[o] = jobs[o] \/ WakesUp(o)
    <2>1. jobs'[o] = IF o \in tasks[1].wakes THEN Woken(jobs[o], ok) ELSE jobs[o]
        BY <1>f DEF Finish
    <2> QED  BY <1>1, <1>f, <2>1 DEF WakesUp
<1>3. CASE StartTask
    BY <1>2, <1>3 DEF StartTask
<1>4. CASE SaveAnswered
    <2>1. timer' = timer /\ tasks[1].mine
        BY <1>1, <1>2, <1>4 DEF SaveAnswered
    <2>2. CASE SaveConflict(tasks[1])
        <3>1. issue' # NoIssue
            BY <1>2, <2>2, IssuesTyped, NoIssueAssumption DEF SaveConflict, Report
        <3> QED  BY <1>f, <2>1, <2>2, <3>1 DEF SaveConflict
    <2>3. CASE SaveFailed(tasks[1])
        <3>1. issue' # NoIssue
            BY <1>2, <2>1, <2>3, IssuesTyped, NoIssueAssumption DEF SaveFailed, Report
        <3> QED  BY <1>f, <2>1, <2>3, <3>1 DEF SaveFailed
    <2>4. CASE SaveDone(tasks[1])
        BY <2>1, <2>4 DEF SaveDone
    <2> QED  BY <1>4, <2>2, <2>3, <2>4 DEF SaveAnswered
<1>5. CASE Indexed
    BY <1>f, <1>1, <1>2, <1>5 DEF Indexed
<1>6. CASE Settled
    <2>1. Finish(TRUE) /\ timer' = timer /\ tasks[1].stage = "settling"
        BY <1>6 DEF Settled
    <2> QED  BY <1>f, <1>6, <2>1
<1> QED  BY <1>3, <1>4, <1>5, <1>6

\* What a step does to the job of o.
LEMMA JobSteps ==
    ASSUME Base, Moving, MoveInv, [Next]_vars, NEW o \in AllOps
    PROVE  \/ jobs'[o] = jobs[o]
           \/ WakesUp(o)
           \/ o \in Movers /\ (Flush(o) \/ FlushGoesOn(o))
           \/ OwnStep(o)
<1> USE DEF Base
<1>0. Movers \subseteq AllOps /\ jobs \in [AllOps -> Job]
    BY OneMover DEF TypeOK
<1>1. CASE (\E c \in Contents : Type(c)) \/ CancelDialog \/ (\E n \in scene.notes : AskSelect(n))
           \/ SaveExecuted \/ (CloseWindow("close") /\ UNCHANGED <<jobs, locked>>) \/ LampOff
           \/ TimerFires \/ UNCHANGED vars
    BY <1>1 DEF Type, CancelDialog, AskSelect, SaveExecuted, LampOff, TimerFires, vars
<1>2. CASE AskRetry \/ RetryDone
    BY <1>0, <1>2 DEF AskRetry, RetryDone, PushTask, EndJob, OwnStep
<1>3. CASE StartTask \/ SaveAnswered \/ Indexed \/ Settled
    BY <1>3, Wakings
<1>4. ASSUME NEW q \in Movers, Flush(q) \/ FlushGoesOn(q)
      PROVE  jobs'[o] = jobs[o] \/ (o \in Movers /\ (Flush(o) \/ FlushGoesOn(o)))
    <2>1. CASE q # o
        BY <1>0, <1>4, <2>1
        DEF Flush, FlushGoesOn, Attempt, PushTask, WaitForLast, Continue, LeaveFlush
    <2> QED  BY <1>4, <2>1
<1>5. CASE StartSelect \/ SelectFlushed \/ SelectStat \/ JobReads("select")
           \/ SelectAnswered \/ SelectDone
    <2>1. CASE o # "select"
        BY <1>0, <1>5, <2>1
        DEF StartSelect, SelectFlushed, SelectStat, JobReads, SelectAnswered, SelectDone,
            EndSelect, EndJob, Continue
    <2> QED  BY <1>5, <2>1 DEF OwnStep
<1>6. CASE (\E n \in scene.notes : AskCreate(n)) \/ CreateFlushed
           \/ CreateExecuted \/ CreateAnswered \/ CreateListed
    <2>1. CASE o # "create"
        BY <1>0, <1>6, <2>1
        DEF AskCreate, CreateFlushed, CreateExecuted, CreateAnswered, CreateListed,
            EndJob, Continue
    <2> QED  BY <1>6, <2>1 DEF OwnStep
<1>7. CASE AskClose \/ (CloseFlushed /\ MayGoOn("close"))
    <2>1. CASE o # "close"
        BY <1>0, <1>7, <2>1 DEF AskClose, CloseFlushed, EndJob, Continue
    <2> QED  BY <1>7, <2>1 DEF OwnStep
<1> QED  BY <1>1, <1>2, <1>3, <1>4, <1>5, <1>6, <1>7, MoverActions

\* What a step does to the mover o.
MoverMove(o) ==
    \/ jobs'[o].stage = jobs[o].stage
    \/ jobs'[o].stage = "idle"
    \/ /\ jobs[o].stage = "idle" /\ jobs'[o].stage = "flush"
       /\ locked' \/ (queued # NoNote /\ locked' = locked)
    \/ Flush(o)
    \/ FlushGoesOn(o)
    \/ WakesUp(o)
    \/ jobs[o].stage \in Gone /\ jobs'[o].stage \in Gone

\* Every step is a MoverMove.
LEMMA MoverMoves ==
    ASSUME Base, Moving, MoveInv, [Next]_vars, NEW o \in Movers
    PROVE  MoverMove(o)
<1> USE DEF Base
<1>0. /\ Movers \subseteq AllOps /\ o \in AllOps /\ jobs[o] \in Job /\ jobs \in [AllOps -> Job]
      /\ o \in {"select", "create", "close"}
    BY OneMover DEF TypeOK, Movers
<1>e. ASSUME EndJob(o)  PROVE MoverMove(o)
    BY <1>0, <1>e, JobEnds DEF MoverMove, NoJob
<1>g. ASSUME NEW st \in Gone, jobs[o].stage \in Gone, Continue(o, st)  PROVE MoverMove(o)
    BY <1>0, <1>g DEF Continue, Job, MoverMove
<1>1. CASE o = "select" /\ OwnStep(o)
    <2>1. CASE StartSelect
        BY <1>0, <1>1, <2>1 DEF StartSelect, NoJob, MoverMove
    <2>2. CASE SelectFlushed \/ SelectStat \/ SelectDone
        BY <1>0, <1>1, <1>e, <1>g, <2>2 DEF SelectFlushed, SelectStat, SelectDone, EndSelect, Gone
    <2>3. CASE JobReads("select")
        <3>1. jobs'[o].stage = "read" /\ jobs[o].stage = "reading"
            BY <1>0, <1>1, <2>3 DEF JobReads, Job
        <3> QED  BY <3>1 DEF MoverMove, Gone
    <2>4. CASE SelectAnswered
        <3>1. jobs["select"].stage = "read"
            BY <2>4, AtHead, CallerNames DEF SelectAnswered, Replied, AllOps
        <3> QED  BY <1>1, <1>e, <1>g, <2>4, <3>1 DEF SelectAnswered, EndSelect, Gone
    <2> QED  BY <1>1, <2>1, <2>2, <2>3, <2>4 DEF OwnStep
<1>2. CASE o = "create" /\ OwnStep(o)
    <2>1. ASSUME NEW n \in scene.notes, AskCreate(n)  PROVE MoverMove(o)
        BY <1>0, <1>2, <2>1 DEF AskCreate, UserMay, NoJob, MoverMove
    <2>2. CASE CreateFlushed
        BY <1>0, <1>2, <1>e, <1>g, <2>2 DEF CreateFlushed, MayGoOn, Gone
    <2>3. CASE CreateExecuted
        <3>1. jobs'[o].stage = jobs[o].stage
            BY <1>0, <1>2, <2>3 DEF CreateExecuted, Job
        <3> QED  BY <3>1 DEF MoverMove
    <2>4. CASE CreateAnswered \/ CreateListed
        <3>1. CreateAnswered => jobs["create"].stage = "applying"
            BY AtHead, CallerNames DEF CreateAnswered, Replied, AllOps
        <3> QED  BY <1>2, <1>e, <1>g, <2>4, <3>1 DEF CreateAnswered, CreateListed, Gone
    <2> QED  BY <1>2, <2>1, <2>2, <2>3, <2>4 DEF OwnStep
<1>3. CASE o = "close" /\ OwnStep(o)
    <2>1. CASE AskClose
        BY <1>0, <1>3, <2>1 DEF AskClose, UserMay, NoJob, MoverMove
    <2>2. CASE CloseFlushed /\ MayGoOn("close")
        BY <1>0, <1>3, <1>e, <1>g, <2>2 DEF CloseFlushed, MayGoOn, MustStop, Gone
    <2> QED  BY <1>3, <2>1, <2>2 DEF OwnStep
<1>4. OwnStep(o) => o \in {"select", "create", "close"}
    BY <1>0
<1>5. CASE jobs'[o] = jobs[o] \/ WakesUp(o) \/ Flush(o) \/ FlushGoesOn(o)
    BY <1>5 DEF MoverMove
<1> QED  BY <1>0, <1>1, <1>2, <1>3, <1>5, JobSteps

\* A job in progress and a selection that waits keep the lock, or the disk has
\* another version of the note.
LEMMA LockStays ==
    ASSUME IInv, Moving, MoveInv, [Next]_vars, locked \/ Diverged,
           queued' # NoNote \/ \E o \in Movers : jobs'[o].stage # "idle"
    PROVE  locked' \/ Diverged'
<1>1. Diverged => Diverged'
    BY DivergedStays DEF IInv
<1>2. dialog # "hidden" => Diverged
    BY DEF MoveInv, DiskInv
<1>3. MoveStep
    BY MoveSteps DEF IInv
<1> QED  BY <1>1, <1>2, <1>3 DEF MoveStep

\* Under the lock a clean page without saves stays as it is.
LEMMA CleanStays ==
    ASSUME IInv, Moving, MoveInv, [Next]_vars, locked,
           tasks = <<>>, timer = NoTimer, ~dirty, \A o \in Movers : jobs[o].stage # "flush"
    PROVE  tasks' = <<>> /\ timer' = NoTimer /\ ~dirty' /\ (issue = NoIssue => issue' = NoIssue)
<1>1. MoveStep /\ NoteStep
    BY MoveSteps, MovingIsSteady, NoteSteps DEF IInv, MoveInv
<1>2. tasks' = <<>>
    BY LockedChain DEF IInv, EndStays
<1>3. ~SaveAnswered
    BY AtHead, CallerNames DEF IInv, Base, SaveAnswered, Replied
<1> QED  BY <1>1, <1>2, <1>3 DEF MoveStep, NoteStep

\* Every step keeps MoverFits.
LEMMA FitsGoesOn ==
    ASSUME IInv, Moving, MoveInv, [Next]_vars, NEW o \in Movers
    PROVE  MoverFits(o)'
<1> USE DEF IInv
<1>0. /\ Movers \subseteq AllOps /\ o \in AllOps /\ jobs[o] \in Job /\ jobs \in [AllOps -> Job]
      /\ tasks \in Seq(Task) /\ Len(tasks) \in Nat /\ MoverFits(o) /\ DiskInv /\ ChainInv
      /\ dirty \in BOOLEAN
    BY OneMover, LenProperties DEF Base, TypeOK, MoveInv
<1>1. MoveStep /\ NoteStep
    BY MoveSteps, MovingIsSteady, NoteSteps DEF MoveInv
<1>2. ~dirty => ~Diverged
    BY <1>0 DEF DiskInv
<1>3. Diverged => Diverged'
    BY DivergedStays
<1>4. jobs[o].stage \notin {"idle", "flush"} => \A q \in Movers : jobs[q].stage # "flush"
    BY OneMover
<1>5. jobs[o].stage \notin {"idle"} /\ jobs'[o].stage # "idle" => locked' \/ Diverged'
    BY <1>0, LockStays DEF MoverFits
<1>6. jobs[o].stage \in {"saved", "drained"} \cup Gone =>
          /\ tasks' = <<>> /\ timer' = NoTimer /\ ~dirty' /\ (issue = NoIssue => issue' = NoIssue)
          /\ tasks = <<>> /\ ~dirty
    <2> SUFFICES ASSUME jobs[o].stage \in {"saved", "drained"} \cup Gone
                 PROVE  /\ tasks' = <<>> /\ timer' = NoTimer /\ ~dirty'
                        /\ issue = NoIssue => issue' = NoIssue
                        /\ tasks = <<>> /\ ~dirty
        OBVIOUS
    <2>1. tasks = <<>> /\ timer = NoTimer /\ ~dirty /\ jobs[o].stage \notin {"idle", "flush"}
        BY <1>0 DEF MoverFits, Gone
    <2>2. locked
        BY <1>0, <1>2, <2>1 DEF MoverFits
    <2> QED  BY <1>4, <2>1, <2>2, CleanStays
<1>7. jobs[o].stage = "draining" => ~dirty /\ ~dirty' /\ locked
    BY <1>0, <1>1, <1>2 DEF MoverFits, MoveStep
<1>8. ASSUME jobs'[o].stage = jobs[o].stage  PROVE MoverFits(o)'
    <2>1. ASSUME jobs[o].stage \in {"saving", "draining"}, ~Diverged
          PROVE  timer' = NoTimer /\ EndsWith(o)'
        <3>1. locked /\ timer = NoTimer /\ EndsWith(o)
            BY <1>0, <2>1 DEF MoverFits
        <3>2. EndStays /\ tasks # <<>>
            BY <1>4, <2>1, <3>1, LockedChain DEF EndsWith
        <3>3. CASE Len(tasks) = 1 /\ \E ok \in BOOLEAN : Finish(ok)
            <4>1. o \in tasks[1].wakes
                BY <3>1, <3>3 DEF EndsWith
            <4>2. jobs'[o].stage \in {"drained", "awaited", "saved", "unsaved"}
                BY <3>2, <3>3, <4>1, Finishes DEF Base
            <4> QED  BY <1>8, <2>1, <4>2
        <3>4. CASE /\ tasks' # <<>>
                   /\ tasks'[Len(tasks')].wakes = tasks[Len(tasks)].wakes
                   /\ tasks'[Len(tasks')].fresh = tasks[Len(tasks)].fresh
            <4>1. EndsWith(o)'
                BY <3>1, <3>4 DEF EndsWith
            <4>2. Len(tasks') \in 1..Len(tasks')
                <5>1. tasks' \in Seq(Task)
                    BY TypesGoOn DEF TypeOK
                <5> QED  BY <3>4, <5>1, EmptySeq, LenProperties
            <4>3. timer' = NoTimer
                BY <1>1, <3>1, <4>1, <4>2 DEF NoteStep, EndsWith
            <4> QED  BY <4>1, <4>3
        <3> QED  BY <3>2, <3>3, <3>4 DEF EndStays
    <2> QED  BY <1>0, <1>3, <1>5, <1>6, <1>7, <1>8, <2>1 DEF MoverFits
<1>9. ASSUME jobs[o].stage = "idle", jobs'[o].stage = "flush",
             locked' \/ (queued # NoNote /\ locked' = locked)
      PROVE  MoverFits(o)'
    BY <1>3, <1>9 DEF MoverFits, MoveInv, QueuedInv, Gone
<1>10. ASSUME Flush(o)  PROVE MoverFits(o)'
    <2>1. /\ jobs[o].stage = "flush" /\ timer' = NoTimer
          /\ UNCHANGED <<dirty, issue>> /\ (dirty => open # NoNote)
        BY <1>0, <1>10 DEF Flush, DiskInv
    <2>2. CASE dirty /\ PushTask(o, NewTask(open, text, TRUE, Baseline, {o}))
        <3> DEFINE t == NewTask(open, text, TRUE, Baseline, {o})
        <3>1. t \in Task /\ t.fresh /\ t.wakes = {o}
            BY <1>0, NewTaskTyped DEF Base, TypeOK, NewTask
        <3>2. tasks' = Append(tasks, t) /\ jobs'[o].stage = "saving"
            BY <1>0, <2>2 DEF PushTask, Job
        <3> HIDE DEF t
        <3>3. /\ tasks' \in Seq(Task) /\ Len(tasks') = Len(tasks) + 1
              /\ tasks'[Len(tasks) + 1] = t
            BY <1>0, <3>1, <3>2, AppendedTask
        <3>4. EndsWith(o)'
            BY <1>0, <3>1, <3>3, EmptySeq DEF EndsWith
        <3> QED  BY <1>5, <2>1, <3>2, <3>4 DEF MoverFits, Gone
    <2>3. CASE ~dirty /\ tasks # <<>> /\ WaitForLast(o, "draining")
        <3>1. /\ tasks' \in Seq(Task) /\ Len(tasks') = Len(tasks)
              /\ tasks'[Len(tasks)] = [tasks[Len(tasks)] EXCEPT !.wakes = @ \cup {o}]
              /\ jobs'[o] = [jobs[o] EXCEPT !.stage = "draining"]
            BY <1>0, <2>3, Waits DEF Base, Steps
        <3>2. Len(tasks) \in 1..Len(tasks) /\ tasks[Len(tasks)] \in Task
            BY <2>3, HeadTask, Wakers DEF Base
        <3>3. tasks[Len(tasks)].fresh
            BY <1>0, <2>3, <3>2 DEF ChainInv
        <3>4. EndsWith(o)' /\ jobs'[o].stage = "draining"
            BY <1>0, <3>1, <3>2, <3>3, EmptySeq DEF EndsWith, Task, Job
        <3> QED  BY <1>5, <2>1, <2>3, <3>4 DEF MoverFits, Gone
    <2>4. CASE ~dirty /\ tasks = <<>> /\ LeaveFlush(o, issue = NoIssue)
        <3>1. /\ jobs'[o].stage = IF issue = NoIssue THEN "flushed" ELSE "blocked"
              /\ tasks' = <<>>
            BY <1>0, <2>4 DEF LeaveFlush, Job
        <3> QED  BY <1>5, <2>1, <2>4, <3>1 DEF MoverFits, Gone
    <2> QED  BY <1>10, <2>1, <2>2, <2>3, <2>4 DEF Flush, Attempt
<1>11. ASSUME FlushGoesOn(o)  PROVE MoverFits(o)'
    <2>1. jobs[o].stage \in {"saved", "drained", "unsaved"} /\ UNCHANGED <<dirty, issue>>
        BY <1>0, <1>11 DEF FlushGoesOn, MoverFits
    <2>2. jobs[o].stage = "saved" => ~dirty
        BY <1>6
    <2>3. PICK ok \in BOOLEAN : /\ LeaveFlush(o, ok) /\ (ok => issue = NoIssue)
                                /\ ok => jobs[o].stage # "unsaved"
        BY <1>0, <1>11, <2>1, <2>2 DEF FlushGoesOn
    <2>4. jobs'[o].stage = IF ok THEN "flushed" ELSE "blocked"
        BY <1>0, <2>3 DEF LeaveFlush, Job
    <2> QED  BY <1>5, <1>6, <2>1, <2>3, <2>4 DEF MoverFits, Gone
<1>12. ASSUME WakesUp(o)  PROVE MoverFits(o)'
    <2>1. PICK ok \in BOOLEAN :
              /\ Finish(ok) /\ jobs'[o] = Woken(jobs[o], ok)
              /\ ok => /\ tasks[1].stage \in {"indexing", "settling"}
                       /\ Settled \/ ~tasks[1].fresh
        BY <1>12 DEF WakesUp
    <2>2. tasks # <<>> /\ o \in tasks[1].wakes /\ 1 \in 1..Len(tasks)
              /\ Len(tasks) \in 1..Len(tasks)
        BY <1>12, HeadTask DEF WakesUp, Base
    <2>3. jobs[o].stage \in {"saving", "draining"}
        BY <1>0, <2>2 DEF Base, WakeInv, Waiting, MoverFits
    <2>4. jobs'[o].stage = IF jobs[o].stage = "draining" THEN "drained"
                           ELSE IF ok THEN "saved" ELSE "unsaved"
        BY <1>0, <2>1, <2>3 DEF Woken, Job
    <2>5. ASSUME ~Diverged  PROVE tasks' = <<>> /\ timer' = NoTimer /\ tasks[1].fresh
        <3>1. locked /\ timer = NoTimer /\ EndsWith(o)
            BY <1>0, <2>3, <2>5 DEF MoverFits
        <3>2. Len(tasks) = 1
            BY <2>2, <3>1 DEF EndsWith, Base, WakeInv
        <3>3. tasks' = <<>>
            <4>1. tasks' = Tail(tasks) /\ tasks' \in Seq(Task) /\ Len(tasks') = Len(tasks) - 1
                BY <1>0, <2>1, <2>2, TailTasks DEF Finish
            <4> QED  BY <3>2, <4>1, EmptySeq
        <3>4. timer' = NoTimer
            BY <1>12, <3>1 DEF WakesUp
        <3> QED  BY <3>1, <3>2, <3>3, <3>4 DEF EndsWith
    <2>6. ASSUME ok, jobs[o].stage = "saving"  PROVE ~Diverged /\ ~dirty'
        <3>1. tasks[1].stage \in {"indexing", "settling"}
            BY <2>1, <2>6
        <3>2. ~Diverged
            BY <1>0, <2>2, <3>1 DEF DiskInv, Diverged
        <3>3. Settled /\ tasks[1].fresh
            BY <2>1, <2>5, <2>6, <3>2
        <3>4. tasks[1].mine /\ tasks[1].path = open
            BY <1>0, <2>2, <3>1 DEF ChainInv
        <3> QED  BY <3>2, <3>3, <3>4 DEF Settled
    <2>7. jobs[o].stage = "draining" => ~Diverged /\ ~dirty'
        BY <1>2, <1>7
    <2> QED  BY <1>5, <2>3, <2>4, <2>5, <2>6, <2>7 DEF MoverFits, Gone
<1>13. ASSUME jobs[o].stage \in Gone, jobs'[o].stage \in Gone  PROVE MoverFits(o)'
    BY <1>0, <1>5, <1>6, <1>13 DEF MoverFits, Gone
<1>14. ASSUME jobs'[o].stage = "idle"  PROVE MoverFits(o)'
    BY <1>14 DEF MoverFits, Gone
<1> QED  BY <1>8, <1>9, <1>10, <1>11, <1>12, <1>13, <1>14, MoverMoves DEF MoverMove

-----------------------------------------------------------------------------
(***************************************************************************)
(* Saving again                                                            *)
(***************************************************************************)

\* While a continuation is due the page keeps its note and its issue.
LEMMA PromptSteps ==
    ASSUME Base, Moving, MoveInv, [Next]_vars, ~Quiet
    PROVE  UNCHANGED <<open, issue>>
<1> USE DEF Base
<1>1. tasks # <<>> => tasks[1].path = open /\ open # NoNote
    BY HeadTask DEF MoveInv, ChainInv
<1>2. CASE (\E c \in Contents : Type(c)) \/ CancelDialog \/ AskRetry
           \/ (\E n \in scene.notes : AskSelect(n) \/ AskCreate(n)) \/ AskClose
           \/ SaveAnswered \/ Indexed \/ Settled \/ SelectStat \/ SelectAnswered \/ SelectDone
           \/ CreateAnswered \/ CreateListed \/ (CloseWindow("close") /\ UNCHANGED <<jobs, locked>>)
           \/ LampOff \/ TimerFires
    BY <1>2 DEF Type, CancelDialog, AskRetry, AskSelect, AskCreate, AskClose, UserMay,
       SaveAnswered, Indexed, Settled, SelectStat, SelectAnswered, SelectDone, CreateAnswered,
       CreateListed, CloseWindow, LampOff, TimerFires
<1>3. CASE StartTask
    BY <1>1, <1>3 DEF StartTask, HeadQueued
<1>4. CASE (\E o \in Movers : Flush(o) \/ FlushGoesOn(o)) \/ StartSelect \/ SelectFlushed
           \/ CreateFlushed \/ (CloseFlushed /\ MayGoOn("close"))
    BY <1>4 DEF Flush, FlushGoesOn, StartSelect, SelectFlushed, CreateFlushed, CloseFlushed
<1>5. CASE RetryDone
    BY <1>5 DEF RetryDone, MoveInv, RetryInv
<1>6. CASE SaveExecuted \/ CreateExecuted \/ JobReads("select") \/ UNCHANGED vars
    BY <1>6 DEF SaveExecuted, CreateExecuted, JobReads, vars
<1> QED  BY <1>2, <1>3, <1>4, <1>5, <1>6, MoverActions

\* A job that waits for a save keeps waiting for it, unless the save returns.
LEMMA WakesStay ==
    ASSUME Base, Moving, MoveInv, [Next]_vars,
           NEW o \in AllOps, NEW i \in 1..Len(tasks), o \in tasks[i].wakes
    PROVE  \/ \E k \in 1..Len(tasks') : o \in tasks'[k].wakes
           \/ i = 1 /\ \E ok \in BOOLEAN : Finish(ok)
<1>0. tasks \in Seq(Task) /\ Len(tasks) \in Nat /\ tasks # <<>>
    BY LenProperties, EmptySeq DEF Base, TypeOK
<1>1. CASE tasks' = tasks
    BY <1>1
<1>2. CASE tasks' = Outdated(tasks)
    <2>1. SameChain(tasks, tasks')
        BY <1>0, <1>2, OutdatedTasks
    <2> QED  BY <2>1 DEF SameChain
<1>3. ASSUME NEW t \in Task, tasks' = Append(tasks, t)
      PROVE  \E k \in 1..Len(tasks') : o \in tasks'[k].wakes
    <2>1. Len(tasks') = Len(tasks) + 1 /\ \A k \in 1..Len(tasks) : tasks'[k] = tasks[k]
        BY <1>0, <1>3, AppendedTask
    <2>2. i \in 1..Len(tasks')
        BY <1>0, <2>1
    <2> QED  BY <2>1, <2>2
<1>4. ASSUME NEW q \in Movers, WaitForLast(q, "draining")
      PROVE  \E k \in 1..Len(tasks') : o \in tasks'[k].wakes
    <2>1. q \in AllOps /\ "draining" \in Steps
        BY OneMover DEF Steps
    <2>2. /\ Len(tasks') = Len(tasks)
          /\ \A k \in 1..Len(tasks) : k # Len(tasks) => tasks'[k] = tasks[k]
          /\ tasks'[Len(tasks)] = [tasks[Len(tasks)] EXCEPT !.wakes = @ \cup {q}]
        BY <1>0, <1>4, <2>1, Waits DEF Base
    <2>3. tasks[Len(tasks)] \in Task
        BY <1>0, HeadTask, ElementOfSeq DEF Base
    <2>4. o \in tasks'[i].wakes
        <3>1. CASE i = Len(tasks)
            BY <2>2, <2>3, <3>1 DEF Task
        <3>2. CASE i # Len(tasks)
            BY <2>2, <3>2
        <3> QED  BY <3>1, <3>2
    <2> QED  BY <2>2, <2>4
<1>5. CASE HeadGoesOn
    <2>1. o \in tasks'[i].wakes
        BY <1>5 DEF HeadGoesOn
    <2> QED  BY <1>5, <2>1 DEF HeadGoesOn
<1>6. ASSUME NEW ok \in BOOLEAN, Finish(ok), i # 1
      PROVE  \E k \in 1..Len(tasks') : o \in tasks'[k].wakes
    <2>1. /\ Len(tasks') = Len(tasks) - 1
          /\ \A k \in 1..Len(tasks') : tasks'[k] = tasks[k + 1]
        BY <1>0, <1>6, TailTasks DEF Finish
    <2>2. i - 1 \in 1..Len(tasks') /\ (i - 1) + 1 = i
        BY <1>0, <1>6, <2>1
    <2>3. tasks'[i - 1] = tasks[i]
        BY <2>1, <2>2
    <2> QED  BY <2>2, <2>3
<1> QED  BY <1>0, <1>1, <1>2, <1>3, <1>4, <1>5, <1>6, ChainSteps DEF ChainStep

\* Every step keeps RetryInv.
LEMMA RetryGoesOn ==
    ASSUME IInv, Moving, MoveInv, [Next]_vars
    PROVE  RetryInv'
<1> USE DEF IInv
<1> DEFINE o == "retry"
<1>0. /\ o \in AllOps /\ o \notin Movers /\ RetryInv /\ jobs[o] \in Job
      /\ jobs \in [AllOps -> Job] /\ tasks \in Seq(Task) /\ Len(tasks) \in Nat
    BY OneMover, LenProperties DEF Movers, MoveInv, Base, TypeOK
<1>1. NoteStep
    BY MovingIsSteady, NoteSteps DEF MoveInv
<1>2. CASE jobs'[o] = jobs[o]
    <2>1. ASSUME jobs[o].stage = "saving"
          PROVE  (\E i \in 1..Len(tasks') : o \in tasks'[i].wakes) /\ open' = open
        <3>1. PICK i \in 1..Len(tasks) : o \in tasks[i].wakes
            BY <1>0, <2>1 DEF RetryInv
        <3>2. tasks # <<>>
            BY <1>0, <3>1, EmptySeq
        <3>3. ~(i = 1 /\ \E ok \in BOOLEAN : Finish(ok))
            <4> SUFFICES ASSUME i = 1, NEW ok \in BOOLEAN, Finish(ok)  PROVE FALSE
                OBVIOUS
            <4>1. jobs'[o].stage \in {"drained", "awaited", "saved", "unsaved"}
                BY <3>1, <3>2, Finishes DEF Base
            <4> QED  BY <1>2, <2>1, <4>1
        <3>4. \E k \in 1..Len(tasks') : o \in tasks'[k].wakes
            BY <1>0, <3>1, <3>3, WakesStay
        <3> QED  BY <1>1, <3>2, <3>4 DEF NoteStep
    <2>2. jobs[o].stage \in {"saved", "unsaved"} => UNCHANGED <<open, issue>>
        BY <1>0, PromptSteps DEF Quiet, Prompt
    <2> QED  BY <1>0, <1>2, <2>1, <2>2 DEF RetryInv
<1>3. CASE WakesUp(o)
    <2>1. tasks # <<>> /\ o \in tasks[1].wakes /\ 1 \in 1..Len(tasks)
        BY <1>3, HeadTask DEF WakesUp, Base
    <2>2. jobs[o].stage = "saving"
        BY <1>0, <2>1 DEF Base, WakeInv, Waiting, RetryInv
    <2>3. \/ jobs'[o] = Woken(jobs[o], FALSE) /\ issue' # NoIssue
          \/ jobs'[o] = Woken(jobs[o], TRUE)
        BY <1>3 DEF WakesUp
    <2>4. \/ jobs'[o].stage = "unsaved" /\ issue' # NoIssue
          \/ jobs'[o].stage = "saved"
        BY <1>0, <2>2, <2>3 DEF Woken, Job
    <2>5. open' = open /\ open # NoNote
        BY <1>0, <1>1, <2>1, <2>2 DEF NoteStep, RetryInv
    <2> QED  BY <2>4, <2>5 DEF RetryInv
<1>4. CASE AskRetry /\ jobs'[o] # jobs[o]
    <2> DEFINE t == NewTask(open, text, TRUE, Baseline, {o})
    <2>1. PushTask(o, t) /\ open # NoNote /\ open' = open
        BY <1>4 DEF AskRetry
    <2>2. t \in Task /\ t.wakes = {o}
        BY <1>0, NewTaskTyped DEF Base, TypeOK, NewTask
    <2>3. tasks' = Append(tasks, t) /\ jobs'[o].stage = "saving"
        BY <1>0, <2>1 DEF PushTask, Job
    <2> HIDE DEF t
    <2>4. Len(tasks') = Len(tasks) + 1 /\ tasks'[Len(tasks) + 1] = t
        BY <1>0, <2>2, <2>3, AppendedTask
    <2>5. Len(tasks) + 1 \in 1..Len(tasks')
        BY <1>0, <2>4
    <2> QED  BY <2>1, <2>2, <2>3, <2>4, <2>5 DEF RetryInv
<1>5. CASE RetryDone
    <2>1. jobs'[o].stage = "idle"
        BY <1>0, <1>5, JobEnds DEF RetryDone, NoJob, Base
    <2> QED  BY <2>1 DEF RetryInv
<1>6. OwnStep(o) => AskRetry \/ RetryDone
    BY DEF OwnStep
<1> HIDE DEF o
<1> QED  BY <1>0, <1>2, <1>3, <1>4, <1>5, <1>6, JobSteps

-----------------------------------------------------------------------------
(***************************************************************************)
(* What a selection read and what was created                              *)
(***************************************************************************)

\* Only a save and a creation change the disk.
LEMMA DiskSteps ==
    ASSUME Base, Moving, MoveInv, [Next]_vars
    PROVE  disk' = disk \/ SaveExecuted \/ CreateExecuted
<1>1. CASE \/ (\E c \in Contents : Type(c)) \/ CancelDialog \/ AskRetry
           \/ (\E n \in scene.notes : AskSelect(n) \/ AskCreate(n)) \/ AskClose
           \/ StartTask \/ (\E o \in Movers : Flush(o) \/ FlushGoesOn(o))
           \/ StartSelect \/ SelectFlushed \/ CreateFlushed
           \/ (CloseFlushed /\ MayGoOn("close")) \/ RetryDone \/ JobReads("select")
    BY <1>1 DEF Type, CancelDialog, AskRetry, AskSelect, AskCreate, AskClose, StartTask, Flush,
       FlushGoesOn, StartSelect, SelectFlushed, CreateFlushed, CloseFlushed, RetryDone, JobReads
<1>2. CASE \/ SaveAnswered \/ Indexed \/ Settled
           \/ SelectStat \/ SelectAnswered \/ SelectDone
           \/ CreateAnswered \/ CreateListed \/ (CloseWindow("close") /\ UNCHANGED <<jobs, locked>>)
           \/ LampOff \/ TimerFires \/ UNCHANGED vars
    BY <1>2 DEF SaveAnswered, Indexed, Settled, SelectStat, SelectAnswered, SelectDone,
       CreateAnswered, CreateListed, CloseWindow, LampOff, TimerFires, vars
<1> QED  BY <1>1, <1>2, MoverActions

\* A flush reads nothing.
LEMMA FlushSteps ==
    ASSUME TypeOK, NEW o \in AllOps, Flush(o) \/ FlushGoesOn(o)
    PROVE  /\ jobs'[o].snap = jobs[o].snap
           /\ jobs'[o].stage \in {"saving", "awaiting", "draining", "flushed", "blocked"}
<1>0. jobs[o] \in Job /\ jobs \in [AllOps -> Job]
    BY DEF TypeOK
<1>1. ASSUME NEW t, PushTask(o, t)
      PROVE  jobs'[o].snap = jobs[o].snap /\ jobs'[o].stage = "saving"
    BY <1>0, <1>1 DEF PushTask, Job
<1>2. ASSUME NEW st \in Steps, WaitForLast(o, st) \/ Continue(o, st)
      PROVE  jobs'[o].snap = jobs[o].snap /\ jobs'[o].stage = st
    BY <1>0, <1>2 DEF WaitForLast, Continue, Job
<1>3. ASSUME NEW ok \in BOOLEAN, LeaveFlush(o, ok)
      PROVE  jobs'[o].snap = jobs[o].snap /\ jobs'[o].stage \in {"flushed", "blocked"}
    BY <1>0, <1>3 DEF LeaveFlush, Job
<1>4. ASSUME Attempt(o)
      PROVE  /\ jobs'[o].snap = jobs[o].snap
             /\ jobs'[o].stage \in {"saving", "awaiting", "draining", "flushed", "blocked"}
    BY <1>1, <1>2, <1>4 DEF Attempt, Steps
<1>5. CASE Flush(o)
    BY <1>2, <1>3, <1>4, <1>5 DEF Flush, Steps
<1>6. CASE FlushGoesOn(o)
    BY <1>3, <1>4, <1>6 DEF FlushGoesOn
<1> QED  BY <1>5, <1>6

\* Every step keeps ReadInv.
LEMMA ReadGoesOn ==
    ASSUME IInv, Moving, MoveInv, [Next]_vars
    PROVE  ReadInv'
<1> USE DEF IInv, Base
<1>0. /\ "select" \in Movers /\ "create" \in Movers /\ "select" \in AllOps /\ "create" \in AllOps
      /\ jobs \in [AllOps -> Job] /\ disk \in [Notes -> Revisions] /\ ReadInv
    BY OneMover DEF Movers, AllOps, TypeOK, MoveInv
<1>1. SaveExecuted => tasks # <<>>
    BY AtHead, CallerNames DEF SaveExecuted, Sent
<1>2. CreateExecuted => jobs["create"].stage = "applying"
    BY AtHead, CallerNames DEF CreateExecuted, Sent, AllOps
<1>3. jobs["select"].stage \in Gone => disk' = disk
    <2>1. jobs["select"].stage \in Gone => tasks = <<>> /\ jobs["create"].stage = "idle"
        BY <1>0, OneMover DEF MoveInv, MoverFits, Gone
    <2> QED  BY <1>1, <1>2, <2>1, DiskSteps
<1>4. ASSUME jobs'["select"].stage = "read", jobs'["select"].snap # Missing
      PROVE  disk'[jobs'["select"].path] = jobs'["select"].snap
    <2>1. CASE jobs'["select"] = jobs["select"]
        BY <1>0, <1>3, <1>4, <2>1 DEF ReadInv, Gone
    <2>2. CASE JobReads("select")
        <3>1. disk' = disk /\ jobs["select"] \in Job
            BY <1>0, <2>2 DEF JobReads
        <3>2. PICK snap \in Revisions :
                    /\ Read(jobs["select"].path, snap)
                    /\ jobs' = [jobs EXCEPT !["select"].stage = "read", !["select"].snap = snap]
            BY <2>2 DEF JobReads
        <3>3. jobs'["select"].path = jobs["select"].path /\ jobs'["select"].snap = snap
            BY <1>0, <3>1, <3>2 DEF Job
        <3> QED  BY <1>4, <3>1, <3>2, <3>3 DEF Read
    <2>3. CASE jobs'["select"] # jobs["select"] /\ ~JobReads("select")
        <3>1. ASSUME NEW st \in Steps, Continue("select", st)  PROVE jobs'["select"].stage = st
            BY <1>0, <3>1 DEF Continue, Job
        <3>2. EndJob("select") => jobs'["select"].stage = "idle"
            BY <1>0, JobEnds DEF NoJob
        <3>3. ~WakesUp("select")
            <4> SUFFICES ASSUME WakesUp("select")  PROVE FALSE
                OBVIOUS
            <4>1. PICK ok \in BOOLEAN : jobs'["select"] = Woken(jobs["select"], ok)
                BY DEF WakesUp
            <4> QED  BY <1>0, <1>4, <4>1 DEF Woken, Job
        <3>4. ~Flush("select") /\ ~FlushGoesOn("select")
            BY <1>0, <1>4, FlushSteps
        <3>5. ~StartSelect
            BY <1>0, <1>4 DEF StartSelect, NoJob
        <3>6. ~SelectFlushed /\ ~SelectStat /\ ~SelectAnswered /\ ~SelectDone
            BY <1>4, <3>1, <3>2
            DEF SelectFlushed, SelectStat, SelectAnswered, SelectDone, EndSelect, Steps
        <3> QED  BY <1>0, <2>3, <3>3, <3>4, <3>5, <3>6, JobSteps DEF OwnStep
    <2> QED  BY <2>1, <2>2, <2>3
<1>5. /\ jobs'["create"].snap # Missing =>
             /\ jobs'["create"].stage \in {"applying", "listing"}
             /\ disk'[jobs'["create"].path] = Blank
      /\ jobs'["create"].stage = "listing" => jobs'["create"].snap # Missing
    <2> DEFINE j == jobs["create"]
    <2>0. j \in Job
        BY <1>0
    <2>k. jobs["create"].stage \in {"applying", "listing"} => tasks = <<>>
        BY <1>0 DEF MoveInv, MoverFits, Gone
    <2>m. ASSUME j.stage \notin {"applying", "listing"}  PROVE j.snap = Missing
        BY <1>0, <2>m DEF ReadInv
    <2>1. CASE jobs'["create"] = j /\ ~CreateExecuted
        BY <1>0, <1>1, <2>1, <2>k, DiskSteps DEF ReadInv
    <2>2. CASE CreateExecuted
        <3>1. j.stage = "applying" /\ j.path \in Notes
            BY <1>2, <2>2, <1>0 DEF JobInv, OnNotes
        <3>2. CASE disk[j.path] = Missing /\ disk' = [disk EXCEPT ![j.path] = Blank]
                   /\ jobs' = [jobs EXCEPT !["create"].snap = Blank]
            <4>1. jobs'["create"].path = j.path /\ jobs'["create"].stage = "applying"
                BY <1>0, <2>0, <3>1, <3>2 DEF Job
            <4> QED  BY <1>0, <3>1, <3>2, <4>1
        <3>3. CASE UNCHANGED <<disk, jobs>>
            BY <1>0, <3>3 DEF ReadInv
        <3>4. CASE disk' = [disk EXCEPT ![j.path] = Blank] /\ UNCHANGED jobs
            BY <1>0, <3>1, <3>4 DEF ReadInv
        <3> QED  BY <2>2, <3>2, <3>3, <3>4 DEF CreateExecuted
    <2>3. CASE CreateAnswered
        <3>1. j.stage = "applying" /\ disk' = disk
            BY <2>3, AtHead, CallerNames DEF CreateAnswered, Replied, AllOps
        <3>2. CASE EndJob("create")
            BY <1>0, <3>2, JobEnds DEF NoJob
        <3>3. CASE j.snap # Missing /\ Continue("create", "listing")
            <4>1. jobs'["create"].snap = j.snap /\ jobs'["create"].path = j.path
                  /\ jobs'["create"].stage = "listing"
                BY <1>0, <2>0, <3>3 DEF Continue, Job
            <4> QED  BY <1>0, <3>1, <3>3, <4>1 DEF ReadInv
        <3> QED  BY <2>3, <3>2, <3>3 DEF CreateAnswered
    <2>4. ASSUME jobs'["create"].snap = j.snap, j.stage \notin {"applying", "listing"},
                 jobs'["create"].stage # "listing"
          PROVE  /\ jobs'["create"].snap = Missing
                 /\ jobs'["create"].stage # "listing"
        BY <2>4, <2>m
    <2>5. CASE WakesUp("create")
        <3>1. PICK ok \in BOOLEAN : jobs'["create"] = Woken(j, ok)
            BY <2>5 DEF WakesUp
        <3>2. j.stage \in Waiting
            BY <2>5, HeadTask DEF WakesUp, WakeInv
        <3> QED  BY <2>0, <2>4, <3>1, <3>2 DEF Woken, Job, Waiting
    <2>6. CASE Flush("create") \/ FlushGoesOn("create")
        <3>1. j.stage \notin {"applying", "listing"}
            BY <1>0, <2>6 DEF Flush, FlushGoesOn
        <3>2. jobs'["create"].snap = j.snap /\ jobs'["create"].stage # "listing"
            BY <1>0, <2>6, FlushSteps
        <3> QED  BY <2>4, <3>1, <3>2
    <2>7. ASSUME NEW n \in scene.notes, AskCreate(n)
          PROVE  jobs'["create"].snap = Missing /\ jobs'["create"].stage # "listing"
        BY <1>0, <2>7 DEF AskCreate, NoJob
    <2>8. CASE CreateFlushed
        <3>1. j.stage \notin {"applying", "listing"}
            BY <2>8 DEF CreateFlushed, Prompted, Prompt
        <3>2. CASE EndJob("create")
            BY <1>0, <3>2, JobEnds DEF NoJob
        <3>3. CASE Continue("create", "applying")
            BY <1>0, <2>0, <2>4, <3>1, <3>3 DEF Continue, Job
        <3> QED  BY <2>8, <3>2, <3>3 DEF CreateFlushed
    <2>9. CASE CreateListed
        BY <1>0, <2>9, JobEnds DEF CreateListed, NoJob
    <2> QED  BY <1>0, <2>1, <2>2, <2>3, <2>5, <2>6, <2>7, <2>8, <2>9, JobSteps DEF OwnStep
<1> QED  BY <1>4, <1>5 DEF ReadInv

-----------------------------------------------------------------------------
(***************************************************************************)
(* The versions the user knows of                                          *)
(***************************************************************************)

\* What a step does to the known versions of the open note.
KnownStep ==
    /\ open' = open /\ open # NoNote => \A r \in known[open] : r \in known'[open]
    /\ open' # NoNote => \/ UNCHANGED <<open, baseline>>
                         \/ baseline' \in known'[open']
                         \/ open' = open /\ Landed /\ baseline' = tasks[1].actual

\* Every step is a KnownStep.
LEMMA KnownSteps ==
    ASSUME Base, Moving, MoveInv, [Next]_vars
    PROVE  KnownStep
<1> USE DEF Base
<1>0. known \in [Notes -> SUBSET Revisions] /\ disk \in [Notes -> Revisions]
    BY DEF TypeOK
<1>k. ASSUME UNCHANGED <<open, baseline, known>>  PROVE KnownStep
    BY <1>k DEF KnownStep
<1>1. CASE \/ (\E c \in Contents : Type(c)) \/ CancelDialog \/ AskRetry
           \/ (\E n \in scene.notes : AskSelect(n) \/ AskCreate(n)) \/ AskClose
           \/ StartTask \/ (\E o \in Movers : Flush(o) \/ FlushGoesOn(o))
           \/ StartSelect \/ SelectFlushed \/ CreateFlushed
           \/ (CloseFlushed /\ MayGoOn("close")) \/ RetryDone \/ JobReads("select")
    BY <1>1, <1>k DEF Type, CancelDialog, AskRetry, AskSelect, AskCreate, AskClose, StartTask,
       Flush, FlushGoesOn, StartSelect, SelectFlushed, CreateFlushed, CloseFlushed, RetryDone,
       JobReads
<1>2. CASE Indexed \/ Settled \/ SelectStat \/ SelectDone \/ CreateAnswered
           \/ (CloseWindow("close") /\ UNCHANGED <<jobs, locked>>)
           \/ LampOff \/ TimerFires \/ UNCHANGED vars
    BY <1>2, <1>k DEF Indexed, Settled, SelectStat, SelectDone, CreateAnswered, CloseWindow,
       LampOff, TimerFires, vars
<1>s. ASSUME NEW p \in Notes, NEW c, NEW b, NEW consent, Show(p, c, b, consent)
      PROVE  KnownStep
    <2>1. open' = p /\ baseline' = b
          /\ known' = IF p = NoNote THEN known ELSE [known EXCEPT ![p] = @ \cup {b}]
        BY <1>s DEF Show
    <2>2. p # NoNote => known'[p] = known[p] \cup {b}
        BY <1>0, <2>1
    <2> QED  BY <2>1, <2>2 DEF KnownStep
<1>c. ASSUME NEW consent, ClearActiveNoteState(consent)  PROVE KnownStep
    BY <1>c DEF ClearActiveNoteState, Show, KnownStep
<1>3. CASE SelectAnswered
    <2>1. jobs["select"].stage = "read" /\ "select" \in AllOps
        BY <1>3, AtHead, CallerNames DEF SelectAnswered, Replied, AllOps
    <2>2. jobs["select"].path \in Notes
        BY <2>1 DEF JobInv, OnNotes
    <2> QED  BY <1>3, <1>k, <1>c, <1>s, <2>2 DEF SelectAnswered
<1>4. CASE CreateListed
    <2>1. jobs["create"].path \in Notes
        BY <1>4 DEF CreateListed, JobInv, OnNotes, AllOps
    <2> QED  BY <1>4, <1>k, <1>s, <2>1 DEF CreateListed, EnterCreated
<1>5. CASE SaveExecuted
    <2> DEFINE t == tasks[1]
    <2>1. UNCHANGED <<open, baseline>> /\ (WriteNote(t) \/ known' = known)
        BY <1>5 DEF SaveExecuted
    <2>2. t.path = open /\ open \in Notes
        BY <1>5, SaveExecutes DEF MoveInv
    <2>3. WriteNote(t) => known'[open] = known[open] \cup {t.text}
        BY <1>0, <2>2 DEF WriteNote
    <2> QED  BY <2>1, <2>3 DEF KnownStep
<1>6. CASE SaveAnswered
    <2>1. UNCHANGED <<open, known>>
        BY <1>6 DEF SaveAnswered
    <2>2. CASE SaveConflict(tasks[1]) \/ SaveFailed(tasks[1])
        BY <1>k, <2>1, <2>2 DEF SaveConflict, SaveFailed
    <2>3. CASE SaveDone(tasks[1])
        <3>1. Landed
            BY <1>6, <2>3, AtHead, CallerNames DEF SaveAnswered, SaveDone, Replied, Landed
        <3> QED  BY <2>1, <2>3, <3>1 DEF SaveDone, KnownStep
    <2> QED  BY <1>6, <2>2, <2>3 DEF SaveAnswered
<1>7. CASE CreateExecuted
    <2> DEFINE n == jobs["create"].path
    <2>1. UNCHANGED <<open, baseline>>
        BY <1>7 DEF CreateExecuted
    <2>2. jobs["create"].stage = "applying" /\ "create" \in Movers
        BY <1>7, AtHead, CallerNames DEF CreateExecuted, Sent, AllOps, Movers
    <2>3. n \in Notes /\ tasks = <<>> /\ ~dirty
        BY <2>2 DEF JobInv, OnNotes, AllOps, MoveInv, MoverFits, Gone
    <2>4. ASSUME open # NoNote  PROVE disk[open] # Missing
        <3>1. disk[open] = baseline
            BY <2>3, <2>4 DEF MoveInv, DiskInv, Diverged, Landed
        <3>2. baseline = text /\ text \in Contents
            BY <2>3, <2>4 DEF MoveInv, OpenNoteInv, TypeOK
        <3> QED  BY <3>1, <3>2, MissingAssumption
    <2>5. known' = known \/ (disk[n] = Missing /\ known' = [known EXCEPT ![n] = {Blank}])
        BY <1>7 DEF CreateExecuted
    <2>6. open # NoNote => known'[open] = known[open]
        BY <1>0, <2>4, <2>5 DEF TypeOK
    <2> QED  BY <2>1, <2>6 DEF KnownStep
<1> QED  BY <1>1, <1>2, <1>3, <1>4, <1>5, <1>6, <1>7, MoverActions

\* Every step keeps KnownInv.
LEMMA KnownGoesOn ==
    ASSUME IInv, Moving, MoveInv, [Next]_vars
    PROVE  KnownInv'
<1> USE DEF IInv
<1>1. KnownStep /\ NoteStep /\ KnownInv /\ OpenNoteInv
    BY KnownSteps, MovingIsSteady, NoteSteps DEF MoveInv
<1>2. tasks # <<>> => /\ tasks[1].path = open /\ open # NoNote /\ open \in Notes
                      /\ open' = open /\ 1 \in 1..Len(tasks)
    BY <1>1, HeadTask DEF MoveInv, ChainInv, Base, TaskInv, NoteStep
<1>3. ASSUME open' # NoNote  PROVE baseline' \in known'[open']
    BY <1>1, <1>2, <1>3 DEF KnownStep, KnownInv, Landed
<1>4. ASSUME Landed'  PROVE tasks'[1].actual \in known'[open']
    <2>1. /\ tasks # <<>>
          /\ \/ Kept(tasks[1], tasks'[1]) \/ Started(tasks[1], tasks'[1])
             \/ Written(tasks[1], tasks'[1]) \/ Advanced(tasks[1], tasks'[1])
          /\ Same(tasks[1], tasks'[1])
          /\ tasks'[1].stage = "calling" /\ tasks'[1].status = "saved"
        BY <1>4, FirstSave DEF Landed
    <2>2. CASE Kept(tasks[1], tasks'[1])
        <3>1. Landed /\ tasks'[1].actual = tasks[1].actual
            BY <2>1, <2>2 DEF Kept, Landed
        <3> QED  BY <1>1, <1>2, <2>1, <3>1 DEF KnownStep, KnownInv
    <2>3. CASE Written(tasks[1], tasks'[1])
        <3>1. WriteNote(tasks[1]) /\ tasks'[1].actual = tasks[1].text
            BY <2>1, <2>3 DEF Written, Same
        <3>2. tasks[1].text \in known'[open]
            BY <1>2, <2>1, <3>1 DEF WriteNote, Base, TypeOK
        <3> QED  BY <1>2, <2>1, <3>1, <3>2
    <2>4. ~Started(tasks[1], tasks'[1]) /\ ~Advanced(tasks[1], tasks'[1])
        BY <2>1 DEF Started, Advanced
    <2> QED  BY <2>1, <2>2, <2>3, <2>4
<1> QED  BY <1>3, <1>4 DEF KnownInv

-----------------------------------------------------------------------------
(***************************************************************************)
(* Where no command fails                                                  *)
(***************************************************************************)

\* A disk that has what the page believes comes apart only by a failing save.
LEMMA CalmDisk ==
    ASSUME IInv, Moving, MoveInv, [Next]_vars, ~scene.failing
    PROVE  ~Diverged'
<1> USE DEF IInv
<1>0. ~Diverged /\ DiskInv /\ ChainInv
    BY DEF MoveInv, CalmInv
<1>1. MoveStep
    BY MoveSteps
<1> SUFFICES ASSUME Diverged'  PROVE FALSE
    OBVIOUS
<1>2. open' # NoNote /\ disk'[open'] # baseline' /\ ~Landed'
    BY DEF Diverged
<1>3. CASE UNCHANGED <<open, baseline>> /\ (open # NoNote => disk'[open] = disk[open])
    <2>1. Landed
        BY <1>0, <1>2, <1>3 DEF Diverged
    <2>2. SaveAnswered /\ SaveDone(tasks[1])
        BY <1>2, <2>1, LandedStays
    <2>3. 1 \in 1..Len(tasks) /\ disk[open] = tasks[1].actual
        BY <1>0, <2>1, HeadTask DEF Landed, DiskInv, Base
    <2>4. tasks[1].mine
        BY <1>0, <2>1, <2>3 DEF ChainInv, Landed
    <2> QED  BY <1>2, <1>3, <2>2, <2>3, <2>4 DEF SaveDone
<1>4. CASE UNCHANGED <<open, baseline>> /\ SaveExecuted
    <2>1. /\ HeadGoesOn /\ tasks[1].stage = "calling" /\ tasks[1].status = "none"
          /\ tasks'[1].stage = "calling"
          /\ \/ tasks'[1].status = "saved"
             \/ disk[open] # tasks[1].expected
        BY <1>4, SaveExecutes DEF MoveInv
    <2>2. tasks[1].expected = baseline
        BY <1>0, <2>1 DEF DiskInv, HeadGoesOn
    <2>3. tasks'[1].status # "saved"
        BY <1>2, <2>1 DEF Landed, HeadGoesOn
    <2> QED  BY <1>0, <1>2, <1>4, <2>1, <2>2, <2>3 DEF Diverged, Landed
<1>5. CASE UNCHANGED <<open, disk>> /\ Landed /\ SaveAnswered /\ SaveDone(tasks[1])
    <2>1. 1 \in 1..Len(tasks) /\ disk[open] = tasks[1].actual
        BY <1>0, <1>5, HeadTask DEF Landed, DiskInv, Base
    <2>2. tasks[1].mine
        BY <1>0, <1>5, <2>1 DEF ChainInv, Landed
    <2> QED  BY <1>2, <1>5, <2>1, <2>2 DEF SaveDone
<1> QED  BY <1>1, <1>2, <1>3, <1>4, <1>5 DEF MoveStep

\* Every step keeps CalmInv.
LEMMA CalmGoesOn ==
    ASSUME IInv, Moving, MoveInv, [Next]_vars
    PROVE  CalmInv'
<1> USE DEF IInv
<1>0. scene' = scene /\ Base' /\ Movers \subseteq AllOps /\ jobs \in [AllOps -> Job]
    BY ControlGoesOn, StepKeeps, OneMover DEF Base, TypeOK
<1> SUFFICES ASSUME ~scene.failing
             PROVE  /\ issue' = NoIssue /\ ~Diverged'
                    /\ tasks' # <<>> => tasks'[1].status \in {"none", "saved"}
                    /\ \A o \in AllOps : jobs'[o].stage \notin {"unsaved", "blocked"}
    BY <1>0 DEF CalmInv
<1>1. /\ issue = NoIssue /\ ~Diverged
      /\ tasks # <<>> => tasks[1].status \in {"none", "saved"}
      /\ \A o \in AllOps : jobs[o].stage \notin {"unsaved", "blocked"}
    BY DEF MoveInv, CalmInv
<1>2. ASSUME SaveAnswered  PROVE ~SaveConflict(tasks[1]) /\ ~SaveFailed(tasks[1])
    <2>1. tasks # <<>>
        BY <1>2, AtHead, CallerNames DEF SaveAnswered, Replied, Base
    <2> QED  BY <1>1, <2>1 DEF SaveConflict, SaveFailed
<1>3. issue' = NoIssue
    BY <1>1, <1>2, MoveSteps DEF MoveStep
<1>4. ~Diverged'
    BY CalmDisk
<1>5. ASSUME tasks' # <<>>  PROVE tasks'[1].status \in {"none", "saved"}
    <2>1. 1 \in 1..Len(tasks') /\ tasks'[1] \in Task
        <3>1. tasks' \in Seq(Task)
            BY TypesGoOn DEF TypeOK
        <3> QED  BY <1>5, <3>1, EmptySeq, LenProperties, ElementOfSeq
    <2>2. CASE tasks'[1].stage = "queued"
        BY <1>0, <2>1, <2>2 DEF Base, TaskInv
    <2>3. CASE tasks'[1].stage # "queued"
        <3>1. /\ tasks # <<>>
              /\ \/ Kept(tasks[1], tasks'[1]) \/ Started(tasks[1], tasks'[1])
                 \/ Written(tasks[1], tasks'[1]) \/ Advanced(tasks[1], tasks'[1])
            BY <1>5, <2>3, FirstSave
        <3>2. CASE Written(tasks[1], tasks'[1])
            <4>1. SaveExecuted
                BY <3>2 DEF Written
            <4>2. /\ tasks[1].stage = "calling" /\ tasks[1].status = "none"
                  /\ tasks'[1].status = "saved" \/ disk[open] # tasks[1].expected
                  /\ open # NoNote
                BY <4>1, SaveExecutes DEF MoveInv
            <4>3. tasks[1].expected = baseline /\ ~Landed
                BY <3>1, <4>2 DEF MoveInv, DiskInv, Landed
            <4> QED  BY <1>1, <4>2, <4>3 DEF Diverged
        <3> QED  BY <1>1, <3>1, <3>2 DEF Kept, Started, Advanced
    <2> QED  BY <2>2, <2>3
<1>6. ASSUME NEW o \in AllOps  PROVE jobs'[o].stage \notin {"unsaved", "blocked"}
    <2>1. CASE o = "retry"
        BY <1>3, <2>1, RetryGoesOn DEF RetryInv
    <2>2. CASE o \in Movers
        <3>0. jobs[o] \in Job /\ MoverFits(o)
            BY <1>0, <2>2 DEF MoveInv
        <3>1. CASE Flush(o)
            <4>1. dirty => open # NoNote
                BY DEF MoveInv, DiskInv
            <4>2. PushTask(o, NewTask(open, text, TRUE, Baseline, {o}))
                      => jobs'[o].stage = "saving"
                BY <1>0, <3>0 DEF PushTask, Job
            <4>3. LeaveFlush(o, TRUE) => jobs'[o].stage = "flushed"
                BY <1>0, <3>0 DEF LeaveFlush, Job
            <4>4. WaitForLast(o, "draining") => jobs'[o].stage = "draining"
                BY <1>0, <3>0 DEF WaitForLast, Continue, Job
            <4> QED  BY <1>1, <3>1, <4>1, <4>2, <4>3, <4>4 DEF Flush, Attempt
        <3>2. CASE FlushGoesOn(o)
            <4>1. jobs[o].stage \in {"saved", "drained"} /\ ~dirty
                BY <1>1, <3>0, <3>2 DEF FlushGoesOn, MoverFits
            <4>2. LeaveFlush(o, TRUE)
                BY <1>1, <3>2, <4>1 DEF FlushGoesOn
            <4> QED  BY <1>0, <3>0, <4>2 DEF LeaveFlush, Job
        <3>3. CASE WakesUp(o)
            <4>1. jobs'[o] = Woken(jobs[o], TRUE)
                BY <1>3, <3>3 DEF WakesUp
            <4> QED  BY <3>0, <4>1 DEF Woken, Job
        <3> QED  BY <1>1, <2>2, <3>1, <3>2, <3>3, MoverMoves DEF MoverMove, Gone
    <2>3. CASE o \notin Movers /\ o # "retry"
        <3>1. jobs[o].stage = "idle"
            BY <2>3, OneMover
        <3>2. ~WakesUp(o)
            BY <3>1, HeadTask DEF WakesUp, Base, WakeInv, Waiting
        <3>3. ~OwnStep(o)
            BY <2>3 DEF OwnStep, Movers
        <3> QED  BY <2>3, <3>1, <3>2, <3>3, JobSteps
    <2> QED  BY <2>1, <2>2, <2>3
<1> QED  BY <1>3, <1>4, <1>5, <1>6

-----------------------------------------------------------------------------
(***************************************************************************)
(* The invariant                                                           *)
(***************************************************************************)

\* Every step keeps MoveInv.
LEMMA MoveGoesOn ==
    ASSUME IInv, Moving, MoveInv, [Next]_vars
    PROVE  MoveInv'
<1>1. Steady /\ OpenNoteInv /\ ChainInv /\ NoNews /\ QueuedInv /\ ~scene.watching
    BY MovingIsSteady DEF IInv, MoveInv, Moving
<1>2. NoteStep /\ MoveStep
    BY <1>1, NoteSteps, MoveSteps DEF IInv
<1>3. OpenNoteInv' /\ ChainInv' /\ NoNews'
    BY <1>1, <1>2, NoteGoesOn, ChainGoesOn, NoNewsGoesOn DEF IInv
<1>4. DiskInv' /\ ReadInv' /\ RetryInv' /\ CalmInv' /\ KnownInv'
    BY DiskGoesOn, ReadGoesOn, RetryGoesOn, CalmGoesOn, KnownGoesOn
<1>5. \A o \in Movers : MoverFits(o)'
    BY FitsGoesOn
<1>6. QueuedInv'
    BY <1>1, <1>2, LockStays DEF QueuedInv, MoveStep
<1> QED  BY <1>3, <1>4, <1>5, <1>6 DEF MoveInv

\* A step replaces typed text or closes the window over it only if it is
\* unsaved.
LEMMA LostSteps ==
    ASSUME Base, Moving, MoveInv, [Next]_vars, lost'
    PROVE  lost \/ unsaved
<1>1. CASE \/ (\E c \in Contents : Type(c)) \/ CancelDialog \/ AskRetry
           \/ (\E n \in scene.notes : AskSelect(n) \/ AskCreate(n)) \/ AskClose
           \/ StartTask \/ (\E o \in Movers : Flush(o) \/ FlushGoesOn(o))
           \/ StartSelect \/ SelectFlushed \/ CreateFlushed
           \/ (CloseFlushed /\ MayGoOn("close")) \/ RetryDone
           \/ SaveExecuted \/ CreateExecuted \/ JobReads("select")
    BY <1>1 DEF Type, CancelDialog, AskRetry, AskSelect, AskCreate, AskClose, StartTask, Flush,
       FlushGoesOn, StartSelect, SelectFlushed, CreateFlushed, CloseFlushed, RetryDone,
       SaveExecuted, CreateExecuted, JobReads
<1>2. CASE SaveAnswered \/ Indexed \/ Settled \/ SelectStat \/ SelectDone \/ CreateAnswered
           \/ LampOff \/ TimerFires \/ UNCHANGED vars
    BY <1>2 DEF SaveAnswered, Indexed, Settled, SelectStat, SelectDone, CreateAnswered, LampOff,
       TimerFires, vars
<1>3. CASE SelectAnswered \/ CreateListed \/ (CloseWindow("close") /\ UNCHANGED <<jobs, locked>>)
    BY <1>3 DEF SelectAnswered, ClearActiveNoteState, CreateListed, EnterCreated, Show,
       CloseWindow
<1> QED  BY <1>1, <1>2, <1>3, MoverActions

\* Leaving the note: its invariant, and what it keeps of the typed text.
MovedInv == Moving => MoveInv /\ CleanMeansSaved /\ NoTypingLost

\* The page becomes clean only in finishing a save of the text shown; it
\* replaces the text or closes only when it is clean.
LEMMA MovedGoesOn == IInv /\ MovedInv /\ [Next]_vars => MovedInv'
<1> SUFFICES ASSUME IInv, MovedInv, [Next]_vars, Moving
             PROVE  MoveInv' /\ CleanMeansSaved' /\ NoTypingLost'
    BY ControlGoesOn DEF MovedInv, Moving, IInv
<1> USE DEF IInv
<1>0. MoveInv /\ CleanMeansSaved /\ NoTypingLost
    BY DEF MovedInv
<1>1. NoteStep /\ PageStep
    BY <1>0, MovingIsSteady, NoteSteps, PageSteps DEF MoveInv
<1>2. ASSUME ~dirty', unsaved'  PROVE FALSE
    <2>1. unsaved /\ dirty
        BY <1>0, <1>1, <1>2 DEF PageStep, CleanMeansSaved
    <2>2. tasks # <<>> /\ tasks[1].stage = "settling" /\ tasks[1].fresh
        BY <1>1, <1>2, <2>1 DEF NoteStep
    <2>3. 1 \in 1..Len(tasks)
        BY <2>2, HeadTask DEF Base
    <2>4. tasks[1].path = open /\ tasks[1].status = "saved"
        BY <1>0, <2>2, <2>3 DEF MoveInv, ChainInv, Base, TaskInv
    <2> QED  BY <2>1, <2>2, <2>3, <2>4 DEF SavedInv
<1>3. ASSUME lost'  PROVE FALSE
    <2>1. ~lost /\ unsaved /\ dirty
        BY <1>0, <1>3, LostSteps DEF NoTypingLost, CleanMeansSaved
    <2>2. /\ "select" \in Movers /\ "create" \in Movers /\ "close" \in Movers
          /\ jobs["overwrite"].stage = "idle" /\ jobs["reload"].stage = "idle"
        BY <1>0, OneMover DEF Movers, AllOps
    <2>3. \A o \in Movers : jobs[o].stage \notin Gone
        BY <1>0, <2>1 DEF MoveInv, MoverFits
    <2> QED  BY <1>1, <1>3, <2>1, <2>2, <2>3 DEF PageStep, Gone
<1> QED  BY <1>0, <1>2, <1>3, MoveGoesOn DEF CleanMeansSaved, NoTypingLost

\* MovedInv holds in every state the page can reach.
LEMMA MovedInvariance == Spec => []MovedInv
<1>1. Init => MovedInv
    <2> SUFFICES ASSUME Init, Moving  PROVE MoveInv /\ CleanMeansSaved /\ NoTypingLost
        BY DEF MovedInv
    <2>1. PICK n \in scene.notes : /\ open = n /\ text = disk[n] /\ baseline = disk[n]
                                   /\ known = [m \in Notes |-> IF m = n THEN {disk[n]} ELSE {}]
        BY DEF Init
    <2>2. n \in Notes /\ open # NoNote
        BY <2>1, NoNoteAssumption, ScenesAssumption DEF Init, Scene
    <2>3. /\ tasks = <<>> /\ timer = NoTimer /\ issue = NoIssue /\ ~dirty /\ dialog = "hidden"
          /\ queued = NoNote /\ ~Landed /\ ~Diverged /\ ~Paused
        BY <2>1 DEF Init, Landed, Diverged, Paused
    <2>4. \A o \in AllOps : jobs[o].stage = "idle" /\ jobs[o].snap = Missing
        BY DEF Init, NoJob
    <2>5. OpenNoteInv /\ ChainInv /\ NoNews /\ QueuedInv
        BY <2>1, <2>2, <2>3 DEF Init, OpenNoteInv, ChainInv, NoNews, NoWatch, QueuedInv
    <2>6. DiskInv /\ CalmInv
        BY <2>2, <2>3, <2>4 DEF DiskInv, CalmInv
    <2>7. KnownInv
        BY <2>1, <2>2, <2>3 DEF KnownInv
    <2>8. ReadInv /\ RetryInv
        BY <2>4 DEF ReadInv, RetryInv, AllOps
    <2>9. \A o \in Movers : MoverFits(o)
        BY <2>4 DEF MoverFits, Movers, AllOps, Gone
    <2> QED  BY <2>5, <2>6, <2>7, <2>8, <2>9 DEF Init, MoveInv, CleanMeansSaved, NoTypingLost
<1> QED  BY <1>1, MovedGoesOn, Invariance, PTL DEF Spec

-----------------------------------------------------------------------------
(***************************************************************************)
(* Leaving the note keeps what was typed                                   *)
(***************************************************************************)

\* A page that shows no unsaved changes has none (isDirty), with a selection,
\* a creation or a close under way: the flush before it and the lock meanwhile
\* see to it.
THEOREM CleanPageIsSavedWhenLeft == Spec => [](Moving => CleanMeansSaved)
<1>1. MovedInv => (Moving => CleanMeansSaved)
    BY DEF MovedInv
<1> QED  BY <1>1, MovedInvariance, PTL

\* Typed text is not replaced by the note that is selected or created, nor the
\* window closed over it, before it reached the disk (flushCurrentSaveOrBlock).
THEOREM TypingIsKeptWhenLeft == Spec => [](Moving => NoTypingLost)
<1>1. MovedInv => (Moving => NoTypingLost)
    BY DEF MovedInv
<1> QED  BY <1>1, MovedInvariance, PTL

\* A clean page with no save under way shows the text whose revision its next
\* save expects (baselineRevision), also of the note it went on to.
THEOREM BaselineFollowsTheNote == Spec => [](Moving => CleanIsBaseline)
<1>1. MovedInv => (Moving => CleanIsBaseline)
    BY DEF MovedInv, MoveInv, OpenNoteInv, CleanIsBaseline
<1> QED  BY <1>1, MovedInvariance, PTL

\* An issue is shown only while a note is open, though notes are selected and
\* created and selected notes may be gone: so it can be resolved.
THEOREM ErrorsCanBeResolvedWhenLeft == Spec => [](Moving => ErrorIsActionable)
<1>1. MovedInv => (Moving => ErrorIsActionable)
    BY DEF MovedInv, MoveInv, OpenNoteInv, ErrorIsActionable
<1> QED  BY <1>1, MovedInvariance, PTL

\* The issue shown is about the note shown, whatever note was shown before.
THEOREM IssuesFollowTheNote == Spec => [](Moving => IssueIsAboutTheNote)
<1>1. MovedInv => (Moving => IssueIsAboutTheNote)
    BY DEF MovedInv, MoveInv, OpenNoteInv, IssueIsAboutTheNote
<1> QED  BY <1>1, MovedInvariance, PTL

\* A save replaces only a version that was opened, created or saved before (the
\* expected revision of saveFile), while the page goes from note to note.
THEOREM KnownVersionsAreReplacedWhenLeft == Spec /\ []Moving => NoBlindOverwrite
<1>1. IInv /\ MovedInv /\ Moving /\ [Next]_vars =>
          [SaveTakesEffect => LET n == tasks[1].path IN disk[n] \in known[n]]_vars
    <2> SUFFICES ASSUME IInv, MovedInv, Moving, [Next]_vars, SaveTakesEffect
                 PROVE  disk[tasks[1].path] \in known[tasks[1].path]
        OBVIOUS
    <2>1. /\ tasks # <<>> /\ tasks[1].stage = "calling"
          /\ disk[tasks[1].path] = tasks[1].expected
        BY TakesEffect DEF IInv, Base
    <2>2. tasks[1].expected = baseline /\ (open # NoNote => baseline \in known[open])
        BY <2>1 DEF MovedInv, MoveInv, DiskInv, KnownInv
    <2>3. tasks[1].path = open /\ open # NoNote
        BY <2>1, HeadTask DEF MovedInv, MoveInv, ChainInv, IInv, Base
    <2> QED  BY <2>1, <2>2, <2>3
<1> QED  BY <1>1, MovedInvariance, Invariance, PTL DEF Spec, NoBlindOverwrite

\* While the page is clean a save writes only the text shown: no save of the
\* note that was left writes into it afterwards.
THEOREM DraftsStayAwayWhenLeft == Spec /\ []Moving => DiscardedStaysDiscarded
<1>1. IInv /\ MovedInv /\ Moving /\ [Next]_vars =>
          [SaveTakesEffect /\ ~dirty => tasks[1].text = text]_vars
    <2> SUFFICES ASSUME IInv, MovedInv, Moving, [Next]_vars, SaveTakesEffect, ~dirty
                 PROVE  tasks[1].text = text
        OBVIOUS
    <2>1. tasks # <<>>
        BY TakesEffect DEF IInv, Base
    <2>2. 1 \in 1..Len(tasks)
        BY <2>1, HeadTask DEF IInv, Base
    <2> QED  BY <2>2 DEF MovedInv, MoveInv, ChainInv, IInv, FreshInv
<1> QED  BY <1>1, MovedInvariance, Invariance, PTL DEF Spec, DiscardedStaysDiscarded

\* What is saved under a path was typed into the note open under it: no save
\* outlives the note it was scheduled for.
THEOREM SavesFollowTheNote == Spec /\ []Moving => SavesGoToTheOpenNote
<1>1. IInv /\ MovedInv /\ Moving /\ [Next]_vars => [SaveTakesEffect => tasks[1].path = open]_vars
    <2> SUFFICES ASSUME IInv, MovedInv, Moving, [Next]_vars, SaveTakesEffect
                 PROVE  tasks[1].path = open
        OBVIOUS
    <2>1. tasks # <<>>
        BY TakesEffect DEF IInv, Base
    <2>2. 1 \in 1..Len(tasks)
        BY <2>1, HeadTask DEF IInv, Base
    <2> QED  BY <2>2 DEF MovedInv, MoveInv, ChainInv
<1> QED  BY <1>1, MovedInvariance, Invariance, PTL DEF Spec, SavesGoToTheOpenNote
=============================================================================
