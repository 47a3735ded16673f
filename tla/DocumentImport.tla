--------------------------- MODULE DocumentImport ---------------------------
(***************************************************************************)
(* Importing an office document: the page that asks for a conversion       *)
(* (ExternalReaderPage.vue), the conversion jobs with their registry and   *)
(* the gate that lets MAX_ACTIVE_WORKERS of them run, a thread and a       *)
(* worker process per job, the watcher on the source and the saving of a   *)
(* Markdown copy (document_import.rs).                                     *)
(*                                                                         *)
(* The commands of a window are synchronous: the main thread runs them one *)
(* after the other, and also what follows a window's Destroyed event.  The *)
(* threads of the jobs, the workers, the watcher callbacks and the world   *)
(* outside run beside it.  A job's channel delivers its events in order,   *)
(* and so are the answers of the main thread delivered to a window.        *)
(***************************************************************************)
EXTENDS Integers, Sequences, FiniteSets

CONSTANTS
    Windows,    \* windows opened for a document each
    Jobs,       \* conversion identifiers, a fresh UUID each
    MaxActive,  \* MAX_ACTIVE_WORKERS
    MaxEdits,   \* bound: how often the world changes a document
    None, Missing

ASSUME JobsAssumption == Jobs \subseteq Nat /\ IsFiniteSet(Jobs)
ASSUME MaxActiveAssumption == MaxActive \in Nat \ {0}
ASSUME MaxEditsAssumption == MaxEdits \in Nat
ASSUME NoneAssumption == None \notin Windows \cup Jobs
ASSUME MissingAssumption == Missing \notin Nat

VARIABLES
    source,    \* revision of a window's document (hash, size, mtime: never reused)
    edits,     \* how often a document was changed
    session,   \* what the window session registry has for the window
    job,       \* the ConversionJob of every identifier
    registry,  \* DocumentImportInner.jobs
    active,    \* WorkerGate.active
    main,      \* the command the main thread is in
    page,      \* the page of a window
    calls,     \* commands a page has issued
    replies    \* answers on their way to a page

backVars == <<job, registry, active>>
pageVars == <<page, calls, replies>>
vars == <<source, edits, session, backVars, main, pageVars>>

Stages == {"none", "asked", "queued", "permitted", "copying", "spawning",
           "stored", "reading", "waiting", "verifying", "watching",
           "completing", "failing", "failed", "returned", "ended"}
Events == {"complete", "stale", "cancelled", "error"}
Revisions == 0..MaxEdits

\* worker: the child process, "killed" until somebody waits for it, "orphan"
\* when its job lost it; watch: "due" when it has an event to handle.
Job == [win : Windows \cup {None}, stage : Stages, cancelled : BOOLEAN,
        terminal : BOOLEAN, completed : BOOLEAN, stale : BOOLEAN,
        revision : Revisions \cup {None}, temp : BOOLEAN,
        worker : {"none", "running", "done", "crashed", "killed", "orphan"},
        watch : {"off", "on", "due"}, events : Seq(Events)]

Fresh == [win |-> None, stage |-> "none", cancelled |-> FALSE,
          terminal |-> FALSE, completed |-> FALSE, stale |-> FALSE,
          revision |-> None, temp |-> FALSE, worker |-> "none",
          watch |-> "off", events |-> <<>>]

\* gen: the job whose channel is listened to; id: conversionId.
Page == [status : {"idle", "running", "complete", "stale", "cancelled",
                   "error", "left", "closed"},
         gen : Jobs \cup {None}, id : Jobs \cup {None}, acting : BOOLEAN]

Call == [op : {"start", "cancel", "check", "save", "close"},
         job : Jobs \cup {None}]

Reply == [op : {"start", "check", "save"}, job : Jobs \cup {None},
          result : {"ok", "stale", "failed", "dismissed"}]

\* left: the jobs still to be cancelled; cur: the one being cancelled; seen:
\* the source when the last check before a copy is written looked at it.
Main == [op : {"idle", "start", "cancel", "save", "close"},
         at : {"idle", "flag", "kill", "dialog", "stage", "gate", "rename"},
         win : Windows \cup {None}, job : Jobs \cup {None},
         left : SUBSET Jobs, cur : Jobs \cup {None},
         seen : Revisions \cup {Missing, None}]

Idle == [op |-> "idle", at |-> "idle", win |-> None, job |-> None,
         left |-> {}, cur |-> None, seen |-> None]

OfWindow(w) == {j \in registry : job[j].win = w}
Current(j) == source[job[j].win] = job[j].revision

-----------------------------------------------------------------------------
(* What can happen to a job.                                               *)

\* The page ignores the channel of a job it has turned away from, now and
\* later: such an event is not even kept.
Send(j, r, e) ==
    IF page[r.win].gen = j THEN [r EXCEPT !.events = Append(@, e)] ELSE r

\* The terminal event of a job that has none yet (fail, cancel).
Settle(j, r, e) ==
    IF r.terminal THEN r ELSE Send(j, [r EXCEPT !.terminal = TRUE], e)

MarkStale(j, r) ==
    IF r.stale THEN r
    ELSE Send(j, [r EXCEPT !.stale = TRUE, !.terminal = TRUE], "stale")

Kill(r) == [r EXCEPT !.worker = IF @ = "running" THEN "killed" ELSE @]

\* The source is compared with a revision taken before; a missing source is
\* an error but not a stale conversion.
Compared(j) ==
    IF source[job[j].win] \in {job[j].revision, Missing} THEN job[j]
    ELSE MarkStale(j, job[j])

Goto(r, s) == [r EXCEPT !.stage = s]

\* What is left of a job that no thread and no registry holds: what it sent,
\* what a command that still holds it looks at, its process and, if t, its
\* directory.
Dropped(r, t) == [Fresh EXCEPT !.win = r.win, !.stage = "ended",
                               !.revision = r.revision, !.temp = t,
                               !.terminal = r.terminal, !.events = r.events,
                               !.worker = r.worker]

\* A worker that was killed holds on to its files until it is gone, and only
\* wait() makes sure of that.
Dying(r) == r.worker = "killed"

\* remove_dir_all, whose error is ignored: files in use may stay.
Left(r, used) == IF r.temp /\ used THEN BOOLEAN ELSE {FALSE}

Becomes(j, r) == job' = [job EXCEPT ![j] = r]

-----------------------------------------------------------------------------
(* The thread of a job: run_conversion_job and run_conversion_job_inner.   *)

ThreadOnly == UNCHANGED <<source, edits, session, main, pageVars>>
JobOnly == ThreadOnly /\ UNCHANGED <<registry, active>>

\* A job leaves the queue with a permit, or cancelled without one.
Acquire(j) ==
    /\ job[j].stage = "queued"
    /\ active < MaxActive
    /\ active' = active + 1
    /\ Becomes(j, Goto(job[j], "permitted"))
    /\ ThreadOnly /\ UNCHANGED registry

\* cleanup_terminal_job; a permit is dropped after it.
CleanUp(j) ==
    /\ registry' = registry \ {j}
    /\ \E t \in Left(job[j], Dying(job[j])) : Becomes(j, Dropped(job[j], t))

\* Mutant: the cancellation is looked at once there is a permit.
GiveUpLast(j) ==
    /\ job[j].stage = "queued" /\ active < MaxActive /\ job[j].cancelled
    /\ CleanUp(j)
    /\ ThreadOnly /\ UNCHANGED active

\* Mutant: a job that never had a permit gives one back.
GiveUpPermit(j) ==
    /\ job[j].stage = "queued" /\ active >= MaxActive /\ job[j].cancelled
    /\ CleanUp(j) /\ active' = active - 1
    /\ ThreadOnly

GiveUp(j) ==
    /\ job[j].stage = "queued" /\ active >= MaxActive /\ job[j].cancelled
    /\ CleanUp(j)
    /\ ThreadOnly /\ UNCHANGED active

\* The private directory, and the first look at the source.
Begin(j) ==
    /\ job[j].stage = "permitted" /\ ~job[j].cancelled
    /\ LET now == source[job[j].win] IN
       Becomes(j, [Goto(job[j], IF now = Missing THEN "failing" ELSE "copying")
                   EXCEPT !.temp = TRUE,
                          !.revision = IF now = Missing THEN None ELSE now])
    /\ JobOnly

\* copy_source_snapshot: cancelled, I/O error, source replaced, or done; the
\* session is then told the revision, if it still is a document's.
Copied(j) ==
    /\ job[j].stage = "copying"
    /\ \/ Becomes(j, Goto(job[j], "failing"))
       \/ /\ ~Current(j)
          /\ Becomes(j, Goto(Compared(j), "failing"))
       \/ /\ Current(j)
          /\ Becomes(j, Goto(job[j],
                             IF session[job[j].win] # "document" THEN "failing"
                             ELSE IF job[j].cancelled THEN "returned"
                             ELSE "spawning"))
    /\ JobOnly

\* A worker that was started but not given its request is lost: nobody kills
\* it or waits for it, and it ends because its pipes are closed.
Spawn(j) ==
    /\ job[j].stage = "spawning"
    /\ \/ Becomes(j, Goto(job[j], "failing"))
       \/ Becomes(j, [Goto(job[j], "failing") EXCEPT !.worker = "orphan"])
       \/ Becomes(j, [Goto(job[j], "stored") EXCEPT !.worker = "running"])
    /\ JobOnly

\* A cancellation that found no child to kill is noticed here.
Stored(j) ==
    /\ job[j].stage = "stored"
    /\ Becomes(j, IF job[j].cancelled THEN Goto(Kill(job[j]), "returned")
                  ELSE Goto(job[j], "reading"))
    /\ JobOnly

\* The loop over the frames ends with the output, on a bad frame, or on a
\* cancellation seen between two frames, while the worker has more to say.  A
\* chunk out of order is a bad frame, so the page never sees one.
Read(j) ==
    /\ job[j].stage = "reading"
    /\ \/ /\ job[j].worker # "running" \/ job[j].cancelled
          /\ Becomes(j, Goto(job[j], "waiting"))
       \/ /\ job[j].worker \in {"running", "crashed"}
          /\ Becomes(j, Goto(job[j], "failing"))
    /\ JobOnly

\* wait() under the lock of the child, then the child is taken.
Waited(j) ==
    /\ job[j].stage = "waiting" /\ job[j].worker # "running"
    /\ LET next == IF job[j].cancelled THEN "returned"
                   ELSE IF job[j].worker = "done" THEN "verifying"
                   ELSE "failing" IN
       Becomes(j, [Goto(job[j], next) EXCEPT !.worker = "none"])
    /\ JobOnly

\* verify_snapshot_matches_source, then the data is complete.
Verify(j) ==
    /\ job[j].stage = "verifying"
    /\ Becomes(j, IF Current(j)
                  THEN [Goto(job[j], "watching") EXCEPT !.completed = TRUE]
                  ELSE Goto(Compared(j), "failing"))
    /\ JobOnly

\* start_source_watcher: a file that is gone cannot be watched.
Watch(j) ==
    /\ job[j].stage = "watching"
    /\ \/ Becomes(j, Goto(job[j], "completing"))
       \/ /\ source[job[j].win] # Missing
          /\ Becomes(j, [Goto(job[j], "completing") EXCEPT !.watch = "on"])
    /\ JobOnly

\* Whatever the terminal flag was.
Complete(j) ==
    /\ job[j].stage = "completing"
    /\ Becomes(j, Send(j, [Goto(job[j], "returned") EXCEPT !.terminal = TRUE],
                    "complete"))
    /\ JobOnly

\* An error is reported unless the job was cancelled; the child is killed.
Fail(j) ==
    /\ job[j].stage = "failing"
    /\ LET r == IF job[j].cancelled THEN job[j] ELSE Settle(j, job[j], "error")
       IN  Becomes(j, Goto(Kill(r), "failed"))
    /\ JobOnly

\* Mutant: the permit of a job is not given back.
EndKeepsPermit(j) ==
    /\ \/ job[j].stage \in {"failed", "returned"}
       \/ job[j].stage = "permitted" /\ job[j].cancelled
    /\ IF job[j].stage = "failed" \/ job[j].cancelled THEN CleanUp(j)
       ELSE Becomes(j, Goto(job[j], "ended")) /\ UNCHANGED registry
    /\ ThreadOnly /\ UNCHANGED active

\* What failed or was cancelled leaves nothing; the permit is dropped.
End(j) ==
    /\ \/ job[j].stage \in {"failed", "returned"}
       \/ job[j].stage = "permitted" /\ job[j].cancelled
    /\ IF job[j].stage = "failed" \/ job[j].cancelled THEN CleanUp(j)
       ELSE Becomes(j, Goto(job[j], "ended")) /\ UNCHANGED registry
    /\ active' = active - 1
    /\ ThreadOnly

Thread(j) ==
    \/ Acquire(j) \/ GiveUp(j) \/ Begin(j) \/ Copied(j) \/ Spawn(j)
    \/ Stored(j) \/ Read(j) \/ Waited(j) \/ Verify(j) \/ Watch(j)
    \/ Complete(j) \/ Fail(j) \/ End(j)

\* The worker has written its last frame, or dies.
WorkerEnds(j) ==
    /\ \E how \in CASE job[j].worker = "running" -> {"done", "crashed"}
                   [] job[j].worker = "orphan" -> {"crashed"}
                   [] OTHER -> {} :
         Becomes(j, [job[j] EXCEPT !.worker = how])
    /\ JobOnly

\* Output is only sure to find room while somebody reads it.
WorkerDrained(j) == job[j].stage = "reading" /\ WorkerEnds(j)

\* The watcher callback: a missing source makes the conversion stale too.
Noticed(j) ==
    /\ job[j].watch = "due"
    /\ LET r == [job[j] EXCEPT !.watch = "on"] IN
       Becomes(j, IF ~Current(j) THEN MarkStale(j, r) ELSE r)
    /\ JobOnly

-----------------------------------------------------------------------------
(* The main thread.                                                        *)

\* Nobody listens to an answer once the page is gone.
Answer(w, op, j, result) ==
    replies' = [replies EXCEPT ![w] =
                   IF page[w].status = "closed" THEN @
                   ELSE Append(@, [op |-> op, job |-> j, result |-> result])]

Finish == main' = Idle

\* A job is known to the window it belongs to (job_for).
Known(w, j) == j \in OfWindow(w)

TakesCall(w, op) ==
    /\ main = Idle /\ calls[w] # <<>> /\ Head(calls[w]).op = op
    /\ calls' = [calls EXCEPT ![w] = Tail(@)]

Cancelling(op, w, j, left) ==
    main' = [Idle EXCEPT !.op = op, !.at = "flag", !.win = w, !.job = j,
                         !.left = left]

\* Identifiers drawn for a window and not used yet.
Asked(w) == {j \in Jobs : job[j].stage = "asked" /\ job[j].win = w}

\* start_document_conversion first removes what the window had.
TakeStart(w) ==
    /\ TakesCall(w, "start")
    /\ LET j == Head(calls[w]).job IN
       /\ j \in Asked(w)
       /\ \/ /\ session[w] = "document"
             /\ registry' = registry \ OfWindow(w)
             /\ Cancelling("start", w, j, OfWindow(w))
             /\ UNCHANGED <<job, replies>>
          \/ /\ session[w] # "document"
             /\ Answer(w, "start", j, "failed")
             /\ Becomes(j, Goto(job[j], "ended"))
             /\ UNCHANGED <<main, registry>>
    /\ UNCHANGED <<source, edits, session, active, page>>

TakeCancel(w) ==
    /\ TakesCall(w, "cancel")
    /\ LET j == Head(calls[w]).job IN
       IF Known(w, j) THEN Cancelling("cancel", w, j, {j}) ELSE UNCHANGED main
    /\ UNCHANGED <<source, edits, session, backVars, page, replies>>

\* The Destroyed event: cleanup_for_window.
TakeClose(w) ==
    /\ TakesCall(w, "close")
    /\ session' = [session EXCEPT ![w] = "gone"]
    /\ registry' = registry \ OfWindow(w)
    /\ Cancelling("close", w, None, OfWindow(w))
    /\ UNCHANGED <<source, edits, job, active, page, replies>>

\* cancel() of one job after the other: the flag first ...
Flag ==
    /\ main.at = "flag"
    /\ \E v \in main.left :
         /\ Becomes(v, [job[v] EXCEPT !.cancelled = TRUE])
         /\ main' = [main EXCEPT !.at = "kill", !.left = @ \ {v}, !.cur = v]
    /\ UNCHANGED <<source, edits, session, registry, active, pageVars>>

\* Files in use cannot always be removed: the snapshot while it is written,
\* what the worker has open.
InUse(j) == job[j].stage \in {"copying", "spawning", "stored", "reading",
                              "waiting", "failing"}

Removed(j, r) ==
    IF r.stage = "ended" THEN {Dropped(r, t) : t \in Left(r, Dying(r))}
    ELSE {[r EXCEPT !.temp = t] : t \in Left(r, InUse(j) \/ Dying(r))}

\* Mutant: the old conversion is cancelled, its directory stays.
KillChildOnly ==
    /\ main.at = "kill" /\ job[main.cur].stage # "waiting"
    /\ Becomes(main.cur, Settle(main.cur, Kill(job[main.cur]), "cancelled"))
    /\ main' = [main EXCEPT !.at = "flag", !.cur = None]
    /\ UNCHANGED <<source, edits, session, registry, active, pageVars>>

\* ... then the child, under its lock, which wait() holds; then the terminal
\* event, and for a removed job its directory.
KillChild ==
    /\ main.at = "kill"
    /\ LET v == main.cur
           r == Settle(v, Kill(job[v]), "cancelled") IN
       /\ job[v].stage # "waiting"
       /\ IF main.op = "cancel" THEN Becomes(v, r)
          ELSE \E after \in Removed(v, r) : Becomes(v, after)
    /\ main' = [main EXCEPT !.at = "flag", !.cur = None]
    /\ UNCHANGED <<source, edits, session, registry, active, pageVars>>

Cancelled ==
    /\ main.at = "flag" /\ main.left = {} /\ main.op # "start"
    /\ Finish
    /\ UNCHANGED <<source, edits, session, backVars, pageVars>>

\* The new job is registered and its thread started, unless that fails.
Insert ==
    /\ main.at = "flag" /\ main.left = {} /\ main.op = "start"
    /\ \/ /\ registry' = registry \cup {main.job}
          /\ Becomes(main.job, Goto(job[main.job], "queued"))
          /\ Answer(main.win, "start", main.job, "ok")
       \/ /\ Becomes(main.job, Goto(job[main.job], "ended"))
          /\ Answer(main.win, "start", main.job, "failed")
          /\ UNCHANGED registry
    /\ Finish
    /\ UNCHANGED <<source, edits, session, active, page, calls>>

\* verify_job_source_is_current for the page that has the focus again ...
TakeCheck(w) ==
    /\ TakesCall(w, "check")
    /\ LET j == Head(calls[w]).job IN
       IF Known(w, j)
       THEN /\ Becomes(j, Compared(j))
            /\ Answer(w, "check", j, IF Current(j) THEN "ok" ELSE "stale")
       ELSE /\ Answer(w, "check", j, "failed")
            /\ UNCHANGED job
    /\ UNCHANGED <<source, edits, session, registry, active, main, page>>

\* ... and for the commands about the editor of the original.
LookForEditor(w) ==
    /\ page[w].status = "complete"
    /\ \E j \in OfWindow(w) : job[j].completed /\ Becomes(j, Compared(j))
    /\ UNCHANGED <<source, edits, session, registry, active, main, pageVars>>

\* The messages of a stale conversion are the ones the page recognises.
Refusal(j) == IF source[job[j].win] = Missing THEN "failed" ELSE "stale"

\* save_converted_document_as: a completed conversion that is not stale ...
Verdict(w, j) ==
    IF ~Known(w, j) \/ ~job[j].completed THEN "failed"
    ELSE IF job[j].stale THEN "stale"
    ELSE IF Current(j) THEN "ok"
    ELSE Refusal(j)

TakeSave(w) ==
    /\ TakesCall(w, "save")
    /\ LET j == Head(calls[w]).job
           verdict == Verdict(w, j) IN
       /\ Becomes(j, IF verdict = "stale" THEN MarkStale(j, job[j]) ELSE job[j])
       /\ IF verdict = "ok"
          THEN /\ main' = [Idle EXCEPT !.op = "save", !.at = "dialog", !.win = w,
                                       !.job = j]
               /\ UNCHANGED replies
          ELSE Answer(w, "save", j, verdict) /\ UNCHANGED main
    /\ UNCHANGED <<source, edits, session, registry, active, page>>

Reported(result) == Finish /\ Answer(main.win, "save", main.job, result)

\* ... whose user picks a destination, while the source may change ...
Picked ==
    /\ main.at = "dialog"
    /\ \/ Reported("dismissed") /\ UNCHANGED job
       \/ /\ Current(main.job)
          /\ main' = [main EXCEPT !.at = "stage"]
          /\ UNCHANGED <<replies, job>>
       \/ /\ ~Current(main.job)
          /\ Becomes(main.job, Compared(main.job))
          /\ Reported(Refusal(main.job))
    /\ UNCHANGED <<source, edits, session, registry, active, page, calls>>

\* ... for which text and assets are staged, unless it is taken or full ...
Staged ==
    /\ main.at = "stage"
    /\ \/ Reported("failed")
       \/ main' = [main EXCEPT !.at = "gate"] /\ UNCHANGED replies
    /\ UNCHANGED <<source, edits, session, backVars, page, calls>>

Gated == [main EXCEPT !.at = "rename", !.seen = source[main.win]]

\* Mutant: nothing is verified after staging.
NoGate ==
    /\ main.at = "gate"
    /\ main' = Gated
    /\ UNCHANGED <<replies, job>>
    /\ UNCHANGED <<source, edits, session, registry, active, page, calls>>

\* ... with a last look at the source under the coordinator's locks ...
Gate ==
    /\ main.at = "gate"
    /\ IF Current(main.job) THEN main' = Gated /\ UNCHANGED <<replies, job>>
       ELSE /\ Becomes(main.job, Compared(main.job))
            /\ Reported(Refusal(main.job))
    /\ UNCHANGED <<source, edits, session, registry, active, page, calls>>

\* ... and put in place.  The window then is the copy's and the conversion is
\* gone, unless the session could not be replaced.
Rename ==
    /\ main.at = "rename"
    /\ \/ Reported("failed") /\ UNCHANGED <<session, registry, job>>
       \/ /\ session' = [session EXCEPT ![main.win] = "note"]
          /\ registry' = registry \ {main.job}
          /\ \E after \in Removed(main.job, job[main.job]) : Becomes(main.job, after)
          /\ Reported("ok")
    /\ UNCHANGED <<source, edits, active, page, calls>>

MainStep ==
    \/ \E w \in Windows : TakeStart(w) \/ TakeCancel(w) \/ TakeClose(w)
                          \/ TakeCheck(w) \/ TakeSave(w)
    \/ Flag \/ KillChild \/ Cancelled \/ Insert
    \/ Picked \/ Staged \/ Gate \/ Rename

-----------------------------------------------------------------------------
(* The page.                                                               *)

PageOnly == UNCHANGED <<source, edits, session, registry, active, main>>
BackOnly == PageOnly /\ UNCHANGED job

Shows(w, p) == page' = [page EXCEPT ![w] = p]
Issue(w, op, j) ==
    calls' = [calls EXCEPT ![w] = Append(@, [op |-> op, job |-> j])]

\* conversionGeneration moves on: what the channel still holds is ignored.
TurnedAway(w) ==
    [j \in Jobs |-> IF j = page[w].gen THEN [job[j] EXCEPT !.events = <<>>]
                    ELSE job[j]]

\* startDocumentConversion: on loading, and again from the status bar.
AskStart(w) ==
    /\ page[w].status \in {"idle", "stale", "error", "cancelled"}
    /\ \E j \in Jobs :
         /\ job[j].stage = "none"
         /\ \A i \in Jobs : i < j => job[i].stage # "none"
         /\ job' = [TurnedAway(w) EXCEPT ![j] = [Goto(Fresh, "asked") EXCEPT !.win = w]]
         /\ Shows(w, [page[w] EXCEPT !.status = "running", !.gen = j, !.id = None])
         /\ Issue(w, "start", j)
    /\ UNCHANGED <<source, edits, session, registry, active, main, replies>>

\* cancelConversion: without an identifier yet, nothing is sent.
AskCancel(w) ==
    /\ page[w].status = "running"
    /\ Shows(w, [page[w] EXCEPT !.status = "cancelled", !.gen = None])
    /\ IF page[w].id = None THEN UNCHANGED calls
       ELSE Issue(w, "cancel", page[w].id)
    /\ job' = TurnedAway(w)
    /\ PageOnly /\ UNCHANGED replies

\* refreshSourceOnFocus; the bound: not while another answer is awaited.
AskCheck(w) ==
    /\ page[w].status = "complete"
    /\ calls[w] = <<>> /\ replies[w] = <<>>
    /\ Issue(w, "check", page[w].id)
    /\ BackOnly /\ UNCHANGED <<page, replies>>

\* saveMarkdownCopy
AskSave(w) ==
    /\ page[w].status = "complete" /\ ~page[w].acting
    /\ Shows(w, [page[w] EXCEPT !.acting = TRUE])
    /\ Issue(w, "save", page[w].id)
    /\ BackOnly /\ UNCHANGED replies

\* The window is destroyed; what it had asked for is not run any more.
Close(w) ==
    /\ page[w].status # "closed"
    /\ Shows(w, [page[w] EXCEPT !.status = "closed", !.gen = None])
    /\ calls' = [calls EXCEPT ![w] = <<[op |-> "close", job |-> None]>>]
    /\ replies' = [replies EXCEPT ![w] = <<>>]
    /\ job' = TurnedAway(w)
    /\ PageOnly

\* handleConversionEvent
Deliver(j) ==
    /\ job[j].events # <<>>
    /\ Becomes(j, [job[j] EXCEPT !.events = Tail(@)])
    /\ LET w == job[j].win
           e == Head(job[j].events)
       IN Shows(w, [page[w] EXCEPT !.status = e,
                                   !.id = IF e = "complete" THEN j ELSE @])
    /\ UNCHANGED <<source, edits, session, registry, active, main, calls, replies>>

Takes(w, op) ==
    /\ replies[w] # <<>> /\ Head(replies[w]).op = op
    /\ replies' = [replies EXCEPT ![w] = Tail(@)]
    /\ PageOnly

\* A job the page has turned away from in the meantime is cancelled.
Started(w) ==
    /\ Takes(w, "start")
    /\ LET r == Head(replies[w]) IN
       IF page[w].gen # r.job
       THEN /\ IF r.result = "ok" THEN Issue(w, "cancel", r.job)
               ELSE UNCHANGED calls
            /\ UNCHANGED page
       ELSE /\ Shows(w, IF r.result = "ok" THEN [page[w] EXCEPT !.id = r.job]
                        ELSE [page[w] EXCEPT !.status = "error"])
            /\ UNCHANGED calls
    /\ UNCHANGED job

\* Whatever the page shows by now.
Checked(w) ==
    /\ Takes(w, "check")
    /\ IF Head(replies[w]).result = "stale"
       THEN Shows(w, [page[w] EXCEPT !.status = "stale"]) ELSE UNCHANGED page
    /\ UNCHANGED <<calls, job>>

SavedCopy(w) ==
    /\ Takes(w, "save")
    /\ LET p == [page[w] EXCEPT !.acting = FALSE] IN
       CASE Head(replies[w]).result = "ok" ->
              /\ Shows(w, [p EXCEPT !.status = "left", !.gen = None])
              /\ job' = TurnedAway(w)
         [] Head(replies[w]).result = "stale" ->
              Shows(w, [p EXCEPT !.status = "stale"]) /\ UNCHANGED job
         [] OTHER -> Shows(w, p) /\ UNCHANGED job
    /\ UNCHANGED calls

AnswerTaken(w) == Started(w) \/ Checked(w) \/ SavedCopy(w)

-----------------------------------------------------------------------------
(* The world: another program writes, moves or removes the document.       *)

Outside(w) ==
    /\ edits[w] < MaxEdits
    /\ edits' = [edits EXCEPT ![w] = @ + 1]
    /\ \E now \in {edits[w] + 1, Missing} : source' = [source EXCEPT ![w] = now]
    /\ job' = [j \in Jobs |->
                 IF job[j].win = w /\ job[j].watch = "on"
                 THEN [job[j] EXCEPT !.watch = "due"] ELSE job[j]]
    /\ UNCHANGED <<session, registry, active, main, pageVars>>

Init ==
    /\ source = [w \in Windows |-> 0] /\ edits = [w \in Windows |-> 0]
    /\ session = [w \in Windows |-> "document"]
    /\ job = [j \in Jobs |-> Fresh]
    /\ registry = {} /\ active = 0
    /\ main = Idle
    /\ page = [w \in Windows |-> [status |-> "idle", gen |-> None, id |-> None,
                                  acting |-> FALSE]]
    /\ calls = [w \in Windows |-> <<>>] /\ replies = [w \in Windows |-> <<>>]

Next ==
    \/ \E j \in Jobs : Thread(j) \/ WorkerEnds(j) \/ Noticed(j) \/ Deliver(j)
    \/ MainStep
    \/ \E w \in Windows :
         \/ AskStart(w) \/ AskCancel(w) \/ AskCheck(w) \/ AskSave(w) \/ Close(w)
         \/ AnswerTaken(w) \/ LookForEditor(w) \/ Outside(w)

\* Threads run, a worker whose output is read ends, the main thread goes on
\* (the user closes the dialog), messages arrive.
Fairness ==
    /\ \A j \in Jobs : WF_vars(Thread(j)) /\ WF_vars(WorkerDrained(j))
                       /\ WF_vars(Deliver(j))
    /\ WF_vars(MainStep)
    /\ \A w \in Windows : WF_vars(AnswerTaken(w))

Spec == Init /\ [][Next]_vars /\ Fairness

-----------------------------------------------------------------------------
(* Properties.                                                             *)

Permits == {j \in Jobs : job[j].stage \notin {"none", "asked", "queued", "ended"}}

\* Types; the gate counts the threads that hold a permit, and no others.
TypeOK ==
    /\ source \in [Windows -> Revisions \cup {Missing}]
    /\ edits \in [Windows -> Revisions]
    /\ session \in [Windows -> {"document", "note", "gone"}]
    /\ job \in [Jobs -> Job]
    /\ registry \subseteq Jobs
    /\ active \in 0..MaxActive /\ active = Cardinality(Permits)
    /\ main \in Main
    /\ page \in [Windows -> Page]
    /\ calls \in [Windows -> Seq(Call)]
    /\ replies \in [Windows -> Seq(Reply)]

\* The last attempt to remove the directory met a worker that was killed but
\* not waited for, and nobody tries again.
Stranded(j) == job[j].stage = "ended" /\ Dying(job[j])

\* The private copy of a document and its assets exist only as long as the
\* window can still use them or the thread will remove them: no order of
\* cancelling, converting again, saving and closing leaves a directory behind,
\* except under a worker that was killed and not waited for.
NoTempLeak ==
    \A j \in Jobs : job[j].temp =>
        \/ j \in registry /\ session[job[j].win] = "document"
        \/ job[j].stage \notin {"none", "asked", "ended"}
        \/ main.op \in {"start", "close"} /\ (j \in main.left \/ j = main.cur)
        \/ Stranded(j)

\* What the product requirements say instead: cancelling, closing the window
\* and failing clean up the temporary data.  The code does not: NoTempLeak.
TempIsCleanedUp == \A j \in Jobs : ~(job[j].temp /\ Stranded(j))

\* A conversion is void once its source has changed and cannot be saved: a
\* copy holds the revision the source still had when the save last looked.
SavedIsCurrent == main.at = "rename" => job[main.job].revision = main.seen

\* A thread in wait() for a worker whose output nobody reads any more.
Hung(j) == job[j].stage = "waiting" /\ job[j].worker = "running"

\* A cancelled conversion ends, unless its thread left the reading loop on the
\* flag, before the kill, and waits for a worker that waits for its reader.
CancelEnds ==
    \A j \in Jobs : [](job[j].cancelled => <>(job[j].stage = "ended" \/ []Hung(j)))

\* What the product requirements say instead: cancelling a conversion ends its
\* worker, whatever the thread of the conversion is doing.  The code does not,
\* with the wait that CancelEnds excepts.
CancelEndsTheWorker ==
    \A j \in Jobs : [](job[j].cancelled => <>(job[j].worker # "running"))

\* A page does not show a running conversion for ever, whatever fails, and
\* the gate lets the next conversion in (with the same exception).
ConversionEnds ==
    \A w \in Windows :
        [](page[w].status = "running" =>
             <>(page[w].status # "running" \/ [](\E j \in Jobs : Hung(j))))
=============================================================================
