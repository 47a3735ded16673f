------------------------ MODULE DocumentImportProofs ------------------------
(***************************************************************************)
(* Theorems about DocumentImport for any number of windows, conversions,   *)
(* permits and changes of the documents.                                   *)
(***************************************************************************)
EXTENDS DocumentImport, FiniteSetTheorems, TLAPS

(***************************************************************************)
(* The inductive invariant                                                 *)
(***************************************************************************)

\* The types of TypeOK, and the gate, apart.
Types ==
    /\ source \in [Windows -> Revisions \cup {Missing}]
    /\ edits \in [Windows -> Revisions]
    /\ session \in [Windows -> {"document", "note", "gone"}]
    /\ job \in [Jobs -> Job]
    /\ registry \subseteq Jobs
    /\ main \in Main
    /\ page \in [Windows -> Page]
    /\ calls \in [Windows -> Seq(Call)]
    /\ replies \in [Windows -> Seq(Reply)]

GateIsExact == active \in 0..MaxActive /\ active = Cardinality(Permits)

Early == {"queued", "permitted", "copying", "spawning", "stored", "reading",
          "waiting", "verifying", "failing"}
Settled == {"watching", "completing", "returned", "ended"}

\* The thread has the worker before it, or behind it.
AtWork == {"stored", "reading", "waiting", "failing"}
Quiet == {"verifying", "watching", "completing", "returned"}

\* A worker runs only while its thread will wait for it or kill it, and a
\* thread that ends well has waited.
Attended(r) ==
    /\ r.worker = "running" => r.stage \in AtWork
    /\ r.stage \in Quiet /\ Dying(r) => r.cancelled

\* The main thread removed the job from the registry and will cancel it.
Evicted(j) == main.op \in {"start", "close"} /\ (j \in main.left \/ j = main.cur)

\* A job that will see its cancellation.
Doomed(j) ==
    job[j].cancelled \/ (main.op \in {"start", "close"} /\ j \in main.left)

\* Whoever may still create or keep a directory is registered, is cancelled,
\* or is about to be cancelled.
Tracked(j) ==
    /\ job[j].stage # "none" => job[j].win \in Windows
    /\ job[j].stage \in {"none", "asked", "queued", "permitted"} => ~job[j].temp
    /\ job[j].completed => job[j].stage \in Settled
    /\ Attended(job[j])
    /\ j \notin registry =>
          /\ job[j].stage \in Early
                => Doomed(j)
          /\ job[j].stage \in {"watching", "completing", "returned"} /\ job[j].temp
                => Doomed(j)
          /\ job[j].stage = "ended" /\ job[j].temp => Evicted(j) \/ Dying(job[j])
    /\ j \in registry =>
          job[j].stage \notin {"none", "asked"} /\ session[job[j].win] = "document"

OneJobPerWindow ==
    \A i, j \in registry : job[i].win = job[j].win => i = j

\* What the main thread relies on while it is in a command.
MainFits ==
    /\ main.at = "idle" => main = Idle
    /\ main.at \in {"flag", "kill"} => main.op \in {"start", "cancel", "close"}
    /\ main.at = "flag" => main.cur = None
    /\ main.at = "kill" => main.cur \in Jobs
    /\ main.at \notin {"flag", "kill"} => main.left = {} /\ main.cur = None
    /\ main.op = "start" =>
          /\ main.at \in {"flag", "kill"}
          /\ main.win \in Windows /\ session[main.win] = "document"
          /\ main.job \in Jobs
          /\ job[main.job].stage = "asked" /\ job[main.job].win = main.win
          /\ \A j \in registry : job[j].win # main.win
    /\ main.at \in {"dialog", "stage", "gate", "rename"} =>
          /\ main.win \in Windows /\ main.job \in Jobs /\ main.op = "save"
          /\ job[main.job].win = main.win /\ job[main.job].stage \in Settled
          /\ \A j \in registry : job[j].win = main.win => j = main.job
    /\ SavedIsCurrent

Inv ==
    /\ Types
    /\ GateIsExact
    /\ \A j \in Jobs : Tracked(j)
    /\ OneJobPerWindow
    /\ MainFits

-----------------------------------------------------------------------------
(***************************************************************************)
(* What the operators on a job return                                      *)
(***************************************************************************)

\* What a worker does on its own, or when it is killed.
WorkerGoes(q, r) ==
    q.worker # r.worker =>
        /\ r.worker # "killed" /\ q.worker # "running"
        /\ q.worker = "killed" => r.worker = "running"

\* The fields the invariant looks at, without the worker and with it.
Alike(q, r) ==
    /\ q.win = r.win /\ q.stage = r.stage /\ q.temp = r.temp
    /\ q.cancelled = r.cancelled /\ q.completed = r.completed
    /\ q.revision = r.revision

Same(q, r) == Alike(q, r) /\ WorkerGoes(q, r)

\* Moving to another stage changes nothing else.
LEMMA GotoIs ==
    ASSUME NEW r \in Job, NEW s \in Stages
    PROVE  /\ Goto(r, s) \in Job
           /\ Goto(r, s).stage = s
           /\ Goto(r, s).win = r.win /\ Goto(r, s).temp = r.temp
           /\ Goto(r, s).cancelled = r.cancelled
           /\ Goto(r, s).completed = r.completed
           /\ Goto(r, s).revision = r.revision
           /\ Goto(r, s).worker = r.worker
BY SMT DEF Goto, Job

\* Raising a flag of a job changes no other field of it.
LEMMA TerminalIs ==
    ASSUME NEW r \in Job, NEW b \in BOOLEAN
    PROVE  [r EXCEPT !.terminal = b] \in Job /\ Same([r EXCEPT !.terminal = b], r)
BY DEF Job, Same, Alike, WorkerGoes

LEMMA StaleIs ==
    ASSUME NEW r \in Job, NEW b \in BOOLEAN
    PROVE  [r EXCEPT !.stale = b] \in Job /\ Same([r EXCEPT !.stale = b], r)
BY DEF Job, Same, Alike, WorkerGoes

LEMMA StaleTerminalIs ==
    ASSUME NEW r \in Job, NEW b \in BOOLEAN
    PROVE  /\ [r EXCEPT !.stale = b, !.terminal = b] \in Job
           /\ Same([r EXCEPT !.stale = b, !.terminal = b], r)
BY DEF Job, Same, Alike, WorkerGoes

LEMMA CancelledIs ==
    ASSUME NEW r \in Job, NEW b \in BOOLEAN
    PROVE  /\ [r EXCEPT !.cancelled = b] \in Job
           /\ [r EXCEPT !.cancelled = b].cancelled = b
           /\ [r EXCEPT !.cancelled = b].win = r.win
           /\ [r EXCEPT !.cancelled = b].stage = r.stage
           /\ [r EXCEPT !.cancelled = b].temp = r.temp
           /\ [r EXCEPT !.cancelled = b].completed = r.completed
           /\ [r EXCEPT !.cancelled = b].worker = r.worker
BY DEF Job

LEMMA CompletedIs ==
    ASSUME NEW r \in Job, NEW b \in BOOLEAN
    PROVE  /\ [r EXCEPT !.completed = b] \in Job
           /\ [r EXCEPT !.completed = b].win = r.win
           /\ [r EXCEPT !.completed = b].stage = r.stage
           /\ [r EXCEPT !.completed = b].temp = r.temp
           /\ [r EXCEPT !.completed = b].cancelled = r.cancelled
           /\ [r EXCEPT !.completed = b].worker = r.worker
BY DEF Job

LEMMA TempIs ==
    ASSUME NEW r \in Job, NEW b \in BOOLEAN
    PROVE  /\ [r EXCEPT !.temp = b] \in Job
           /\ [r EXCEPT !.temp = b].temp = b
           /\ [r EXCEPT !.temp = b].win = r.win
           /\ [r EXCEPT !.temp = b].stage = r.stage
           /\ [r EXCEPT !.temp = b].cancelled = r.cancelled
           /\ [r EXCEPT !.temp = b].completed = r.completed
           /\ [r EXCEPT !.temp = b].worker = r.worker
BY DEF Job

LEMMA BegunIs ==
    ASSUME NEW r \in Job, NEW b \in BOOLEAN, NEW v \in Revisions \cup {None}
    PROVE  /\ [r EXCEPT !.temp = b, !.revision = v] \in Job
           /\ [r EXCEPT !.temp = b, !.revision = v].win = r.win
           /\ [r EXCEPT !.temp = b, !.revision = v].stage = r.stage
           /\ [r EXCEPT !.temp = b, !.revision = v].cancelled = r.cancelled
           /\ [r EXCEPT !.temp = b, !.revision = v].completed = r.completed
           /\ [r EXCEPT !.temp = b, !.revision = v].worker = r.worker
BY DEF Job

LEMMA WorkerIs ==
    ASSUME NEW r \in Job,
           NEW x \in {"none", "running", "done", "crashed", "killed", "orphan"}
    PROVE  /\ [r EXCEPT !.worker = x] \in Job
           /\ Alike([r EXCEPT !.worker = x], r)
           /\ [r EXCEPT !.worker = x].worker = x
BY DEF Job, Alike

LEMMA WatchIs ==
    ASSUME NEW r \in Job, NEW x \in {"off", "on", "due"}
    PROVE  [r EXCEPT !.watch = x] \in Job /\ Same([r EXCEPT !.watch = x], r)
BY DEF Job, Same, Alike, WorkerGoes

LEMMA EventsIs ==
    ASSUME NEW r \in Job, NEW x \in Seq(Events)
    PROVE  [r EXCEPT !.events = x] \in Job /\ Same([r EXCEPT !.events = x], r)
BY DEF Job, Same, Alike, WorkerGoes

\* Reporting an event, killing the worker and comparing the source leave the
\* fields of the invariant alone.
LEMMA SendIs ==
    ASSUME NEW r \in Job, NEW j, NEW e \in Events
    PROVE  Send(j, r, e) \in Job /\ Same(Send(j, r, e), r)
<1>1. r.events \in Seq(Events)
  BY DEF Job
<1>2. Append(r.events, e) \in Seq(Events)
  BY <1>1
<1>3. CASE page[r.win].gen = j
  BY <1>2, <1>3, EventsIs DEF Send
<1>4. CASE page[r.win].gen # j
  BY <1>4 DEF Send, Same, Alike, WorkerGoes
<1> QED BY <1>3, <1>4

LEMMA SettleIs ==
    ASSUME NEW r \in Job, NEW j, NEW e \in Events
    PROVE  Settle(j, r, e) \in Job /\ Same(Settle(j, r, e), r)
<1> DEFINE q == [r EXCEPT !.terminal = TRUE]
<1>1. q \in Job /\ Same(q, r)
  BY TerminalIs
<1>2. Settle(j, r, e) = IF r.terminal THEN r ELSE Send(j, q, e)
  BY DEF Settle
<1> HIDE DEF q
<1>3. Send(j, q, e) \in Job /\ Same(Send(j, q, e), q)
  BY <1>1, SendIs
<1> QED BY <1>1, <1>2, <1>3 DEF Same, Alike, WorkerGoes

LEMMA MarkStaleIs ==
    ASSUME NEW r \in Job, NEW j
    PROVE  MarkStale(j, r) \in Job /\ Same(MarkStale(j, r), r)
<1> DEFINE q == [r EXCEPT !.stale = TRUE, !.terminal = TRUE]
<1>1. q \in Job /\ Same(q, r)
  BY StaleTerminalIs
<1>2. MarkStale(j, r) = IF r.stale THEN r ELSE Send(j, q, "stale")
  BY DEF MarkStale
<1> HIDE DEF q
<1>3. Send(j, q, "stale") \in Job /\ Same(Send(j, q, "stale"), q)
  BY <1>1, SendIs DEF Events
<1> QED BY <1>1, <1>2, <1>3 DEF Same, Alike, WorkerGoes

LEMMA KillIs ==
    ASSUME NEW r \in Job
    PROVE  Kill(r) \in Job /\ Same(Kill(r), r) /\ Kill(r).worker # "running"
BY SMT DEF Kill, Job, Same, Alike, WorkerGoes

LEMMA ComparedIs ==
    ASSUME job \in [Jobs -> Job], NEW j \in Jobs
    PROVE  Compared(j) \in Job /\ Same(Compared(j), job[j])
BY MarkStaleIs DEF Compared, Same, Alike, WorkerGoes

\* A dropped job has its directory only if that could not be removed.
LEMMA DroppedIs ==
    ASSUME NEW r \in Job, NEW t \in BOOLEAN
    PROVE  /\ Dropped(r, t) \in Job
           /\ Dropped(r, t).win = r.win /\ Dropped(r, t).stage = "ended"
           /\ Dropped(r, t).revision = r.revision
           /\ Dropped(r, t).worker = r.worker
           /\ Dropped(r, t).temp = t /\ ~Dropped(r, t).completed
<1>1. <<>> \in Seq(Events)
  OBVIOUS
<1>2. Fresh \in Job
  BY <1>1 DEF Fresh, Job, Stages
<1>3. ASSUME NEW f \in Job
      PROVE  LET d == [f EXCEPT !.win = r.win, !.stage = "ended",
                                !.revision = r.revision, !.temp = t,
                                !.terminal = r.terminal, !.events = r.events,
                                !.worker = r.worker] IN
             /\ d \in Job /\ d.win = r.win /\ d.stage = "ended"
             /\ d.revision = r.revision /\ d.worker = r.worker /\ d.temp = t
             /\ d.completed = f.completed
  BY DEF Job, Stages
<1>4. Fresh.completed = FALSE
  BY DEF Fresh
<1> QED BY <1>2, <1>3, <1>4 DEF Dropped

LEMMA FreshIs ==
    ASSUME NEW w \in Windows
    PROVE  LET r == [Goto(Fresh, "asked") EXCEPT !.win = w] IN
           /\ r \in Job /\ r.win = w /\ r.stage = "asked"
           /\ ~r.temp /\ ~r.completed /\ r.worker = "none"
<1> DEFINE r == [Goto(Fresh, "asked") EXCEPT !.win = w]
<1>1. <<>> \in Seq(Events)
  OBVIOUS
<1>2. r \in Job /\ r.win = w /\ r.stage = "asked"
  BY <1>1 DEF Fresh, Job, Stages, Goto
<1>3. ~r.temp /\ ~r.completed /\ r.worker = "none"
  BY DEF Fresh, Goto
<1> QED BY <1>2, <1>3

LEMMA BecomesIs ==
    ASSUME job \in [Jobs -> Job], NEW j \in Jobs, NEW r \in Job, Becomes(j, r)
    PROVE  /\ job' \in [Jobs -> Job]
           /\ job'[j] = r
           /\ \A k \in Jobs : k # j => job'[k] = job[k]
BY SMT DEF Becomes

-----------------------------------------------------------------------------
(***************************************************************************)
(* What keeps each part of the invariant                                   *)
(***************************************************************************)

Holding == Stages \ {"none", "asked", "queued", "ended"}

\* The gate only depends on who holds a permit.
LEMMA GateKeeps ==
    ASSUME GateIsExact, active' = active,
           \A k \in Jobs : (k \in Permits)' <=> k \in Permits
    PROVE  GateIsExact'
<1>1. Permits' = Permits
  BY DEF Permits
<1> QED BY <1>1 DEF GateIsExact

\* A job whose fields, registration and standing with the main thread stay.
LEMMA TrackedKeeps ==
    ASSUME NEW k \in Jobs, Tracked(k), Same(job'[k], job[k]),
           k \in registry' <=> k \in registry,
           k \in registry => session'[job[k].win] = "document",
           k \notin registry /\ Doomed(k) => Doomed(k)',
           k \notin registry /\ Evicted(k) => Evicted(k)'
    PROVE  Tracked(k)'
BY DEF Tracked, Same, Alike, WorkerGoes, Attended, AtWork, Quiet, Dying

\* A step of a thread, the page or the world, during a command.
LEMMA FitsKeeps ==
    ASSUME Types, MainFits, \A k \in Jobs : Tracked(k),
           main' = main, session' = session, registry' \subseteq registry,
           \A k \in Jobs : job[k].stage # "none" =>
               /\ job'[k].win = job[k].win
               /\ job[k].stage = "asked" => job'[k].stage = "asked"
               /\ job[k].stage \in Settled =>
                     /\ job'[k].stage \in Settled
                     /\ job'[k].revision = job[k].revision
    PROVE  MainFits'
<1>1. \A k \in registry' : k \in Jobs /\ job'[k].win = job[k].win
  BY DEF Tracked, Types
<1>2. main.op = "start" =>
          /\ job'[main.job].stage = "asked" /\ job'[main.job].win = main.win
          /\ \A j \in registry' : job'[j].win # main.win
  BY <1>1 DEF MainFits
<1>3. main.at \in {"dialog", "stage", "gate", "rename"} =>
          /\ job'[main.job].win = main.win /\ job'[main.job].stage \in Settled
          /\ job'[main.job].revision = job[main.job].revision
          /\ \A j \in registry' : job'[j].win = main.win => j = main.job
  BY <1>1 DEF MainFits, Settled
<1> QED BY <1>2, <1>3 DEF MainFits, SavedIsCurrent

LEMMA OneJobKeeps ==
    ASSUME OneJobPerWindow, registry' \subseteq registry,
           \A k \in registry : job'[k].win = job[k].win
    PROVE  OneJobPerWindow'
BY DEF OneJobPerWindow

\* Nothing the invariant looks at changes.
LEMMA QuietKeeps ==
    ASSUME Inv, Types', UNCHANGED <<registry, session, main, active>>,
           \A k \in Jobs : Same(job'[k], job[k])
    PROVE  Inv'
<1>1. GateIsExact'
  BY GateKeeps DEF Inv, Permits, Same, Alike, WorkerGoes
<1>2. ASSUME NEW k \in Jobs PROVE Tracked(k)'
  <2>1. Doomed(k)' <=> Doomed(k)
    BY DEF Doomed, Same, Alike, WorkerGoes
  <2>2. Evicted(k)' <=> Evicted(k)
    BY DEF Evicted
  <2> QED BY <2>1, <2>2, TrackedKeeps DEF Inv, Tracked
<1>3. OneJobPerWindow'
  BY OneJobKeeps DEF Inv, Types, Same, Alike, WorkerGoes
<1>4. MainFits'
  BY FitsKeeps DEF Inv, Same, Alike, WorkerGoes
<1> QED BY <1>1, <1>2, <1>3, <1>4 DEF Inv

\* The step of a thread that holds a permit and keeps it.
Moves(q, r) ==
    /\ q.stage \in Holding \ {"failed"} /\ r.stage \in Holding \ {"permitted"}
    /\ r.win = q.win /\ r.cancelled = q.cancelled
    /\ r.completed => q.completed \/ r.stage = "watching"
    /\ q.stage \in Settled => r.stage \in Settled /\ r.revision = q.revision
    /\ q.stage \notin Early => r.stage \notin Early /\ r.temp = q.temp
    /\ Attended(r)

LEMMA MoveKeeps ==
    ASSUME Inv, NEW j \in Jobs, NEW r \in Job, Becomes(j, r), JobOnly,
           Moves(job[j], r)
    PROVE  Inv'
<1>0. /\ job' \in [Jobs -> Job] /\ job'[j] = r
      /\ \A k \in Jobs : k # j => job'[k] = job[k]
  BY BecomesIs DEF Inv, Types
<1>1. Types'
  BY <1>0 DEF Inv, Types, JobOnly, ThreadOnly, pageVars
<1>2. GateIsExact'
  <2>1. \A k \in Jobs : (k \in Permits)' <=> k \in Permits
    BY <1>0 DEF Permits, Moves, Holding
  <2> QED BY <2>1, GateKeeps DEF Inv, JobOnly
<1>3. ASSUME NEW k \in Jobs PROVE Tracked(k)'
  <2>1. (Doomed(k)' <=> Doomed(k)) /\ (Evicted(k)' <=> Evicted(k))
    BY <1>0 DEF Doomed, Evicted, Moves, JobOnly, ThreadOnly
  <2>2. Tracked(k)
    BY DEF Inv
  <2>3. CASE k # j
    BY <1>0, <2>1, <2>2, <2>3, TrackedKeeps
       DEF Tracked, Same, Alike, WorkerGoes, JobOnly, ThreadOnly
  <2>4. CASE k = j
    BY <1>0, <2>1, <2>2, <2>4
       DEF Tracked, Moves, Holding, Stages, Early, Settled, JobOnly, ThreadOnly
  <2> QED BY <2>3, <2>4
<1>4. OneJobPerWindow'
  BY <1>0, OneJobKeeps DEF Inv, Types, Moves, JobOnly
<1>5. MainFits'
  BY <1>0, FitsKeeps DEF Inv, Moves, Holding, JobOnly, ThreadOnly
<1> QED BY <1>1, <1>2, <1>3, <1>4, <1>5 DEF Inv

-----------------------------------------------------------------------------
(***************************************************************************)
(* The threads                                                             *)
(***************************************************************************)

LEMMA BeginMoves ==
    ASSUME Inv, NEW j \in Jobs, Begin(j)
    PROVE  Inv'
<1> DEFINE now == source[job[j].win]
           s == IF now = Missing THEN "failing" ELSE "copying"
           q == Goto(job[j], s)
           v == IF now = Missing THEN None ELSE now
           r == [q EXCEPT !.temp = TRUE, !.revision = v]
<1>1. job[j] \in Job /\ job[j].win \in Windows /\ job[j].stage = "permitted"
      /\ ~job[j].completed /\ job[j].worker # "running"
  BY DEF Inv, Types, Tracked, Begin, Settled, Attended, AtWork
<1>2. q \in Job /\ q.stage = s /\ q.win = job[j].win
      /\ q.cancelled = job[j].cancelled /\ q.completed = job[j].completed
      /\ q.worker = job[j].worker
  BY <1>1, GotoIs DEF Stages
<1>3. v \in Revisions \cup {None}
  BY <1>1 DEF Inv, Types
<1> HIDE DEF q, v
<1>4. r \in Job /\ r.win = q.win /\ r.stage = q.stage
      /\ r.cancelled = q.cancelled /\ r.completed = q.completed
      /\ r.worker = q.worker
  BY <1>2, <1>3, BegunIs
<1>5. Moves(job[j], r)
  BY <1>1, <1>2, <1>4 DEF Moves, Holding, Stages, Settled, Early, Attended, Quiet
<1>6. Becomes(j, r) /\ JobOnly
  BY DEF Begin, q, v
<1> QED BY <1>4, <1>5, <1>6, MoveKeeps

\* What the invariant says of the worker of a job ...
LEMMA WorkerNow ==
    ASSUME Inv, NEW j \in Jobs, NEW q, Same(q, job[j])
    PROVE  /\ job[j].stage \notin AtWork => q.worker # "running"
           /\ job[j].stage \in Quiet /\ Dying(q) => q.cancelled
BY DEF Inv, Tracked, Attended, Same, Alike, WorkerGoes, Dying, AtWork, Quiet

LEMMA SameIs == \A q : Same(q, q)
BY DEF Same, Alike, WorkerGoes

\* A step to another stage, of the job or of one with the same fields.
LEMMA GotoMoves ==
    ASSUME Inv, NEW j \in Jobs, NEW q \in Job, Same(q, job[j]), NEW s \in Stages,
           Becomes(j, Goto(q, s)), JobOnly,
           job[j].stage \in Holding \ {"failed"}, s \in Holding \ {"permitted"},
           job[j].stage \in Settled => s \in Settled,
           job[j].stage \notin Early => s \notin Early,
           q.worker = "running" => s \in AtWork,
           s \in Quiet /\ Dying(q) => q.cancelled
    PROVE  Inv'
<1>1. Goto(q, s) \in Job /\ Moves(job[j], Goto(q, s))
  BY GotoIs DEF Moves, Same, Alike, Attended, Dying
<1> QED BY <1>1, MoveKeeps

LEMMA CopiedMoves ==
    ASSUME Inv, NEW j \in Jobs, Copied(j)
    PROVE  Inv'
<1>1. job[j] \in Job /\ Same(job[j], job[j]) /\ job[j].stage = "copying" /\ JobOnly
  BY DEF Inv, Types, Same, Alike, WorkerGoes, Copied
<1>2. Compared(j) \in Job /\ Same(Compared(j), job[j])
  BY ComparedIs DEF Inv, Types
<1>3. CASE Becomes(j, Goto(job[j], "failing"))
  BY <1>1, <1>3, GotoMoves, WorkerNow
     DEF Stages, Holding, Settled, Early, AtWork, Quiet
<1>4. CASE Becomes(j, Goto(Compared(j), "failing"))
  BY <1>1, <1>2, <1>4, GotoMoves, WorkerNow
     DEF Stages, Holding, Settled, Early, AtWork, Quiet
<1>5. CASE Becomes(j, Goto(job[j], IF session[job[j].win] # "document"
                                   THEN "failing"
                                   ELSE IF job[j].cancelled THEN "returned"
                                   ELSE "spawning"))
  <2> DEFINE s == IF session[job[j].win] # "document" THEN "failing"
                  ELSE IF job[j].cancelled THEN "returned" ELSE "spawning"
  <2>1. s \in {"failing", "returned", "spawning"}
        /\ (s = "returned" => job[j].cancelled)
    OBVIOUS
  <2>2. Becomes(j, Goto(job[j], s))
    BY <1>5
  <2> HIDE DEF s
  <2> QED BY <1>1, <2>1, <2>2, GotoMoves, WorkerNow
     DEF Stages, Holding, Settled, Early, AtWork, Quiet
<1> QED BY <1>3, <1>4, <1>5 DEF Copied

LEMMA SpawnMoves ==
    ASSUME Inv, NEW j \in Jobs, Spawn(j)
    PROVE  Inv'
<1>1. job[j] \in Job /\ Same(job[j], job[j]) /\ job[j].stage = "spawning" /\ JobOnly
  BY DEF Inv, Types, Same, Alike, WorkerGoes, Spawn
<1>2. CASE Becomes(j, Goto(job[j], "failing"))
  BY <1>1, <1>2, GotoMoves, WorkerNow
     DEF Stages, Holding, Settled, Early, AtWork, Quiet
<1>3. ASSUME NEW s \in {"stored", "failing"}, NEW x \in {"running", "orphan"},
             Becomes(j, [Goto(job[j], s) EXCEPT !.worker = x])
      PROVE  Inv'
  <2> DEFINE q == Goto(job[j], s)
             r == [q EXCEPT !.worker = x]
  <2>1. q \in Job /\ q.stage = s /\ q.win = job[j].win
        /\ q.cancelled = job[j].cancelled /\ q.completed = job[j].completed
    BY <1>1, GotoIs DEF Stages
  <2>2. Becomes(j, r)
    BY <1>3
  <2> HIDE DEF q
  <2>3. r \in Job /\ Alike(r, q) /\ r.worker = x
    BY <2>1, WorkerIs
  <2>4. Moves(job[j], r)
    BY <1>1, <2>1, <2>3
       DEF Moves, Alike, Holding, Stages, Settled, Early, Attended, AtWork, Quiet
  <2> QED BY <1>1, <2>2, <2>3, <2>4, MoveKeeps
<1> QED BY <1>2, <1>3 DEF Spawn

LEMMA StoredMoves ==
    ASSUME Inv, NEW j \in Jobs, Stored(j)
    PROVE  Inv'
<1>1. job[j] \in Job /\ Same(job[j], job[j]) /\ job[j].stage = "stored" /\ JobOnly
  BY DEF Inv, Types, Same, Alike, WorkerGoes, Stored
<1>2. Kill(job[j]) \in Job /\ Same(Kill(job[j]), job[j])
      /\ Kill(job[j]).worker # "running"
  BY <1>1, KillIs
<1>3. CASE job[j].cancelled /\ Becomes(j, Goto(Kill(job[j]), "returned"))
  BY <1>1, <1>2, <1>3, GotoMoves, WorkerNow
     DEF Same, Alike, Stages, Holding, Settled, Early, AtWork, Quiet
<1>4. CASE Becomes(j, Goto(job[j], "reading"))
  BY <1>1, <1>4, GotoMoves, WorkerNow
     DEF Stages, Holding, Settled, Early, AtWork, Quiet
<1> QED BY <1>3, <1>4 DEF Stored

LEMMA ReadMoves ==
    ASSUME Inv, NEW j \in Jobs, Read(j)
    PROVE  Inv'
<1>1. job[j] \in Job /\ Same(job[j], job[j]) /\ job[j].stage = "reading" /\ JobOnly
  BY DEF Inv, Types, Same, Alike, WorkerGoes, Read
<1>2. CASE Becomes(j, Goto(job[j], "waiting"))
  BY <1>1, <1>2, GotoMoves, WorkerNow
     DEF Stages, Holding, Settled, Early, AtWork, Quiet
<1>3. CASE Becomes(j, Goto(job[j], "failing"))
  BY <1>1, <1>3, GotoMoves, WorkerNow
     DEF Stages, Holding, Settled, Early, AtWork, Quiet
<1> QED BY <1>2, <1>3 DEF Read

LEMMA WaitedMoves ==
    ASSUME Inv, NEW j \in Jobs, Waited(j)
    PROVE  Inv'
<1> DEFINE s == IF job[j].cancelled THEN "returned"
                ELSE IF job[j].worker = "done" THEN "verifying" ELSE "failing"
           q == Goto(job[j], s)
           r == [q EXCEPT !.worker = "none"]
<1>1. job[j] \in Job /\ job[j].stage = "waiting" /\ JobOnly
  BY DEF Inv, Types, Waited
<1>2. s \in {"returned", "verifying", "failing"}
  OBVIOUS
<1>3. Becomes(j, r)
  BY DEF Waited
<1> HIDE DEF s
<1>4. q \in Job /\ q.stage = s /\ q.win = job[j].win
      /\ q.cancelled = job[j].cancelled /\ q.completed = job[j].completed
  BY <1>1, <1>2, GotoIs DEF Stages
<1> HIDE DEF q
<1>5. r \in Job /\ Alike(r, q) /\ r.worker = "none"
  BY <1>4, WorkerIs
<1>6. Moves(job[j], r)
  BY <1>1, <1>2, <1>4, <1>5 
     DEF Moves, Alike, Holding, Stages, Settled, Early, Attended, Dying
<1> QED BY <1>1, <1>3, <1>5, <1>6, MoveKeeps

LEMMA VerifyMoves ==
    ASSUME Inv, NEW j \in Jobs, Verify(j)
    PROVE  Inv'
<1>1. job[j] \in Job /\ job[j].stage = "verifying" /\ JobOnly
  BY DEF Inv, Types, Verify
<1>2. CASE Becomes(j, Goto(Compared(j), "failing"))
  <2>1. Compared(j) \in Job /\ Same(Compared(j), job[j])
    BY ComparedIs DEF Inv, Types
  <2> QED BY <1>1, <1>2, <2>1, GotoMoves, WorkerNow
     DEF Stages, Holding, Settled, Early, AtWork, Quiet
<1>3. CASE Becomes(j, [Goto(job[j], "watching") EXCEPT !.completed = TRUE])
  <2> DEFINE q == Goto(job[j], "watching")
             r == [q EXCEPT !.completed = TRUE]
  <2>1. q \in Job /\ q.stage = "watching" /\ q.win = job[j].win
        /\ q.cancelled = job[j].cancelled /\ q.worker = job[j].worker
    BY <1>1, GotoIs DEF Stages
  <2>2. Becomes(j, r)
    BY <1>3
  <2> HIDE DEF q
  <2>3. r \in Job /\ r.stage = q.stage /\ r.win = q.win
        /\ r.cancelled = q.cancelled /\ r.worker = q.worker
    BY <2>1, CompletedIs
  <2>4. Moves(job[j], r)
    <3>1. Attended(r)
      BY <1>1, <2>1, <2>3, WorkerNow, SameIs DEF Attended, AtWork, Quiet, Dying
    <3> QED BY <1>1, <2>1, <2>3, <3>1 DEF Moves, Holding, Stages, Settled, Early
  <2> QED BY <1>1, <2>2, <2>3, <2>4, MoveKeeps
<1> QED BY <1>2, <1>3 DEF Verify

LEMMA WatchMoves ==
    ASSUME Inv, NEW j \in Jobs, Watch(j)
    PROVE  Inv'
<1>1. job[j] \in Job /\ Same(job[j], job[j]) /\ job[j].stage = "watching" /\ JobOnly
  BY DEF Inv, Types, Same, Alike, WorkerGoes, Watch
<1>2. CASE Becomes(j, Goto(job[j], "completing"))
  BY <1>1, <1>2, GotoMoves, WorkerNow
     DEF Stages, Holding, Settled, Early, AtWork, Quiet
<1>3. CASE Becomes(j, [Goto(job[j], "completing") EXCEPT !.watch = "on"])
  <2> DEFINE q == Goto(job[j], "completing")
             r == [q EXCEPT !.watch = "on"]
  <2>1. q \in Job /\ q.stage = "completing" /\ q.win = job[j].win
        /\ q.temp = job[j].temp /\ q.revision = job[j].revision
        /\ q.cancelled = job[j].cancelled /\ q.completed = job[j].completed
        /\ q.worker = job[j].worker
    BY <1>1, GotoIs DEF Stages
  <2>2. Becomes(j, r)
    BY <1>3
  <2> HIDE DEF q
  <2>3. r \in Job /\ Same(r, q)
    BY <2>1, WatchIs
  <2>4. Moves(job[j], r)
    <3>1. Attended(r)
      BY <1>1, <2>1, <2>3, WorkerNow
         DEF Same, Alike, WorkerGoes, Attended, AtWork, Quiet, Dying
    <3> QED BY <1>1, <2>1, <2>3, <3>1
            DEF Moves, Same, Alike, Holding, Stages, Settled, Early
  <2> QED BY <1>1, <2>2, <2>3, <2>4, MoveKeeps
<1> QED BY <1>2, <1>3 DEF Watch

LEMMA CompleteMoves ==
    ASSUME Inv, NEW j \in Jobs, Complete(j)
    PROVE  Inv'
<1> DEFINE q == Goto(job[j], "returned")
           p == [q EXCEPT !.terminal = TRUE]
           r == Send(j, p, "complete")
<1>1. job[j] \in Job /\ job[j].stage = "completing" /\ JobOnly
  BY DEF Inv, Types, Complete
<1>2. q \in Job /\ q.stage = "returned" /\ q.win = job[j].win
      /\ q.temp = job[j].temp /\ q.revision = job[j].revision
      /\ q.cancelled = job[j].cancelled /\ q.completed = job[j].completed
      /\ q.worker = job[j].worker
  BY <1>1, GotoIs DEF Stages
<1>3. Becomes(j, r)
  BY DEF Complete
<1> HIDE DEF q
<1>4. p \in Job /\ Same(p, q)
  BY <1>2, TerminalIs
<1> HIDE DEF p
<1>5. r \in Job /\ Same(r, p)
  BY <1>4, SendIs DEF Events
<1> HIDE DEF r
<1>6. Moves(job[j], r)
  <2>1. Attended(r)
    BY <1>1, <1>2, <1>4, <1>5, WorkerNow, SameIs
       DEF Same, Alike, WorkerGoes, Attended, AtWork, Quiet, Dying
  <2> QED BY <1>1, <1>2, <1>4, <1>5, <2>1
          DEF Moves, Same, Alike, Holding, Stages, Settled, Early
<1> QED BY <1>1, <1>3, <1>5, <1>6, MoveKeeps

LEMMA FailMoves ==
    ASSUME Inv, NEW j \in Jobs, Fail(j)
    PROVE  Inv'
<1> DEFINE q == IF job[j].cancelled THEN job[j] ELSE Settle(j, job[j], "error")
<1>1. job[j] \in Job /\ job[j].stage = "failing" /\ JobOnly
  BY DEF Inv, Types, Fail
<1>2. q \in Job /\ Same(q, job[j])
  BY <1>1, SettleIs DEF Events, Same, Alike, WorkerGoes
<1>3. Becomes(j, Goto(Kill(q), "failed"))
  BY DEF Fail
<1> HIDE DEF q
<1>4. Kill(q) \in Job /\ Same(Kill(q), job[j]) /\ Kill(q).worker # "running"
  BY <1>2, KillIs DEF Same, Alike, WorkerGoes
<1> QED BY <1>1, <1>3, <1>4, GotoMoves, WorkerNow
     DEF Stages, Holding, Settled, Early, AtWork, Quiet

LEMMA PermitsAreFinite == IsFiniteSet(Permits)
BY JobsAssumption, FS_Subset DEF Permits

\* A step of one thread that leaves the other jobs and the main thread alone.
LEMMA OthersKeep ==
    ASSUME Inv, NEW j \in Jobs, ThreadOnly, registry' \subseteq registry,
           registry \ {j} \subseteq registry',
           \A k \in Jobs : k # j => job'[k] = job[k],
           NEW k \in Jobs, k # j
    PROVE  Tracked(k)'
<1>1. Tracked(k) /\ Same(job'[k], job[k])
  BY DEF Inv, Same, Alike, WorkerGoes
<1>2. (Doomed(k)' <=> Doomed(k)) /\ (Evicted(k)' <=> Evicted(k))
  BY DEF Doomed, Evicted, ThreadOnly
<1>3. session' = session
  BY DEF ThreadOnly
<1> QED BY <1>1, <1>2, <1>3, TrackedKeeps DEF Tracked

LEMMA AcquireKeeps ==
    ASSUME Inv, NEW j \in Jobs, Acquire(j)
    PROVE  Inv'
<1> DEFINE r == Goto(job[j], "permitted")
<1>1. job[j] \in Job /\ job[j].stage = "queued" /\ ~job[j].temp
      /\ job[j].worker # "running"
  BY DEF Inv, Types, Tracked, Acquire, Attended, AtWork
<1>2. r \in Job /\ r.stage = "permitted" /\ r.win = job[j].win
      /\ (r.temp <=> job[j].temp) /\ r.cancelled = job[j].cancelled
      /\ r.completed = job[j].completed /\ r.worker = job[j].worker
  BY <1>1, GotoIs DEF Stages
<1>3. Becomes(j, r) /\ ThreadOnly /\ registry' = registry
  BY DEF Acquire
<1> HIDE DEF r
<1>4. /\ job' \in [Jobs -> Job] /\ job'[j] = r
      /\ \A k \in Jobs : k # j => job'[k] = job[k]
  BY <1>2, <1>3, BecomesIs DEF Inv, Types
<1>5. GateIsExact'
  <2>1. j \notin Permits /\ Permits' = Permits \cup {j}
    BY <1>1, <1>2, <1>4 DEF Permits
  <2>2. Cardinality(Permits') = Cardinality(Permits) + 1
    BY <2>1, PermitsAreFinite, FS_AddElement
  <2>3. active < MaxActive /\ active' = active + 1 /\ MaxActive \in Nat
    BY MaxActiveAssumption DEF Acquire
  <2>4. active' \in 0..MaxActive
    BY <2>3 DEF Inv, GateIsExact
  <2>5. active' = Cardinality(Permits')
    BY <2>2, <2>3 DEF Inv, GateIsExact
  <2> QED BY <2>4, <2>5 DEF GateIsExact
<1>6. Types'
  BY <1>3, <1>4, <1>5 DEF Inv, Types, ThreadOnly, pageVars
<1>7. ASSUME NEW k \in Jobs PROVE Tracked(k)'
  <2>1. CASE k # j
    BY <1>3, <1>4, <2>1, OthersKeep
  <2>2. CASE k = j
    <3>1. Doomed(j) <=> Doomed(j)'
      BY <1>2, <1>3, <1>4 DEF Doomed, ThreadOnly
    <3> QED BY <1>1, <1>2, <1>3, <1>4, <2>2, <3>1
            DEF Inv, Tracked, ThreadOnly, Early, Settled, Attended, Quiet
  <2> QED BY <2>1, <2>2
<1>8. OneJobPerWindow'
  BY <1>2, <1>3, <1>4, OneJobKeeps DEF Inv, Types
<1>9. MainFits'
  <2>1. job[j].stage \notin {"asked"} \cup Settled
    BY <1>1 DEF Settled
  <2> QED BY <1>2, <1>3, <1>4, <2>1, FitsKeeps DEF Inv, ThreadOnly
<1> QED BY <1>5, <1>6, <1>7, <1>8, <1>9 DEF Inv

\* What the clean-up of a job keeps but the gate.
LEMMA CleanUpKeeps ==
    ASSUME Inv, NEW j \in Jobs, CleanUp(j), ThreadOnly,
           job[j].stage \notin {"none", "asked"} \cup AtWork
    PROVE  /\ Types' /\ (\A k \in Jobs : Tracked(k)') /\ OneJobPerWindow'
           /\ MainFits'
           /\ job'[j].stage = "ended"
           /\ \A k \in Jobs : k # j => job'[k] = job[k]
<1>0. PICK t \in Left(job[j], Dying(job[j])) : Becomes(j, Dropped(job[j], t))
  BY DEF CleanUp
<1> DEFINE r == Dropped(job[j], t)
<1>1. job[j] \in Job /\ t \in BOOLEAN /\ (t => job[j].worker = "killed")
      /\ job[j].worker # "running"
  BY DEF Inv, Types, Left, Dying, Tracked, Attended
<1>2. r \in Job /\ r.win = job[j].win /\ r.stage = "ended"
      /\ (r.temp => r.worker = "killed") /\ r.worker # "running"
      /\ ~r.completed /\ r.revision = job[j].revision
  BY <1>1, DroppedIs
<1>3. Becomes(j, r) /\ registry' = registry \ {j}
  BY <1>0 DEF CleanUp
<1> HIDE DEF r
<1>4. /\ job' \in [Jobs -> Job] /\ job'[j] = r
      /\ \A k \in Jobs : k # j => job'[k] = job[k]
  BY <1>2, <1>3, BecomesIs DEF Inv, Types
<1>5. Types'
  BY <1>3, <1>4 DEF Inv, Types, ThreadOnly, pageVars
<1>6. ASSUME NEW k \in Jobs PROVE Tracked(k)'
  <2>1. CASE k # j
    BY <1>3, <1>4, <2>1, OthersKeep
  <2>2. CASE k = j
    BY <1>2, <1>3, <1>4, <2>2 DEF Inv, Tracked, Early, Attended, Quiet, Dying
  <2> QED BY <2>1, <2>2
<1>7. OneJobPerWindow'
  BY <1>2, <1>3, <1>4, OneJobKeeps DEF Inv, Types
<1>8. MainFits'
  <2>1. "ended" \in Settled
    BY DEF Settled
  <2> QED BY <1>2, <1>3, <1>4, <2>1, FitsKeeps DEF Inv, ThreadOnly
<1> QED BY <1>2, <1>4, <1>5, <1>6, <1>7, <1>8

LEMMA GiveUpKeeps ==
    ASSUME Inv, NEW j \in Jobs, GiveUp(j)
    PROVE  Inv'
<1>1. job[j].stage = "queued" /\ CleanUp(j) /\ ThreadOnly /\ active' = active
  BY DEF GiveUp
<1>2. /\ Types' /\ (\A k \in Jobs : Tracked(k)') /\ OneJobPerWindow' /\ MainFits'
      /\ job'[j].stage = "ended"
      /\ \A k \in Jobs : k # j => job'[k] = job[k]
  BY <1>1, CleanUpKeeps DEF AtWork
<1>3. \A k \in Jobs : (k \in Permits)' <=> k \in Permits
  BY <1>1, <1>2 DEF Permits
<1>4. GateIsExact'
  BY <1>1, <1>3, GateKeeps DEF Inv
<1> QED BY <1>2, <1>4 DEF Inv

\* A thread gives its permit back.
LEMMA GateReleased ==
    ASSUME Inv, NEW j \in Jobs, j \in Permits, active' = active - 1,
           job'[j].stage = "ended",
           \A k \in Jobs : k # j => job'[k] = job[k]
    PROVE  GateIsExact'
<1>1. Permits' = Permits \ {j}
  BY DEF Permits
<1>2. Cardinality(Permits') = Cardinality(Permits) - 1
  BY <1>1, PermitsAreFinite, FS_RemoveElement
<1>3. Cardinality(Permits') \in Nat
  BY <1>1, PermitsAreFinite, FS_Subset, FS_CardinalityType
<1>4. active' = Cardinality(Permits') /\ active \in 0..MaxActive
  BY <1>2 DEF Inv, GateIsExact
<1>5. active' \in 0..MaxActive
  BY <1>3, <1>4, MaxActiveAssumption
<1> QED BY <1>4, <1>5 DEF GateIsExact

LEMMA EndKeeps ==
    ASSUME Inv, NEW j \in Jobs, End(j)
    PROVE  Inv'
<1>1. /\ job[j].stage \in {"failed", "returned", "permitted"}
      /\ job[j].stage = "permitted" => job[j].cancelled
      /\ job[j] \in Job /\ ThreadOnly /\ active' = active - 1
      /\ Tracked(j)
  BY DEF End, Inv, Types
<1>2. j \in Permits
  BY <1>1 DEF Permits
<1>3. CASE job[j].stage = "failed" \/ job[j].cancelled
  <2>1. CleanUp(j)
    BY <1>3 DEF End
  <2>2. /\ Types' /\ (\A k \in Jobs : Tracked(k)') /\ OneJobPerWindow' /\ MainFits'
        /\ job'[j].stage = "ended"
        /\ \A k \in Jobs : k # j => job'[k] = job[k]
    BY <1>1, <2>1, CleanUpKeeps DEF AtWork
  <2>3. GateIsExact'
    BY <1>1, <1>2, <2>2, GateReleased
  <2> QED BY <2>2, <2>3 DEF Inv
<1>4. CASE ~(job[j].stage = "failed" \/ job[j].cancelled)
  <2> DEFINE r == Goto(job[j], "ended")
  <2>1. Becomes(j, r) /\ registry' = registry
    BY <1>4 DEF End
  <2>2. r \in Job /\ r.stage = "ended" /\ r.win = job[j].win
        /\ r.temp = job[j].temp /\ r.cancelled = job[j].cancelled
        /\ r.completed = job[j].completed /\ r.revision = job[j].revision
        /\ r.worker = job[j].worker
    BY <1>1, GotoIs DEF Stages
  <2> HIDE DEF r
  <2>3. /\ job' \in [Jobs -> Job] /\ job'[j] = r
        /\ \A k \in Jobs : k # j => job'[k] = job[k]
    BY <2>1, <2>2, BecomesIs DEF Inv, Types
  <2>4. Types'
    BY <1>1, <2>1, <2>3 DEF Inv, Types, ThreadOnly, pageVars
  <2>5. GateIsExact'
    BY <1>1, <1>2, <2>2, <2>3, GateReleased
  <2>6. ASSUME NEW k \in Jobs PROVE Tracked(k)'
    <3>1. CASE k # j
      BY <1>1, <2>1, <2>3, <3>1, OthersKeep
    <3>2. CASE k = j
      <4>1. job[j].stage = "returned"
        BY <1>1, <1>4
      <4>2. j \notin registry /\ job[j].temp => Evicted(j)
        BY <1>1, <1>4, <4>1 DEF Tracked, Doomed, Evicted
      <4>3. Evicted(j)' <=> Evicted(j)
        BY <1>1 DEF Evicted, ThreadOnly
      <4>4. session' = session
        BY <1>1 DEF ThreadOnly
      <4> QED BY <1>1, <2>1, <2>2, <2>3, <3>2, <4>1, <4>2, <4>3, <4>4
              DEF Tracked, Early, Settled, Attended, AtWork, Quiet
    <3> QED BY <3>1, <3>2
  <2>7. OneJobPerWindow'
    BY <2>1, <2>2, <2>3, OneJobKeeps DEF Inv, Types
  <2>8. MainFits'
    <3>1. "ended" \in Settled /\ job[j].stage # "asked"
      BY <1>1 DEF Settled
    <3> QED BY <1>1, <2>1, <2>2, <2>3, <3>1, FitsKeeps DEF Inv, ThreadOnly
  <2> QED BY <2>4, <2>5, <2>6, <2>7, <2>8 DEF Inv
<1> QED BY <1>3, <1>4

-----------------------------------------------------------------------------
(***************************************************************************)
(* Steps the invariant does not see                                        *)
(***************************************************************************)

\* The types of what belongs to windows and pages.
Outer ==
    /\ source \in [Windows -> Revisions \cup {Missing}]
    /\ edits \in [Windows -> Revisions]
    /\ page \in [Windows -> Page]
    /\ calls \in [Windows -> Seq(Call)]
    /\ replies \in [Windows -> Seq(Reply)]

LEMMA QuietJobKeeps ==
    ASSUME Inv, NEW j \in Jobs, NEW r \in Job, Same(r, job[j]), Becomes(j, r),
           UNCHANGED <<registry, session, main, active>>, Outer'
    PROVE  Inv'
<1>1. /\ job' \in [Jobs -> Job] /\ job'[j] = r
      /\ \A k \in Jobs : k # j => job'[k] = job[k]
  BY BecomesIs DEF Inv, Types
<1>2. Types'
  BY <1>1 DEF Inv, Types, Outer
<1>3. \A k \in Jobs : Same(job'[k], job[k])
  BY <1>1 DEF Same, Alike, WorkerGoes
<1> QED BY <1>2, <1>3, QuietKeeps

LEMMA OuterNow == Inv => Outer
BY DEF Inv, Types, Outer

LEMMA WorkerEndsKeeps ==
    ASSUME Inv, NEW j \in Jobs, WorkerEnds(j)
    PROVE  Inv'
<1>1. PICK how \in {"done", "crashed"} : Becomes(j, [job[j] EXCEPT !.worker = how])
                                      /\ job[j].worker \in {"running", "orphan"}
  BY DEF WorkerEnds
<1>2. [job[j] EXCEPT !.worker = how] \in Job
      /\ Same([job[j] EXCEPT !.worker = how], job[j])
  BY <1>1, WorkerIs DEF Inv, Types, Same, WorkerGoes
<1>3. Outer' /\ UNCHANGED <<registry, session, main, active>>
  BY OuterNow DEF WorkerEnds, JobOnly, ThreadOnly, pageVars, Outer
<1> QED BY <1>1, <1>2, <1>3, QuietJobKeeps

LEMMA NoticedKeeps ==
    ASSUME Inv, NEW j \in Jobs, Noticed(j)
    PROVE  Inv'
<1> DEFINE q == [job[j] EXCEPT !.watch = "on"]
           r == IF ~Current(j) THEN MarkStale(j, q) ELSE q
<1>1. q \in Job /\ Same(q, job[j])
  BY WatchIs DEF Inv, Types
<1>2. Becomes(j, r)
  BY DEF Noticed
<1> HIDE DEF q
<1>3. r \in Job /\ Same(r, job[j])
  BY <1>1, MarkStaleIs DEF Same, Alike, WorkerGoes
<1>4. Outer' /\ UNCHANGED <<registry, session, main, active>>
  BY OuterNow DEF Noticed, JobOnly, ThreadOnly, pageVars, Outer
<1> QED BY <1>2, <1>3, <1>4, QuietJobKeeps

Statuses == {"idle", "running", "complete", "stale", "cancelled", "error",
             "left", "closed"}

LEMMA ShowsType ==
    ASSUME page \in [Windows -> Page], NEW w \in Windows, NEW p \in Page,
           Shows(w, p)
    PROVE  page' \in [Windows -> Page]
BY DEF Shows

LEMMA StatusType ==
    ASSUME NEW p \in Page, NEW s \in Statuses
    PROVE  [p EXCEPT !.status = s] \in Page
BY DEF Page, Statuses

LEMMA StatusIdType ==
    ASSUME NEW p \in Page, NEW s \in Statuses, NEW i \in Jobs \cup {None}
    PROVE  [p EXCEPT !.status = s, !.id = i] \in Page
BY DEF Page, Statuses

LEMMA StatusGenType ==
    ASSUME NEW p \in Page, NEW s \in Statuses, NEW g \in Jobs \cup {None}
    PROVE  [p EXCEPT !.status = s, !.gen = g] \in Page
BY DEF Page, Statuses

LEMMA StatusGenIdType ==
    ASSUME NEW p \in Page, NEW s \in Statuses, NEW g \in Jobs \cup {None},
           NEW i \in Jobs \cup {None}
    PROVE  [p EXCEPT !.status = s, !.gen = g, !.id = i] \in Page
BY DEF Page, Statuses

LEMMA ActingType ==
    ASSUME NEW p \in Page, NEW b \in BOOLEAN
    PROVE  [p EXCEPT !.acting = b] \in Page
BY DEF Page

LEMMA IdType ==
    ASSUME NEW p \in Page, NEW i \in Jobs \cup {None}
    PROVE  [p EXCEPT !.id = i] \in Page
BY DEF Page

LEMMA IssueType ==
    ASSUME calls \in [Windows -> Seq(Call)], NEW w \in Windows,
           NEW op \in {"start", "cancel", "check", "save", "close"},
           NEW j \in Jobs \cup {None}, Issue(w, op, j)
    PROVE  calls' \in [Windows -> Seq(Call)]
<1>1. [op |-> op, job |-> j] \in Call
  BY DEF Call
<1>2. Append(calls[w], [op |-> op, job |-> j]) \in Seq(Call)
  BY <1>1
<1> QED BY <1>2 DEF Issue

LEMMA AnswerType ==
    ASSUME replies \in [Windows -> Seq(Reply)], NEW w \in Windows,
           NEW op \in {"start", "check", "save"}, NEW j \in Jobs \cup {None},
           NEW res \in {"ok", "stale", "failed", "dismissed"},
           Answer(w, op, j, res)
    PROVE  replies' \in [Windows -> Seq(Reply)]
<1>1. [op |-> op, job |-> j, result |-> res] \in Reply
  BY DEF Reply
<1>2. Append(replies[w], [op |-> op, job |-> j, result |-> res]) \in Seq(Reply)
  BY <1>1
<1> QED BY <1>2 DEF Answer

LEMMA TakesCallType ==
    ASSUME calls \in [Windows -> Seq(Call)], NEW w \in Windows, NEW op,
           TakesCall(w, op)
    PROVE  /\ calls' \in [Windows -> Seq(Call)]
           /\ Head(calls[w]).job \in Jobs \cup {None}
<1>1. calls[w] \in Seq(Call) /\ calls[w] # <<>>
  BY DEF TakesCall
<1>2. Tail(calls[w]) \in Seq(Call) /\ Head(calls[w]) \in Call
  BY <1>1
<1> QED BY <1>2 DEF TakesCall, Call

LEMMA TakesType ==
    ASSUME replies \in [Windows -> Seq(Reply)], NEW w \in Windows, NEW op,
           Takes(w, op)
    PROVE  /\ replies' \in [Windows -> Seq(Reply)]
           /\ Head(replies[w]).job \in Jobs \cup {None}
<1>1. replies[w] \in Seq(Reply) /\ replies[w] # <<>>
  BY DEF Takes
<1>2. Tail(replies[w]) \in Seq(Reply) /\ Head(replies[w]) \in Reply
  BY <1>1
<1> QED BY <1>2 DEF Takes, Reply

LEMMA DeliverKeeps ==
    ASSUME Inv, NEW j \in Jobs, Deliver(j)
    PROVE  Inv'
<1> DEFINE w == job[j].win
           e == Head(job[j].events)
           i == IF e = "complete" THEN j ELSE page[w].id
           r == [job[j] EXCEPT !.events = Tail(@)]
<1>1. job[j].events \in Seq(Events) /\ job[j].events # <<>>
  BY DEF Inv, Types, Job, Deliver
<1>2. Tail(job[j].events) \in Seq(Events) /\ e \in Events
  BY <1>1
<1>3. r \in Job /\ Same(r, job[j])
  BY <1>2, EventsIs DEF Inv, Types
<1>4. page' \in [Windows -> Page]
  <2>1. CASE w \in Windows
    <3>1. page[w] \in Page /\ i \in Jobs \cup {None}
      BY <2>1 DEF Inv, Types, Page
    <3>2. e \in Statuses
      BY <1>2 DEF Events, Statuses
    <3>3. Shows(w, [page[w] EXCEPT !.status = e, !.id = i])
      BY DEF Deliver
    <3> HIDE DEF e, i
    <3> QED BY <2>1, <3>1, <3>2, <3>3, StatusIdType, ShowsType DEF Inv, Types
  <2>2. CASE w \notin Windows
    BY <2>2 DEF Deliver, Shows, Inv, Types
  <2> QED BY <2>1, <2>2
<1>5. Outer' /\ UNCHANGED <<registry, session, main, active>>
  BY <1>4, OuterNow DEF Deliver, Outer
<1> QED BY <1>3, <1>5, QuietJobKeeps DEF Deliver

\* What the page still has to come from a channel is dropped.
LEMMA TurnedAwayIs ==
    ASSUME Inv, NEW w
    PROVE  /\ TurnedAway(w) \in [Jobs -> Job]
           /\ \A k \in Jobs : Same(TurnedAway(w)[k], job[k])
<1>1. <<>> \in Seq(Events)
  OBVIOUS
<1>2. ASSUME NEW k \in Jobs
      PROVE  TurnedAway(w)[k] \in Job /\ Same(TurnedAway(w)[k], job[k])
  <2>1. job[k] \in Job
    BY DEF Inv, Types
  <2>2. [job[k] EXCEPT !.events = <<>>] \in Job
        /\ Same([job[k] EXCEPT !.events = <<>>], job[k])
    BY <1>1, <2>1, EventsIs
  <2> QED BY <2>1, <2>2 DEF TurnedAway, Same, Alike, WorkerGoes
<1>3. TurnedAway(w) = [k \in Jobs |-> TurnedAway(w)[k]]
  BY DEF TurnedAway
<1> QED BY <1>2, <1>3

LEMMA TurnedAwayKeeps ==
    ASSUME Inv, NEW w \in Windows, job' = TurnedAway(w), Outer',
           UNCHANGED <<registry, session, main, active>>
    PROVE  Inv'
<1>1. job' \in [Jobs -> Job] /\ \A k \in Jobs : Same(job'[k], job[k])
  BY TurnedAwayIs
<1>2. Types'
  BY <1>1 DEF Inv, Types, Outer
<1> QED BY <1>1, <1>2, QuietKeeps

LEMMA SameJobsKeep ==
    ASSUME Inv, Outer', UNCHANGED <<job, registry, session, main, active>>
    PROVE  Inv'
<1>1. \A k \in Jobs : Same(job'[k], job[k])
  BY DEF Same, Alike, WorkerGoes
<1>2. Types'
  BY DEF Inv, Types, Outer
<1> QED BY <1>1, <1>2, QuietKeeps

-----------------------------------------------------------------------------
(***************************************************************************)
(* The page and the world                                                  *)
(***************************************************************************)

LEMMA AskStartKeeps ==
    ASSUME Inv, NEW w \in Windows, AskStart(w)
    PROVE  Inv'
<1>1. PICK j \in Jobs :
        /\ job[j].stage = "none"
        /\ job' = [TurnedAway(w) EXCEPT ![j] =
                      [Goto(Fresh, "asked") EXCEPT !.win = w]]
        /\ Shows(w, [page[w] EXCEPT !.status = "running", !.gen = j, !.id = None])
        /\ Issue(w, "start", j)
  BY DEF AskStart
<1> DEFINE r == [Goto(Fresh, "asked") EXCEPT !.win = w]
<1>2. r \in Job /\ r.win = w /\ r.stage = "asked" /\ ~r.temp /\ ~r.completed
      /\ r.worker = "none"
  BY FreshIs
<1>3. /\ TurnedAway(w) \in [Jobs -> Job]
      /\ \A k \in Jobs : Same(TurnedAway(w)[k], job[k])
  BY TurnedAwayIs
<1>4. job' = [TurnedAway(w) EXCEPT ![j] = r]
  BY <1>1
<1> HIDE DEF r
<1>5. /\ job' \in [Jobs -> Job] /\ job'[j] = r
      /\ \A k \in Jobs : k # j => Same(job'[k], job[k])
  BY <1>2, <1>3, <1>4
<1>6. UNCHANGED <<source, edits, session, registry, active, main, replies>>
  BY DEF AskStart
<1>7. Types'
  <2>1. page[w] \in Page
    BY DEF Inv, Types
  <2>2. [page[w] EXCEPT !.status = "running", !.gen = j, !.id = None] \in Page
    BY <2>1, StatusGenIdType DEF Statuses
  <2>3. page' \in [Windows -> Page]
    BY <1>1, <2>2, ShowsType DEF Inv, Types
  <2>4. calls' \in [Windows -> Seq(Call)]
    BY <1>1, IssueType DEF Inv, Types
  <2> QED BY <1>5, <1>6, <2>3, <2>4 DEF Inv, Types
<1>8. GateIsExact'
  <2>1. \A k \in Jobs : (k \in Permits)' <=> k \in Permits
    BY <1>1, <1>2, <1>5 DEF Permits, Same, Alike, WorkerGoes
  <2> QED BY <1>6, <2>1, GateKeeps DEF Inv
<1>9. ASSUME NEW k \in Jobs PROVE Tracked(k)'
  <2>1. Tracked(k)
    BY DEF Inv
  <2>2. CASE k # j
    <3>1. (Doomed(k)' <=> Doomed(k)) /\ (Evicted(k)' <=> Evicted(k))
      BY <1>5, <1>6, <2>2 DEF Doomed, Evicted, Same, Alike, WorkerGoes
    <3> QED BY <1>5, <1>6, <2>1, <2>2, <3>1, TrackedKeeps DEF Tracked
  <2>3. CASE k = j
    BY <1>1, <1>2, <1>5, <1>6, <2>1, <2>3
       DEF Tracked, Early, Settled, Attended, Quiet
  <2> QED BY <2>2, <2>3
<1>10. \A k \in registry : job'[k].win = job[k].win
  BY <1>1, <1>5 DEF Inv, Types, Tracked, Same, Alike, WorkerGoes
<1>11. OneJobPerWindow'
  BY <1>6, <1>10, OneJobKeeps DEF Inv
<1>12. MainFits'
  BY <1>1, <1>5, <1>6, FitsKeeps DEF Inv, Same, Alike, WorkerGoes
<1> QED BY <1>7, <1>8, <1>9, <1>11, <1>12 DEF Inv

LEMMA AskCancelKeeps ==
    ASSUME Inv, NEW w \in Windows, AskCancel(w)
    PROVE  Inv'
<1>1. page[w] \in Page /\ page[w].id \in Jobs \cup {None}
  BY DEF Inv, Types, Page
<1>2. page' \in [Windows -> Page]
  <2>1. [page[w] EXCEPT !.status = "cancelled", !.gen = None] \in Page
    BY <1>1, StatusGenType DEF Statuses
  <2> QED BY <2>1, ShowsType DEF AskCancel, Inv, Types
<1>3. calls' \in [Windows -> Seq(Call)]
  BY <1>1, IssueType DEF AskCancel, Inv, Types
<1>4. Outer' /\ UNCHANGED <<registry, session, main, active>>
  BY <1>2, <1>3, OuterNow DEF AskCancel, PageOnly, Outer
<1> QED BY <1>4, TurnedAwayKeeps DEF AskCancel

LEMMA AskCheckKeeps ==
    ASSUME Inv, NEW w \in Windows, AskCheck(w)
    PROVE  Inv'
<1>1. page[w].id \in Jobs \cup {None}
  BY DEF Inv, Types, Page
<1>2. calls' \in [Windows -> Seq(Call)]
  BY <1>1, IssueType DEF AskCheck, Inv, Types
<1> QED BY <1>2, OuterNow, SameJobsKeep DEF AskCheck, BackOnly, PageOnly, Outer

LEMMA AskSaveKeeps ==
    ASSUME Inv, NEW w \in Windows, AskSave(w)
    PROVE  Inv'
<1>1. page[w] \in Page /\ page[w].id \in Jobs \cup {None}
  BY DEF Inv, Types, Page
<1>2. calls' \in [Windows -> Seq(Call)]
  BY <1>1, IssueType DEF AskSave, Inv, Types
<1>3. page' \in [Windows -> Page]
  <2>1. [page[w] EXCEPT !.acting = TRUE] \in Page
    BY <1>1, ActingType
  <2> QED BY <2>1, ShowsType DEF AskSave, Inv, Types
<1> QED BY <1>2, <1>3, OuterNow, SameJobsKeep
        DEF AskSave, BackOnly, PageOnly, Outer

LEMMA CloseKeeps ==
    ASSUME Inv, NEW w \in Windows, Close(w)
    PROVE  Inv'
<1>1. page' \in [Windows -> Page]
  <2>1. page[w] \in Page
    BY DEF Inv, Types
  <2>2. [page[w] EXCEPT !.status = "closed", !.gen = None] \in Page
    BY <2>1, StatusGenType DEF Statuses
  <2> QED BY <2>2, ShowsType DEF Close, Inv, Types
<1>2. calls' \in [Windows -> Seq(Call)]
  <2>1. [op |-> "close", job |-> None] \in Call
    BY DEF Call
  <2>2. <<[op |-> "close", job |-> None]>> \in Seq(Call)
    BY <2>1
  <2> QED BY <2>2 DEF Close, Inv, Types
<1>3. replies' \in [Windows -> Seq(Reply)]
  <2>1. <<>> \in Seq(Reply)
    OBVIOUS
  <2> QED BY <2>1 DEF Close, Inv, Types
<1>4. Outer' /\ UNCHANGED <<registry, session, main, active>>
  BY <1>1, <1>2, <1>3, OuterNow DEF Close, PageOnly, Outer
<1> QED BY <1>4, TurnedAwayKeeps DEF Close

LEMMA StartedKeeps ==
    ASSUME Inv, NEW w \in Windows, Started(w)
    PROVE  Inv'
<1> DEFINE j == Head(replies[w]).job
<1>1. replies' \in [Windows -> Seq(Reply)] /\ j \in Jobs \cup {None}
  BY TakesType DEF Started, Inv, Types
<1>2. page[w] \in Page
  BY DEF Inv, Types
<1>3. calls' \in [Windows -> Seq(Call)]
  <2>1. calls' = calls \/ Issue(w, "cancel", j)
    BY DEF Started
  <2> QED BY <1>1, <2>1, IssueType DEF Inv, Types
<1>4. page' \in [Windows -> Page]
  <2>1. [page[w] EXCEPT !.id = j] \in Page
    BY <1>1, <1>2, IdType
  <2>2. [page[w] EXCEPT !.status = "error"] \in Page
    BY <1>2, StatusType DEF Statuses
  <2>3. \/ page' = page \/ Shows(w, [page[w] EXCEPT !.id = j])
        \/ Shows(w, [page[w] EXCEPT !.status = "error"])
    BY DEF Started
  <2> QED BY <2>1, <2>2, <2>3, ShowsType DEF Inv, Types
<1> QED BY <1>1, <1>3, <1>4, OuterNow, SameJobsKeep
        DEF Started, Takes, PageOnly, Outer

LEMMA CheckedKeeps ==
    ASSUME Inv, NEW w \in Windows, Checked(w)
    PROVE  Inv'
<1>1. replies' \in [Windows -> Seq(Reply)]
  BY TakesType DEF Checked, Inv, Types
<1>2. page' \in [Windows -> Page]
  <2>1. page[w] \in Page
    BY DEF Inv, Types
  <2>2. [page[w] EXCEPT !.status = "stale"] \in Page
    BY <2>1, StatusType DEF Statuses
  <2> QED BY <2>2, ShowsType DEF Checked, Inv, Types
<1> QED BY <1>1, <1>2, OuterNow, SameJobsKeep
        DEF Checked, Takes, PageOnly, Outer

LEMMA SavedCopyKeeps ==
    ASSUME Inv, NEW w \in Windows, SavedCopy(w)
    PROVE  Inv'
<1> DEFINE p == [page[w] EXCEPT !.acting = FALSE]
<1>1. replies' \in [Windows -> Seq(Reply)]
  BY TakesType DEF SavedCopy, Inv, Types
<1>2. p \in Page
  BY ActingType DEF Inv, Types
<1>3. \/ /\ Shows(w, [p EXCEPT !.status = "left", !.gen = None])
         /\ job' = TurnedAway(w)
      \/ Shows(w, [p EXCEPT !.status = "stale"]) /\ UNCHANGED job
      \/ Shows(w, p) /\ UNCHANGED job
  BY DEF SavedCopy
<1>4. calls' = calls /\ Takes(w, "save")
  BY DEF SavedCopy
<1> HIDE DEF p
<1>5. page' \in [Windows -> Page]
  <2>1. [p EXCEPT !.status = "left", !.gen = None] \in Page
    BY <1>2, StatusGenType DEF Statuses
  <2>2. [p EXCEPT !.status = "stale"] \in Page
    BY <1>2, StatusType DEF Statuses
  <2> QED BY <1>2, <1>3, <2>1, <2>2, ShowsType DEF Inv, Types
<1>6. Outer' /\ UNCHANGED <<registry, session, main, active>>
  BY <1>1, <1>4, <1>5, OuterNow DEF Takes, PageOnly, Outer
<1> QED BY <1>3, <1>6, TurnedAwayKeeps, SameJobsKeep

LEMMA LookForEditorKeeps ==
    ASSUME Inv, NEW w \in Windows, LookForEditor(w)
    PROVE  Inv'
<1>1. PICK j \in OfWindow(w) : Becomes(j, Compared(j))
  BY DEF LookForEditor
<1>2. j \in Jobs
  BY DEF OfWindow, Inv, Types
<1>3. Compared(j) \in Job /\ Same(Compared(j), job[j])
  BY <1>2, ComparedIs DEF Inv, Types
<1>4. Outer' /\ UNCHANGED <<registry, session, main, active>>
  BY OuterNow DEF LookForEditor, pageVars, Outer
<1> QED BY <1>1, <1>2, <1>3, <1>4, QuietJobKeeps

LEMMA OutsideKeeps ==
    ASSUME Inv, NEW w \in Windows, Outside(w)
    PROVE  Inv'
<1>1. ASSUME NEW k \in Jobs
      PROVE  job'[k] \in Job /\ Same(job'[k], job[k])
  <2>1. [job[k] EXCEPT !.watch = "due"] \in Job
        /\ Same([job[k] EXCEPT !.watch = "due"], job[k])
    BY WatchIs DEF Inv, Types
  <2> QED BY <2>1 DEF Outside, Inv, Types, Same, Alike, WorkerGoes
<1>2. job' \in [Jobs -> Job]
  BY <1>1 DEF Outside
<1>3. edits[w] \in Nat /\ edits[w] + 1 \in Revisions
  BY MaxEditsAssumption DEF Outside, Inv, Types, Revisions
<1>4. /\ source' \in [Windows -> Revisions \cup {Missing}]
      /\ edits' \in [Windows -> Revisions]
  BY <1>3 DEF Outside, Inv, Types
<1>5. Types' /\ UNCHANGED <<registry, session, main, active>>
  BY <1>2, <1>4 DEF Inv, Types, Outside, pageVars
<1> QED BY <1>1, <1>5, QuietKeeps

-----------------------------------------------------------------------------
(***************************************************************************)
(* The main thread                                                         *)
(***************************************************************************)

\* The main thread has no job left to cancel, before and after the step.
Calm == main.left = {} /\ main.cur = None

LEMMA CalmKeeps ==
    ASSUME Inv, Types', MainFits', Calm, Calm',
           UNCHANGED <<registry, session, active>>,
           \A k \in Jobs : Same(job'[k], job[k])
    PROVE  Inv'
<1>1. GateIsExact'
  BY GateKeeps DEF Inv, Permits, Same, Alike, WorkerGoes
<1>2. ASSUME NEW k \in Jobs PROVE Tracked(k)'
  <2>1. Tracked(k) /\ Same(job'[k], job[k])
    BY DEF Inv
  <2>2. Doomed(k) => Doomed(k)'
    BY <2>1 DEF Doomed, Calm, Same, Alike, WorkerGoes
  <2>3. ~Evicted(k)
    BY NoneAssumption DEF Evicted, Calm
  <2> QED BY <2>1, <2>2, <2>3, TrackedKeeps DEF Tracked
<1>3. OneJobPerWindow'
  BY OneJobKeeps DEF Inv, Types, Same, Alike, WorkerGoes
<1> QED BY <1>1, <1>2, <1>3 DEF Inv

LEMMA IdleIs ==
    /\ Idle \in Main /\ Idle.op = "idle" /\ Idle.at = "idle"
    /\ Idle.left = {} /\ Idle.cur = None
BY DEF Idle, Main

LEMMA IdleFits ==
    ASSUME main' = Idle
    PROVE  MainFits' /\ Calm'
BY IdleIs DEF MainFits, SavedIsCurrent, Calm

LEMMA IdleIsCalm ==
    ASSUME main = Idle
    PROVE  Calm
BY IdleIs DEF Calm

LEMMA AtIs ==
    ASSUME NEW m \in Main,
           NEW a \in {"idle", "flag", "kill", "dialog", "stage", "gate", "rename"}
    PROVE  /\ [m EXCEPT !.at = a] \in Main
           /\ [m EXCEPT !.at = a].at = a
           /\ [m EXCEPT !.at = a].op = m.op
           /\ [m EXCEPT !.at = a].win = m.win
           /\ [m EXCEPT !.at = a].job = m.job
           /\ [m EXCEPT !.at = a].left = m.left
           /\ [m EXCEPT !.at = a].cur = m.cur
BY DEF Main

\* The call that is about to be taken.
LEMMA CallTaken ==
    ASSUME Inv, NEW w \in Windows, NEW op, TakesCall(w, op)
    PROVE  /\ main = Idle /\ Calm
           /\ calls' \in [Windows -> Seq(Call)]
           /\ Head(calls[w]).job \in Jobs \cup {None}
BY TakesCallType, IdleIsCalm DEF Inv, Types, TakesCall

LEMMA CancellingIs ==
    ASSUME NEW w \in Windows, NEW op \in {"start", "cancel", "close"},
           NEW j \in Jobs \cup {None}, NEW left \in SUBSET Jobs,
           Cancelling(op, w, j, left)
    PROVE  /\ main' \in Main
           /\ main'.op = op /\ main'.at = "flag" /\ main'.win = w
           /\ main'.job = j /\ main'.left = left /\ main'.cur = None
BY DEF Cancelling, Idle, Main

LEMMA TakeCheckKeeps ==
    ASSUME Inv, NEW w \in Windows, TakeCheck(w)
    PROVE  Inv'
<1> DEFINE j == Head(calls[w]).job
<1>1. TakesCall(w, "check")
  BY DEF TakeCheck
<1>2. calls' \in [Windows -> Seq(Call)] /\ j \in Jobs \cup {None}
  BY <1>1, CallTaken
<1>3. /\ UNCHANGED <<source, edits, session, registry, active, main, page>>
      /\ \/ /\ Known(w, j) /\ Becomes(j, Compared(j))
            /\ Answer(w, "check", j, IF Current(j) THEN "ok" ELSE "stale")
         \/ Answer(w, "check", j, "failed") /\ UNCHANGED job
  BY DEF TakeCheck
<1> HIDE DEF j
<1>4. CASE /\ Known(w, j) /\ Becomes(j, Compared(j))
           /\ Answer(w, "check", j, IF Current(j) THEN "ok" ELSE "stale")
  <2>1. j \in Jobs
    BY <1>4 DEF Known, OfWindow, Inv, Types
  <2>2. Compared(j) \in Job /\ Same(Compared(j), job[j])
    BY <2>1, ComparedIs DEF Inv, Types
  <2>3. replies' \in [Windows -> Seq(Reply)]
    BY <1>2, <1>4, AnswerType DEF Inv, Types
  <2>4. Outer'
    BY <1>2, <1>3, <2>3, OuterNow DEF Outer
  <2> QED BY <1>3, <1>4, <2>1, <2>2, <2>4, QuietJobKeeps
<1>5. CASE Answer(w, "check", j, "failed") /\ UNCHANGED job
  <2>1. replies' \in [Windows -> Seq(Reply)]
    BY <1>2, <1>5, AnswerType DEF Inv, Types
  <2>2. Outer'
    BY <1>2, <1>3, <2>1, OuterNow DEF Outer
  <2> QED BY <1>3, <1>5, <2>2, SameJobsKeep
<1> QED BY <1>3, <1>4, <1>5

\* Between two looks at the source, a job may become stale.
LEMMA StaleStep ==
    ASSUME Inv, NEW j \in Jobs, NEW r \in Job, Same(r, job[j]), Becomes(j, r)
    PROVE  job' \in [Jobs -> Job] /\ \A k \in Jobs : Same(job'[k], job[k])
<1>1. /\ job' \in [Jobs -> Job] /\ job'[j] = r
      /\ \A k \in Jobs : k # j => job'[k] = job[k]
  BY BecomesIs DEF Inv, Types
<1> QED BY <1>1 DEF Same, Alike, WorkerGoes

LEMMA TakeSaveKeeps ==
    ASSUME Inv, NEW w \in Windows, TakeSave(w)
    PROVE  Inv'
<1> DEFINE j == Head(calls[w]).job
           verdict == Verdict(w, j)
           r == IF verdict = "stale" THEN MarkStale(j, job[j]) ELSE job[j]
<1>1. TakesCall(w, "save")
  BY DEF TakeSave
<1>2. /\ calls' \in [Windows -> Seq(Call)] /\ j \in Jobs \cup {None}
      /\ main = Idle /\ Calm
  BY <1>1, CallTaken
<1>3. /\ UNCHANGED <<source, edits, session, registry, active, page>>
      /\ Becomes(j, r)
      /\ \/ /\ verdict = "ok" /\ UNCHANGED replies
            /\ main' = [Idle EXCEPT !.op = "save", !.at = "dialog", !.win = w,
                                    !.job = j]
         \/ /\ verdict # "ok" /\ UNCHANGED main
            /\ Answer(w, "save", j, verdict)
  BY DEF TakeSave
<1>4. verdict \in {"ok", "stale", "failed"}
  BY DEF Verdict, Refusal
<1>5. job' \in [Jobs -> Job] /\ \A k \in Jobs : Same(job'[k], job[k])
  <2>1. CASE j \in Jobs
    <3>1. r \in Job /\ Same(r, job[j])
      BY <2>1, MarkStaleIs DEF Inv, Types, Same, Alike, WorkerGoes
    <3> QED BY <1>3, <2>1, <3>1, StaleStep
  <2>2. CASE j \notin Jobs
    <3>1. job' = job
      BY <1>3, <2>2 DEF Becomes, Inv, Types
    <3> QED BY <3>1 DEF Inv, Types, Same, Alike, WorkerGoes
  <2> QED BY <2>1, <2>2
<1>6. CASE /\ verdict = "ok" /\ UNCHANGED replies
           /\ main' = [Idle EXCEPT !.op = "save", !.at = "dialog", !.win = w,
                                   !.job = j]
  <2>1. j \in registry /\ job[j].win = w /\ job[j].completed /\ j \in Jobs
    BY <1>6 DEF Verdict, Known, OfWindow, Inv, Types
  <2>2. /\ main' \in Main /\ main'.op = "save" /\ main'.at = "dialog"
        /\ main'.win = w /\ main'.job = j /\ main'.left = {} /\ main'.cur = None
    BY <1>6, <2>1 DEF Idle, Main
  <2>3. job[j].stage \in Settled
    BY <2>1 DEF Inv, Tracked
  <2>4. /\ job'[j].win = w /\ job'[j].stage \in Settled
        /\ \A k \in registry : job'[k].win = job[k].win
    BY <1>5, <2>1, <2>3 DEF Same, Alike, WorkerGoes, Inv, Types
  <2>5. \A k \in registry' : job'[k].win = w => k = j
    BY <1>3, <2>1, <2>4 DEF Inv, OneJobPerWindow
  <2>6. MainFits'
    BY <2>1, <2>2, <2>4, <2>5 DEF MainFits, SavedIsCurrent
  <2>7. Types'
    BY <1>2, <1>3, <1>5, <1>6, <2>2 DEF Inv, Types
  <2>8. Calm'
    BY <2>2 DEF Calm
  <2> QED BY <1>2, <1>3, <1>5, <2>6, <2>7, <2>8, CalmKeeps
<1>7. CASE /\ verdict # "ok" /\ UNCHANGED main
           /\ Answer(w, "save", j, verdict)
  <2>1. replies' \in [Windows -> Seq(Reply)]
    <3> HIDE DEF j, verdict
    <3> QED BY <1>2, <1>4, <1>7, AnswerType DEF Inv, Types
  <2>2. Types'
    BY <1>2, <1>3, <1>5, <1>7, <2>1 DEF Inv, Types
  <2>3. main' = Idle
    BY <1>2, <1>7
  <2> QED BY <1>2, <1>3, <1>5, <2>2, <2>3, IdleFits, CalmKeeps
<1> QED BY <1>3, <1>6, <1>7

\* A save the main thread is in.
LEMMA Saving ==
    ASSUME Inv, main.at \in {"dialog", "stage", "gate", "rename"}
    PROVE  /\ main \in Main /\ Calm /\ main.op = "save"
           /\ main.win \in Windows /\ main.job \in Jobs
           /\ job[main.job].win = main.win /\ job[main.job].stage \in Settled
           /\ \A j \in registry : job[j].win = main.win => j = main.job
BY DEF Inv, Types, MainFits, Calm

LEMMA SaveGoesOn ==
    ASSUME Inv, main.at \in {"dialog", "stage", "gate", "rename"}, Types',
           main'.at \in {"dialog", "stage", "gate", "rename"},
           main'.op = main.op, main'.win = main.win, main'.job = main.job,
           main'.left = main.left, main'.cur = main.cur,
           UNCHANGED <<job, registry, session, active>>,
           main'.at = "rename" => job[main.job].revision = main'.seen
    PROVE  Inv'
<1>1. Calm /\ Calm'
  BY Saving DEF Calm
<1>2. MainFits'
  <2>1. SavedIsCurrent'
    BY DEF SavedIsCurrent
  <2>2. main'.op = "save"
    BY Saving
  <2> QED BY <1>1, <2>1, <2>2, Saving DEF MainFits, Calm
<1>3. \A k \in Jobs : Same(job'[k], job[k])
  BY DEF Same, Alike, WorkerGoes
<1> QED BY <1>1, <1>2, <1>3, CalmKeeps

\* A save that ends without a copy, whether or not the job became stale.
LEMMA SaveGivesUp ==
    ASSUME Inv, main.at \in {"dialog", "stage", "gate", "rename"},
           NEW res \in {"ok", "stale", "failed", "dismissed"}, Reported(res),
           job' = job \/ Becomes(main.job, Compared(main.job)),
           UNCHANGED <<source, edits, session, registry, active, page, calls>>
    PROVE  Inv'
<1>1. Calm /\ main.win \in Windows /\ main.job \in Jobs
  BY Saving
<1>2. job' \in [Jobs -> Job] /\ \A k \in Jobs : Same(job'[k], job[k])
  <2>1. CASE job' = job
    BY <2>1 DEF Same, Alike, WorkerGoes, Inv, Types
  <2>2. CASE Becomes(main.job, Compared(main.job))
    BY <1>1, <2>2, ComparedIs, StaleStep DEF Inv, Types
  <2> QED BY <2>1, <2>2
<1>3. replies' \in [Windows -> Seq(Reply)] /\ main' = Idle
  BY <1>1, AnswerType DEF Reported, Finish, Inv, Types
<1>4. Types'
  BY <1>2, <1>3, IdleIs DEF Inv, Types
<1> QED BY <1>1, <1>2, <1>3, <1>4, IdleFits, CalmKeeps

LEMMA PickedKeeps ==
    ASSUME Inv, Picked
    PROVE  Inv'
<1>1. main.at = "dialog" /\ main \in Main
      /\ UNCHANGED <<source, edits, session, registry, active, page, calls>>
  BY DEF Picked, Inv, Types
<1>2. CASE Reported("dismissed") /\ UNCHANGED job
  BY <1>1, <1>2, SaveGivesUp
<1>3. CASE main' = [main EXCEPT !.at = "stage"] /\ UNCHANGED <<replies, job>>
  <2>1. Types'
    BY <1>1, <1>3, AtIs DEF Inv, Types
  <2> QED BY <1>1, <1>3, <2>1, AtIs, SaveGoesOn
<1>4. CASE /\ Becomes(main.job, Compared(main.job))
           /\ Reported(Refusal(main.job))
  <2>1. Refusal(main.job) \in {"ok", "stale", "failed", "dismissed"}
    BY DEF Refusal
  <2> QED BY <1>1, <1>4, <2>1, SaveGivesUp
<1> QED BY <1>2, <1>3, <1>4 DEF Picked

LEMMA StagedKeeps ==
    ASSUME Inv, Staged
    PROVE  Inv'
<1>1. main.at = "stage" /\ main \in Main
      /\ UNCHANGED <<source, edits, session, job, registry, active, page, calls>>
  BY DEF Staged, backVars, Inv, Types
<1>2. CASE Reported("failed")
  BY <1>1, <1>2, SaveGivesUp
<1>3. CASE main' = [main EXCEPT !.at = "gate"] /\ UNCHANGED replies
  <2>1. Types'
    BY <1>1, <1>3, AtIs DEF Inv, Types
  <2> QED BY <1>1, <1>3, <2>1, AtIs, SaveGoesOn
<1> QED BY <1>2, <1>3 DEF Staged

LEMMA GateKeepsInv ==
    ASSUME Inv, Gate
    PROVE  Inv'
<1>1. main.at = "gate" /\ main \in Main
      /\ UNCHANGED <<source, edits, session, registry, active, page, calls>>
  BY DEF Gate, Inv, Types
<1>2. CASE Current(main.job) /\ main' = Gated /\ UNCHANGED <<replies, job>>
  <2>1. source[main.win] \in Revisions \cup {Missing, None}
    BY <1>1, Saving DEF Inv, Types
  <2>2. /\ main' \in Main /\ main'.at = "rename" /\ main'.op = main.op
        /\ main'.win = main.win /\ main'.job = main.job
        /\ main'.left = main.left /\ main'.cur = main.cur
        /\ main'.seen = source[main.win]
    BY <1>1, <1>2, <2>1 DEF Gated, Main
  <2>3. Types'
    BY <1>1, <1>2, <2>2 DEF Inv, Types
  <2>4. job[main.job].revision = main'.seen
    BY <1>1, <1>2, <2>2, Saving DEF Current
  <2> QED BY <1>1, <1>2, <2>2, <2>3, <2>4, SaveGoesOn
<1>3. CASE /\ Becomes(main.job, Compared(main.job))
           /\ Reported(Refusal(main.job))
  <2>1. Refusal(main.job) \in {"ok", "stale", "failed", "dismissed"}
    BY DEF Refusal
  <2> QED BY <1>1, <1>3, <2>1, SaveGivesUp
<1> QED BY <1>2, <1>3 DEF Gate

LEMMA OfWindowIs ==
    ASSUME Inv, NEW w
    PROVE  OfWindow(w) \subseteq registry /\ OfWindow(w) \in SUBSET Jobs
BY DEF OfWindow, Inv, Types

\* What was asked for a window without a document is not begun.
LEMMA RefusedKeeps ==
    ASSUME Inv, NEW j \in Jobs, job[j].stage = "asked",
           Becomes(j, Goto(job[j], "ended")), Types', MainFits', Calm, Calm',
           UNCHANGED <<registry, session, active>>
    PROVE  Inv'
<1> DEFINE r == Goto(job[j], "ended")
<1>1. r \in Job /\ r.stage = "ended" /\ r.win = job[j].win
      /\ r.temp = job[j].temp /\ r.completed = job[j].completed
      /\ r.worker = job[j].worker
  BY GotoIs DEF Stages, Inv, Types
<1>2. Becomes(j, r)
  OBVIOUS
<1> HIDE DEF r
<1>3. /\ job' \in [Jobs -> Job] /\ job'[j] = r
      /\ \A k \in Jobs : k # j => job'[k] = job[k]
  BY <1>1, <1>2, BecomesIs DEF Inv, Types
<1>4. GateIsExact'
  <2>1. \A k \in Jobs : (k \in Permits)' <=> k \in Permits
    BY <1>1, <1>3 DEF Permits
  <2> QED BY <2>1, GateKeeps DEF Inv
<1>5. ASSUME NEW k \in Jobs PROVE Tracked(k)'
  <2>1. Tracked(k)
    BY DEF Inv
  <2>2. CASE k # j
    <3>1. Same(job'[k], job[k]) /\ ~Evicted(k)
      BY <1>3, <2>2, NoneAssumption DEF Same, Alike, WorkerGoes, Evicted, Calm
    <3>2. Doomed(k) => Doomed(k)'
      BY <3>1 DEF Doomed, Calm, Same, Alike, WorkerGoes
    <3> QED BY <2>1, <3>1, <3>2, TrackedKeeps DEF Tracked
  <2>3. CASE k = j
    BY <1>1, <1>3, <2>1, <2>3 DEF Tracked, Early, Settled, Attended, AtWork, Quiet
  <2> QED BY <2>2, <2>3
<1>6. OneJobPerWindow'
  BY <1>1, <1>3, OneJobKeeps DEF Inv, Types
<1> QED BY <1>4, <1>5, <1>6 DEF Inv

\* The jobs of a window leave the registry to be cancelled one by one.
LEMMA EvictionKeeps ==
    ASSUME Inv, NEW w \in Windows, main = Idle, main'.left = OfWindow(w),
           main'.op \in {"start", "close"}, registry' = registry \ OfWindow(w),
           job' = job, active' = active,
           \A v \in Windows : v # w => session'[v] = session[v]
    PROVE  GateIsExact' /\ (\A k \in Jobs : Tracked(k)') /\ OneJobPerWindow'
<1>1. GateIsExact'
  <2>1. \A k \in Jobs : (k \in Permits)' <=> k \in Permits
    BY DEF Permits
  <2> QED BY <2>1, GateKeeps DEF Inv
<1>2. ASSUME NEW k \in Jobs PROVE Tracked(k)'
  <2>1. Tracked(k) /\ main.op = "idle"
    BY IdleIs DEF Inv
  <2>2. CASE k \in OfWindow(w)
    <3>1. k \notin registry' /\ Doomed(k)' /\ Evicted(k)'
      BY <2>2 DEF Doomed, Evicted
    <3> QED BY <2>1, <3>1 DEF Tracked
  <2>3. CASE k \notin OfWindow(w)
    <3>1. k \in registry' <=> k \in registry
      BY <2>3
    <3>2. k \in registry => session'[job[k].win] = "document"
      BY <2>1, <2>3 DEF Tracked, OfWindow
    <3>3. Doomed(k) => Doomed(k)'
      BY <2>1 DEF Doomed
    <3>4. ~Evicted(k) /\ Same(job'[k], job[k])
      BY <2>1 DEF Evicted, Same, Alike, WorkerGoes
    <3> QED BY <2>1, <3>1, <3>2, <3>3, <3>4, TrackedKeeps
  <2> QED BY <2>2, <2>3
<1>3. OneJobPerWindow'
  BY OneJobKeeps DEF Inv
<1> QED BY <1>1, <1>2, <1>3

LEMMA TakeStartKeeps ==
    ASSUME Inv, NEW w \in Windows, TakeStart(w)
    PROVE  Inv'
<1> DEFINE j == Head(calls[w]).job
<1>1. TakesCall(w, "start") /\ UNCHANGED <<source, edits, session, active, page>>
  BY DEF TakeStart
<1>2. /\ calls' \in [Windows -> Seq(Call)]
      /\ main = Idle /\ Calm
  BY <1>1, CallTaken
<1>3. /\ j \in Asked(w)
      /\ \/ /\ session[w] = "document"
            /\ registry' = registry \ OfWindow(w)
            /\ Cancelling("start", w, j, OfWindow(w))
            /\ UNCHANGED <<job, replies>>
         \/ /\ Answer(w, "start", j, "failed")
            /\ Becomes(j, Goto(job[j], "ended"))
            /\ UNCHANGED <<main, registry>>
  BY DEF TakeStart
<1> HIDE DEF j
<1>4. j \in Jobs /\ job[j].stage = "asked" /\ job[j].win = w
  BY <1>3 DEF Asked
<1>5. CASE /\ session[w] = "document"
           /\ registry' = registry \ OfWindow(w)
           /\ Cancelling("start", w, j, OfWindow(w))
           /\ UNCHANGED <<job, replies>>
  <2>1. /\ main' \in Main /\ main'.op = "start" /\ main'.at = "flag"
        /\ main'.win = w /\ main'.job = j /\ main'.left = OfWindow(w)
        /\ main'.cur = None
    BY <1>4, <1>5, OfWindowIs, CancellingIs
  <2>2. GateIsExact' /\ (\A k \in Jobs : Tracked(k)') /\ OneJobPerWindow'
    BY <1>1, <1>2, <1>5, <2>1, EvictionKeeps
  <2>3. Types'
    BY <1>1, <1>2, <1>5, <2>1 DEF Inv, Types
  <2>4. MainFits'
    <3>1. \A k \in registry' : job'[k].win # w
      BY <1>5 DEF OfWindow
    <3> QED BY <1>1, <1>4, <1>5, <2>1, <3>1 DEF MainFits, SavedIsCurrent
  <2> QED BY <2>2, <2>3, <2>4 DEF Inv
<1>6. CASE /\ Answer(w, "start", j, "failed")
           /\ Becomes(j, Goto(job[j], "ended"))
           /\ UNCHANGED <<main, registry>>
  <2>1. replies' \in [Windows -> Seq(Reply)]
    BY <1>4, <1>6, AnswerType DEF Inv, Types
  <2>2. Goto(job[j], "ended") \in Job
    BY <1>4, GotoIs DEF Stages, Inv, Types
  <2>3. job' \in [Jobs -> Job]
    BY <1>4, <1>6, <2>2, BecomesIs DEF Inv, Types
  <2>4. Types'
    BY <1>1, <1>2, <1>6, <2>1, <2>3 DEF Inv, Types
  <2>5. MainFits' /\ Calm'
    BY <1>2, <1>6, IdleFits
  <2> QED BY <1>1, <1>2, <1>4, <1>6, <2>4, <2>5, RefusedKeeps
<1> QED BY <1>3, <1>5, <1>6

LEMMA TakeCancelKeeps ==
    ASSUME Inv, NEW w \in Windows, TakeCancel(w)
    PROVE  Inv'
<1> DEFINE j == Head(calls[w]).job
<1>1. TakesCall(w, "cancel")
      /\ UNCHANGED <<source, edits, session, job, registry, active, page, replies>>
  BY DEF TakeCancel, backVars
<1>2. /\ calls' \in [Windows -> Seq(Call)]
      /\ main = Idle /\ Calm
  BY <1>1, CallTaken
<1>3. \/ Known(w, j) /\ Cancelling("cancel", w, j, {j})
      \/ UNCHANGED main
  BY DEF TakeCancel
<1> HIDE DEF j
<1>4. CASE Known(w, j) /\ Cancelling("cancel", w, j, {j})
  <2>1. j \in Jobs
    BY <1>4 DEF Known, OfWindow, Inv, Types
  <2>2. /\ main' \in Main /\ main'.op = "cancel" /\ main'.at = "flag"
        /\ main'.cur = None
    BY <1>4, <2>1, CancellingIs
  <2>3. Types'
    BY <1>1, <1>2, <2>2 DEF Inv, Types
  <2>4. GateIsExact'
    <3>1. \A k \in Jobs : (k \in Permits)' <=> k \in Permits
      BY <1>1 DEF Permits
    <3> QED BY <1>1, <3>1, GateKeeps DEF Inv
  <2>5. ASSUME NEW k \in Jobs PROVE Tracked(k)'
    <3>1. Tracked(k) /\ ~Evicted(k) /\ (Doomed(k) => Doomed(k)')
      BY <1>1, <1>2, NoneAssumption DEF Inv, Evicted, Doomed, Calm
    <3> QED BY <1>1, <3>1, TrackedKeeps DEF Same, Alike, WorkerGoes, Tracked
  <2>6. OneJobPerWindow'
    BY <1>1, OneJobKeeps DEF Inv
  <2>7. MainFits'
    BY <2>2 DEF MainFits, SavedIsCurrent
  <2> QED BY <2>3, <2>4, <2>5, <2>6, <2>7 DEF Inv
<1>5. CASE UNCHANGED main
  <2>1. Outer'
    BY <1>1, <1>2, OuterNow DEF Outer
  <2> QED BY <1>1, <1>5, <2>1, SameJobsKeep
<1> QED BY <1>3, <1>4, <1>5

LEMMA TakeCloseKeeps ==
    ASSUME Inv, NEW w \in Windows, TakeClose(w)
    PROVE  Inv'
<1>1. /\ TakesCall(w, "close")
      /\ session' = [session EXCEPT ![w] = "gone"]
      /\ registry' = registry \ OfWindow(w)
      /\ Cancelling("close", w, None, OfWindow(w))
      /\ UNCHANGED <<source, edits, job, active, page, replies>>
  BY DEF TakeClose
<1>2. /\ calls' \in [Windows -> Seq(Call)]
      /\ main = Idle /\ Calm
  BY <1>1, CallTaken
<1>3. /\ main' \in Main /\ main'.op = "close" /\ main'.at = "flag"
      /\ main'.left = OfWindow(w) /\ main'.cur = None
  BY <1>1, OfWindowIs, CancellingIs
<1>4. session' \in [Windows -> {"document", "note", "gone"}]
      /\ \A v \in Windows : v # w => session'[v] = session[v]
  BY <1>1 DEF Inv, Types
<1>5. GateIsExact' /\ (\A k \in Jobs : Tracked(k)') /\ OneJobPerWindow'
  BY <1>1, <1>2, <1>3, <1>4, EvictionKeeps
<1>6. Types'
  BY <1>1, <1>2, <1>3, <1>4 DEF Inv, Types
<1>7. MainFits'
  BY <1>3 DEF MainFits, SavedIsCurrent
<1> QED BY <1>5, <1>6, <1>7 DEF Inv

LEMMA FlagKeeps ==
    ASSUME Inv, Flag
    PROVE  Inv'
<1>1. PICK v \in main.left :
        /\ Becomes(v, [job[v] EXCEPT !.cancelled = TRUE])
        /\ main' = [main EXCEPT !.at = "kill", !.left = @ \ {v}, !.cur = v]
  BY DEF Flag
<1> DEFINE r == [job[v] EXCEPT !.cancelled = TRUE]
<1>2. /\ main.at = "flag" /\ main \in Main /\ v \in Jobs /\ main.cur = None
      /\ UNCHANGED <<source, edits, session, registry, active, page, calls, replies>>
  BY DEF Flag, pageVars, Inv, Types, Main, MainFits
<1>3. r \in Job /\ r.win = job[v].win /\ r.stage = job[v].stage
      /\ r.temp = job[v].temp /\ r.completed = job[v].completed
      /\ r.worker = job[v].worker
  BY <1>2, CancelledIs DEF Inv, Types
<1>4. r.cancelled
  BY <1>2, CancelledIs DEF Inv, Types
<1>5. Becomes(v, r)
  BY <1>1
<1> HIDE DEF r
<1>6. /\ job' \in [Jobs -> Job] /\ job'[v] = r
      /\ \A k \in Jobs : k # v => job'[k] = job[k]
  BY <1>2, <1>3, <1>5, BecomesIs DEF Inv, Types
<1>7. /\ main' \in Main /\ main'.at = "kill" /\ main'.left = main.left \ {v}
      /\ main'.cur = v /\ main'.op = main.op /\ main'.win = main.win
      /\ main'.job = main.job
  BY <1>1, <1>2 DEF Main
<1>8. Types'
  BY <1>2, <1>6, <1>7 DEF Inv, Types
<1>9. GateIsExact'
  <2>1. \A k \in Jobs : (k \in Permits)' <=> k \in Permits
    BY <1>3, <1>6 DEF Permits
  <2> QED BY <1>2, <2>1, GateKeeps DEF Inv
<1>10. ASSUME NEW k \in Jobs PROVE Tracked(k)'
  <2>1. Tracked(k)
    BY DEF Inv
  <2>2. Evicted(k) => Evicted(k)'
    BY <1>2, <1>7, NoneAssumption DEF Evicted
  <2>3. CASE k # v
    <3>1. Doomed(k) => Doomed(k)'
      BY <1>6, <1>7, <2>3 DEF Doomed
    <3> QED BY <1>2, <1>6, <2>1, <2>2, <2>3, <3>1, TrackedKeeps DEF Same, Alike, WorkerGoes, Tracked
  <2>4. CASE k = v
    <3>1. Doomed(k)'
      BY <1>4, <1>6, <2>4 DEF Doomed
    <3> QED BY <1>2, <1>3, <1>4, <1>6, <2>1, <2>2, <2>4, <3>1
            DEF Tracked, Attended, Dying
  <2> QED BY <2>3, <2>4
<1>11. OneJobPerWindow'
  BY <1>2, <1>3, <1>6, OneJobKeeps DEF Inv, Types
<1>12. MainFits'
  <2>1. main.op \in {"start", "cancel", "close"}
    BY <1>2 DEF Inv, MainFits
  <2>2. main.op = "start" =>
          /\ main.win \in Windows /\ session'[main.win] = "document"
          /\ main.job \in Jobs
          /\ job'[main.job].stage = "asked" /\ job'[main.job].win = main.win
          /\ \A j \in registry' : job'[j].win # main.win
    BY <1>2, <1>3, <1>6 DEF Inv, Types, MainFits
  <2> QED BY <1>2, <1>7, <2>1, <2>2 DEF MainFits, SavedIsCurrent
<1> QED BY <1>8, <1>9, <1>10, <1>11, <1>12 DEF Inv

\* A job whose directory the main thread removes, if it can.
LEMMA RemovedIs ==
    ASSUME NEW j, NEW r \in Job, NEW after \in Removed(j, r)
    PROVE  /\ after \in Job /\ after.win = r.win /\ after.stage = r.stage
           /\ after.completed => r.completed
           /\ after.worker = r.worker
           /\ after.temp => r.temp /\ (InUse(j) \/ Dying(r))
           /\ after.temp /\ r.stage = "ended" => Dying(r)
           /\ r.stage # "ended" => after.cancelled = r.cancelled
<1>1. CASE r.stage = "ended"
  <2>1. PICK t \in Left(r, Dying(r)) : after = Dropped(r, t)
    BY <1>1 DEF Removed
  <2>2. t \in BOOLEAN /\ (t => r.temp /\ Dying(r))
    BY DEF Left, Dying
  <2> QED BY <1>1, <2>1, <2>2, DroppedIs
<1>2. CASE r.stage # "ended"
  <2>1. PICK t \in Left(r, InUse(j) \/ Dying(r)) : after = [r EXCEPT !.temp = t]
    BY <1>2 DEF Removed
  <2>2. t \in BOOLEAN
    BY DEF Left
  <2>3. t => r.temp /\ (InUse(j) \/ Dying(r))
    BY DEF Left
  <2>4. after \in Job /\ after.temp = t /\ after.win = r.win
        /\ after.stage = r.stage /\ after.cancelled = r.cancelled
        /\ after.completed = r.completed /\ after.worker = r.worker
    BY <2>1, <2>2, TempIs
  <2> QED BY <1>2, <2>3, <2>4
<1> QED BY <1>1, <1>2

LEMMA KillChildKeeps ==
    ASSUME Inv, KillChild
    PROVE  Inv'
<1> DEFINE v == main.cur
           r == Settle(v, Kill(job[v]), "cancelled")
<1>1. /\ main.at = "kill" /\ main \in Main /\ v \in Jobs /\ job[v] \in Job
      /\ main.op \in {"start", "cancel", "close"}
      /\ UNCHANGED <<source, edits, session, registry, active, page, calls, replies>>
  BY DEF KillChild, pageVars, Inv, Types, MainFits
<1>2. r \in Job /\ Same(r, job[v]) /\ r.worker # "running"
  <2>1. Kill(job[v]) \in Job /\ Same(Kill(job[v]), job[v])
        /\ Kill(job[v]).worker # "running"
    BY <1>1, KillIs
  <2> QED BY <2>1, SettleIs DEF Same, Alike, WorkerGoes, Events
<1>3. \/ main.op = "cancel" /\ Becomes(v, r)
      \/ main.op # "cancel" /\ \E after \in Removed(v, r) : Becomes(v, after)
  BY DEF KillChild
<1>4. main' = [main EXCEPT !.at = "flag", !.cur = None]
  BY DEF KillChild
<1> HIDE DEF r
<1>5. PICK a \in Job :
        /\ Becomes(v, a) /\ a.win = job[v].win /\ a.stage = job[v].stage
        /\ a.completed => job[v].completed
        /\ a.temp => job[v].temp
        /\ job[v].stage # "ended" => a.cancelled = job[v].cancelled
        /\ WorkerGoes(a, job[v]) /\ a.worker # "running"
        /\ main.op # "cancel" /\ a.temp /\ job[v].stage = "ended" => Dying(a)
  <2>1. CASE main.op = "cancel" /\ Becomes(v, r)
    BY <1>2, <2>1 DEF Same, Alike, WorkerGoes
  <2>2. CASE main.op # "cancel" /\ \E after \in Removed(v, r) : Becomes(v, after)
    <3>1. PICK after \in Removed(v, r) : Becomes(v, after)
      BY <2>2
    <3> QED BY <1>2, <2>2, <3>1, RemovedIs DEF Same, Alike, WorkerGoes, Dying
  <2> QED BY <1>3, <2>1, <2>2
<1>6. /\ job' \in [Jobs -> Job] /\ job'[v] = a
      /\ \A k \in Jobs : k # v => job'[k] = job[k]
  BY <1>1, <1>5, BecomesIs DEF Inv, Types
<1>7. /\ main' \in Main /\ main'.at = "flag" /\ main'.left = main.left
      /\ main'.cur = None /\ main'.op = main.op /\ main'.win = main.win
      /\ main'.job = main.job
  BY <1>1, <1>4 DEF Main
<1> HIDE DEF v
<1>8. Types'
  BY <1>1, <1>6, <1>7 DEF Inv, Types
<1>9. GateIsExact'
  <2>1. \A k \in Jobs : (k \in Permits)' <=> k \in Permits
    BY <1>5, <1>6 DEF Permits
  <2> QED BY <1>1, <2>1, GateKeeps DEF Inv
<1>10. ASSUME NEW k \in Jobs PROVE Tracked(k)'
  <2>1. Tracked(k)
    BY DEF Inv
  <2>2. CASE k # v
    <3>1. (Evicted(k) => Evicted(k)') /\ (Doomed(k) => Doomed(k)')
      BY <1>6, <1>7, <2>2 DEF Evicted, Doomed, v
    <3> QED BY <1>1, <1>6, <2>1, <2>2, <3>1, TrackedKeeps DEF Same, Alike, WorkerGoes, Tracked
  <2>3. CASE k = v
    <3>1. job[k].stage # "ended" => (Doomed(k) => Doomed(k)')
      BY <1>5, <1>6, <1>7, <2>3 DEF Doomed
    <3>2. Attended(a)
      BY <1>5, <2>1, <2>3 DEF Tracked, Attended, WorkerGoes, Dying, AtWork, Quiet
    <3>3. Dying(job[k]) => Dying(a)
      BY <1>5, <2>3 DEF Dying, WorkerGoes
    <3>4. job[k].stage = "ended" /\ k \notin registry /\ a.temp => Dying(a)
      <4>1. main.op = "cancel" => ~Evicted(k)
        BY DEF Evicted
      <4> QED BY <1>5, <2>1, <2>3, <3>3, <4>1 DEF Tracked
    <3>5. k \notin registry' =>
            /\ job'[k].stage \in Early => Doomed(k)'
            /\ job'[k].stage \in {"watching", "completing", "returned"}
                 /\ job'[k].temp => Doomed(k)'
            /\ job'[k].stage = "ended" /\ job'[k].temp => Dying(job[k])'
      BY <1>1, <1>5, <1>6, <2>1, <2>3, <3>1, <3>4
         DEF Tracked, Early, Dying
    <3> QED BY <1>1, <1>5, <1>6, <2>1, <2>3, <3>2, <3>5 DEF Tracked
  <2> QED BY <2>2, <2>3
<1>11. OneJobPerWindow'
  BY <1>1, <1>5, <1>6, OneJobKeeps DEF Inv, Types
<1>12. MainFits'
  <2>0. \A k \in Jobs : job'[k].win = job[k].win /\ job'[k].stage = job[k].stage
    BY <1>5, <1>6
  <2>1. main.op = "start" =>
          /\ main.win \in Windows /\ session'[main.win] = "document"
          /\ main.job \in Jobs
          /\ job'[main.job].stage = "asked" /\ job'[main.job].win = main.win
          /\ \A j \in registry' : job'[j].win # main.win
    BY <1>1, <2>0 DEF Inv, Types, MainFits
  <2> QED BY <1>1, <1>7, <2>1 DEF MainFits, SavedIsCurrent
<1> QED BY <1>8, <1>9, <1>10, <1>11, <1>12 DEF Inv

LEMMA CancelledKeeps ==
    ASSUME Inv, Cancelled
    PROVE  Inv'
<1>1. /\ Calm /\ main' = Idle
      /\ UNCHANGED <<source, edits, session, job, registry, active, page, calls, replies>>
  BY DEF Cancelled, Finish, Calm, backVars, pageVars, Inv, MainFits
<1>2. Types'
  BY <1>1, IdleIs DEF Inv, Types
<1>3. \A k \in Jobs : Same(job'[k], job[k])
  BY <1>1 DEF Same, Alike, WorkerGoes
<1> QED BY <1>1, <1>2, <1>3, IdleFits, CalmKeeps

LEMMA InsertKeeps ==
    ASSUME Inv, Insert
    PROVE  Inv'
<1> DEFINE j == main.job
           w == main.win
<1>1. /\ Calm /\ main' = Idle /\ j \in Jobs /\ w \in Windows
      /\ session[w] = "document" /\ job[j].stage = "asked" /\ job[j].win = w
      /\ \A k \in registry : job[k].win # w
      /\ UNCHANGED <<source, edits, session, active, page, calls>>
  BY DEF Insert, Finish, Calm, Inv, MainFits
<1>2. \/ /\ registry' = registry \cup {j}
         /\ Becomes(j, Goto(job[j], "queued")) /\ Answer(w, "start", j, "ok")
      \/ /\ registry' = registry
         /\ Becomes(j, Goto(job[j], "ended")) /\ Answer(w, "start", j, "failed")
  BY DEF Insert
<1> HIDE DEF j, w
<1>3. replies' \in [Windows -> Seq(Reply)]
  BY <1>1, <1>2, AnswerType DEF Inv, Types
<1>4. MainFits' /\ Calm'
  BY <1>1, IdleFits
<1>5. CASE /\ registry' = registry
           /\ Becomes(j, Goto(job[j], "ended"))
  <2>1. Goto(job[j], "ended") \in Job
    BY <1>1, GotoIs DEF Stages, Inv, Types
  <2>2. job' \in [Jobs -> Job]
    BY <1>1, <1>5, <2>1, BecomesIs DEF Inv, Types
  <2>3. Types'
    BY <1>1, <1>3, <1>5, <2>2, IdleIs DEF Inv, Types
  <2> QED BY <1>1, <1>4, <1>5, <2>3, RefusedKeeps
<1>6. CASE /\ registry' = registry \cup {j}
           /\ Becomes(j, Goto(job[j], "queued"))
  <2> DEFINE r == Goto(job[j], "queued")
  <2>1. r \in Job /\ r.stage = "queued" /\ r.win = w
        /\ (r.temp <=> job[j].temp) /\ (r.completed <=> job[j].completed)
        /\ r.worker = job[j].worker
    BY <1>1, GotoIs DEF Stages, Inv, Types
  <2>2. Becomes(j, r)
    BY <1>6
  <2> HIDE DEF r
  <2>3. /\ job' \in [Jobs -> Job] /\ job'[j] = r
        /\ \A k \in Jobs : k # j => job'[k] = job[k]
    BY <1>1, <2>1, <2>2, BecomesIs DEF Inv, Types
  <2>4. Types'
    BY <1>1, <1>3, <1>6, <2>3, IdleIs DEF Inv, Types
  <2>5. GateIsExact'
    <3>1. \A k \in Jobs : (k \in Permits)' <=> k \in Permits
      BY <1>1, <2>1, <2>3 DEF Permits
    <3> QED BY <1>1, <3>1, GateKeeps DEF Inv
  <2>6. ASSUME NEW k \in Jobs PROVE Tracked(k)'
    <3>1. Tracked(k)
      BY DEF Inv
    <3>2. CASE k # j
      <4>1. Same(job'[k], job[k]) /\ ~Evicted(k)
        BY <1>1, <2>3, <3>2, NoneAssumption DEF Same, Alike, WorkerGoes, Evicted, Calm
      <4>2. Doomed(k) => Doomed(k)'
        BY <1>1, <4>1 DEF Doomed, Calm, Same, Alike, WorkerGoes
      <4> QED BY <1>1, <1>6, <3>1, <3>2, <4>1, <4>2, TrackedKeeps DEF Tracked
    <3>3. CASE k = j
      BY <1>1, <1>6, <2>1, <2>3, <3>1, <3>3
         DEF Tracked, Settled, Attended, AtWork, Quiet
    <3> QED BY <3>2, <3>3
  <2>7. OneJobPerWindow'
    <3>1. j \notin registry
      BY <1>1
    <3>2. \A k \in registry : job'[k].win = job[k].win
      BY <2>3, <3>1 DEF Inv, Types
    <3> QED BY <1>1, <1>6, <2>1, <2>3, <3>2 DEF Inv, OneJobPerWindow
  <2> QED BY <1>4, <2>4, <2>5, <2>6, <2>7 DEF Inv
<1> QED BY <1>2, <1>5, <1>6

LEMMA RenameKeeps ==
    ASSUME Inv, Rename
    PROVE  Inv'
<1> DEFINE j == main.job
           w == main.win
<1>1. /\ main.at = "rename" /\ Calm /\ w \in Windows /\ j \in Jobs
      /\ job[j].win = w /\ job[j].stage \in Settled /\ job[j] \in Job
      /\ \A k \in registry : job[k].win = w => k = j
      /\ UNCHANGED <<source, edits, active, page, calls>>
  BY Saving DEF Rename, Inv, Types
<1>2. CASE Reported("failed") /\ UNCHANGED <<session, registry, job>>
  BY <1>1, <1>2, SaveGivesUp
<1>3. CASE /\ session' = [session EXCEPT ![w] = "note"]
           /\ registry' = registry \ {j}
           /\ \E after \in Removed(j, job[j]) : Becomes(j, after)
           /\ Reported("ok")
  <2>1. PICK r \in Removed(j, job[j]) : Becomes(j, r)
    BY <1>3
  <2> HIDE DEF j, w
  <2>2. ~InUse(j)
    BY <1>1 DEF InUse, Settled
  <2>3. /\ r \in Job /\ r.win = w /\ r.stage = job[j].stage
        /\ r.worker = job[j].worker /\ (r.completed => job[j].completed)
        /\ r.temp => Dying(job[j])
        /\ r.stage # "ended" => r.cancelled = job[j].cancelled
    BY <1>1, <2>2, RemovedIs
  <2>4. /\ job' \in [Jobs -> Job] /\ job'[j] = r
        /\ \A k \in Jobs : k # j => job'[k] = job[k]
    BY <1>1, <2>1, <2>3, BecomesIs DEF Inv, Types
  <2>5. replies' \in [Windows -> Seq(Reply)] /\ main' = Idle
    BY <1>1, <1>3, AnswerType DEF Reported, Finish, Inv, Types, w, j
  <2>6. session' \in [Windows -> {"document", "note", "gone"}]
        /\ \A u \in Windows : u # w => session'[u] = session[u]
    BY <1>3 DEF Inv, Types
  <2>7. Types'
    BY <1>1, <1>3, <2>4, <2>5, <2>6, IdleIs DEF Inv, Types
  <2>8. GateIsExact'
    <3>1. \A k \in Jobs : (k \in Permits)' <=> k \in Permits
      BY <1>1, <2>3, <2>4 DEF Permits
    <3> QED BY <1>1, <3>1, GateKeeps DEF Inv
  <2>9. ASSUME NEW k \in Jobs PROVE Tracked(k)'
    <3>1. Tracked(k)
      BY DEF Inv
    <3>2. CASE k # j
      <4>1. Same(job'[k], job[k]) /\ ~Evicted(k)
        BY <1>1, <2>4, <3>2, NoneAssumption DEF Same, Alike, WorkerGoes, Evicted, Calm
      <4>2. Doomed(k) => Doomed(k)'
        BY <1>1, <4>1 DEF Doomed, Calm, Same, Alike, WorkerGoes
      <4>3. k \in registry => session'[job[k].win] = "document"
        BY <1>1, <2>6, <3>1, <3>2 DEF Tracked
      <4> QED BY <1>3, <3>1, <3>2, <4>1, <4>2, <4>3, TrackedKeeps
    <3>3. CASE k = j
      <4>1. k \notin registry'
        BY <1>3, <3>3
      <4>2. job'[k] = r /\ job[k].stage \in Settled /\ job[k].win = w
        BY <1>1, <2>4, <3>3
      <4>3. Attended(r)
        BY <2>3, <3>1, <3>3, <4>2
           DEF Tracked, Attended, Settled, AtWork, Quiet, Dying
      <4>4. r.temp /\ r.stage # "ended" => r.cancelled
        BY <2>3, <3>1, <3>3, <4>2 DEF Tracked, Attended, Settled, Quiet, Dying
      <4> QED BY <1>1, <2>3, <3>3, <4>1, <4>2, <4>3, <4>4
              DEF Tracked, Early, Settled, Doomed, Dying
    <3> QED BY <3>2, <3>3
  <2>10. OneJobPerWindow'
    BY <1>1, <1>3, <2>3, <2>4, OneJobKeeps DEF Inv, Types
  <2>11. MainFits'
    BY <2>5, IdleFits
  <2> QED BY <2>7, <2>8, <2>9, <2>10, <2>11 DEF Inv
<1> QED BY <1>2, <1>3 DEF Rename

-----------------------------------------------------------------------------
(***************************************************************************)
(* The theorems                                                            *)
(***************************************************************************)

LEMMA InitInv == Init => Inv
<1> SUFFICES ASSUME Init PROVE Inv
  OBVIOUS
<1>1. Fresh \in Job /\ Fresh.stage = "none"
  <2>1. <<>> \in Seq(Events)
    OBVIOUS
  <2> QED BY <2>1 DEF Fresh, Job, Stages
<1>2. ~Fresh.temp /\ ~Fresh.completed /\ Fresh.worker = "none"
  BY DEF Fresh
<1>3. Types
  <2>1. 0 \in Revisions
    BY MaxEditsAssumption DEF Revisions
  <2>2. [status |-> "idle", gen |-> None, id |-> None, acting |-> FALSE] \in Page
    BY DEF Page
  <2>3. <<>> \in Seq(Call) /\ <<>> \in Seq(Reply)
    OBVIOUS
  <2> QED BY <1>1, <2>1, <2>2, <2>3, IdleIs DEF Init, Types
<1>4. GateIsExact
  <2>1. Permits = {}
    BY <1>1 DEF Init, Permits
  <2> QED BY <2>1, FS_EmptySet, MaxActiveAssumption DEF Init, GateIsExact
<1>5. \A j \in Jobs : Tracked(j)
  BY <1>1, <1>2 DEF Init, Tracked, Early, Attended, Quiet
<1>6. OneJobPerWindow /\ MainFits
  BY IdleIs DEF Init, OneJobPerWindow, MainFits, SavedIsCurrent
<1> QED BY <1>3, <1>4, <1>5, <1>6 DEF Inv

LEMMA NextInv == Inv /\ [Next]_vars => Inv'
<1> SUFFICES ASSUME Inv, [Next]_vars PROVE Inv'
  OBVIOUS
<1>1. ASSUME NEW j \in Jobs, Thread(j) PROVE Inv'
  BY <1>1, AcquireKeeps, GiveUpKeeps, BeginMoves, CopiedMoves, SpawnMoves,
     StoredMoves, ReadMoves, WaitedMoves, VerifyMoves, WatchMoves,
     CompleteMoves, FailMoves, EndKeeps DEF Thread
<1>2. ASSUME NEW j \in Jobs, WorkerEnds(j) \/ Noticed(j) \/ Deliver(j)
      PROVE  Inv'
  BY <1>2, WorkerEndsKeeps, NoticedKeeps, DeliverKeeps
<1>3. CASE MainStep
  BY <1>3, TakeStartKeeps, TakeCancelKeeps, TakeCloseKeeps, TakeCheckKeeps,
     TakeSaveKeeps, FlagKeeps, KillChildKeeps, CancelledKeeps, InsertKeeps,
     PickedKeeps, StagedKeeps, GateKeepsInv, RenameKeeps DEF MainStep
<1>4. ASSUME NEW w \in Windows,
             AskStart(w) \/ AskCancel(w) \/ AskCheck(w) \/ AskSave(w) \/ Close(w)
      PROVE  Inv'
  BY <1>4, AskStartKeeps, AskCancelKeeps, AskCheckKeeps, AskSaveKeeps, CloseKeeps
<1>5. ASSUME NEW w \in Windows,
             AnswerTaken(w) \/ LookForEditor(w) \/ Outside(w)
      PROVE  Inv'
  BY <1>5, StartedKeeps, CheckedKeeps, SavedCopyKeeps, LookForEditorKeeps,
     OutsideKeeps DEF AnswerTaken
<1>6. CASE UNCHANGED vars
  <2>1. Outer' /\ UNCHANGED <<job, registry, session, main, active>>
    BY <1>6, OuterNow DEF vars, backVars, pageVars, Outer
  <2> QED BY <2>1, SameJobsKeep
<1> QED BY <1>1, <1>2, <1>3, <1>4, <1>5, <1>6 DEF Next

\* The directory of a job that is neither registered nor about to be
\* cancelled is gone, or its thread will remove it.
LEMMA InvImplies == Inv => TypeOK /\ NoTempLeak /\ SavedIsCurrent
<1> SUFFICES ASSUME Inv PROVE TypeOK /\ NoTempLeak /\ SavedIsCurrent
  OBVIOUS
<1>1. TypeOK
  BY DEF Inv, Types, GateIsExact, TypeOK
<1>2. ASSUME NEW j \in Jobs, job[j].temp
      PROVE  \/ j \in registry /\ session[job[j].win] = "document"
             \/ job[j].stage \notin {"none", "asked", "ended"}
             \/ main.op \in {"start", "close"} /\ (j \in main.left \/ j = main.cur)
             \/ Stranded(j)
  BY <1>2 DEF Inv, Tracked, Evicted, Stranded
<1>3. SavedIsCurrent
  BY DEF Inv, MainFits
<1> QED BY <1>1, <1>2, <1>3 DEF NoTempLeak

LEMMA Invariance == Spec => []Inv
BY InitInv, NextInv, PTL DEF Spec

\* The types, and the gate of document_import.rs: whatever is cancelled,
\* converted again, saved or closed, in whatever order, MAX_ACTIVE_WORKERS
\* bounds the threads that hold a permit and no permit is lost or given back
\* twice (WorkerGate).
THEOREM Typed == Spec => []TypeOK
BY Invariance, InvImplies, PTL

\* No order of cancelling, converting again, saving and closing leaves the
\* private directory of a conversion behind, except under a worker that was
\* killed and not waited for when its thread removed the directory
\* (cleanup_terminal_job and cleanup_for_window in document_import.rs).
THEOREM NothingLeft == Spec => []NoTempLeak
BY Invariance, InvImplies, PTL

\* What save_converted_document_as puts in place was converted from the
\* revision the source had when the save last looked at it: no step of another
\* thread between the last look and the rename changes the conversion.
THEOREM SavedWasCurrent == Spec => []SavedIsCurrent
BY Invariance, InvImplies, PTL
=============================================================================
