------------------------ MODULE NotebookSwitchProofs -------------------------
(***************************************************************************)
(* Theorems about NotebookSwitch for any notebooks and any bounds.         *)
(***************************************************************************)
EXTENDS NotebookSwitch, SequenceTheorems, FiniteSetTheorems, TLAPS

-----------------------------------------------------------------------------
(***************************************************************************)
(* Types                                                                   *)
(***************************************************************************)

Phases == {"idle", "picking", "uploads", "flushing", "stopping", "draining", "opening",
           "listing", "rollingBack", "restoring", "gateStopping", "gateDraining", "resuming"}

\* From stopNotebookWatcher until the switch commits, rolls back or gives up.
Stopped == {"stopping", "draining", "opening", "listing", "rollingBack", "restoring",
            "gateStopping", "gateDraining"}

\* openingNotebook is set: the backend may have another root than the page.
Unbound == {"opening", "listing", "rollingBack", "restoring", "gateStopping", "gateDraining"}

\* A watch may wait in the service's chain.
Watching == {"idle", "picking", "uploads", "flushing", "stopping", "resuming"}

Note == [root : MaybeRoot, n : Nat]

\* A listener, a timer, a retry: a watch of a root, of a generation.
Handle == [root : MaybeRoot, gen : Nat]

PageType == [root : MaybeRoot, files : MaybeRoot, note : Note,
             gate : {"none", "idle", "opening", "error"},
             noteLock : BOOLEAN, opening : BOOLEAN, watchGen : Nat, dataGen : Nat,
             treeReq : Nat, unwatch : Nat, retry : Handle]

SwType == [pc : Phases, prev : MaybeRoot, next : MaybeRoot, resume : BOOLEAN]

OpType == [kind : {"watch", "unwatch"}, root : MaybeRoot, gen : Nat,
           by : {"closure", "stop", "commit", "finally", "focus"}]

SvcType == [queue : Seq(OpType),
            pc : {"ready", "unwatching", "listening", "starting", "started", "answering"},
            watchId : Nat, accept : Nat, watching : MaybeRoot, listener : Handle]

FlushType == [from : SUBSET MaybeRoot, watch : Handle]

RefreshType == [pending : SUBSET MaybeRoot, timer : Handle, chain : Seq(FlushType)]

IndexType == [status : {"idle", "building", "ready", "error"}, roots : SUBSET MaybeRoot,
              gen : Nat, service : Nat]

TaskType == [kind : {"init", "flush", "op", "image"},
             pc : {"creating", "listing", "listed", "indexing", "document", "note", "noteRead"},
             root : MaybeRoot, gen : Nat, req : Nat, watch : Handle,
             from : SUBSET MaybeRoot, note : Nat, igen : Nat, seen : SUBSET MaybeRoot]

JobType == [epoch : Nat, note : Note]

ImageType == [pc : {"none", "read", "written", "cleaning", "done"}, epoch : Nat, note : Note,
              at : MaybeRoot, fate : {"none", "dropped", "reported", "inserted", "cleaned"},
              tail : Seq(JobType)]

SaveType == [pc : {"queued", "called", "document"}, root : MaybeRoot, gen : Nat, note : Nat,
             at : MaybeRoot, service : Nat]

Types ==
    /\ backend \in MaybeRoot
    /\ page \in PageType
    /\ sw \in SwType
    /\ svc \in SvcType
    /\ os \in Handle
    /\ wire \in Seq(Handle)
    /\ refresh \in RefreshType
    /\ index \in IndexType
    /\ tasks \subseteq TaskType
    /\ image \in ImageType
    /\ saves \in Seq(SaveType)

-----------------------------------------------------------------------------
(***************************************************************************)
(* The inductive invariant                                                 *)
(***************************************************************************)

\* What performOpenNotebook knows in each of its steps.
PhaseInv ==
    /\ sw.pc # "idle" => sw.prev = page.root
    /\ page.opening = (sw.pc \in Unbound)
    /\ sw.pc \in {"uploads", "flushing", "stopping", "draining", "opening", "listing"} =>
           sw.next \in Roots
    /\ sw.pc = "listing" => backend = sw.next
    /\ sw.pc \in {"rollingBack", "restoring", "resuming"} => sw.prev # None
    /\ RootsAgree
    /\ page.root # None => backend # None
    /\ (page.root = None) = (page.gate # "none")
    /\ page.watchGen > 0

\* A watch is of an earlier generation than page p's, or it is the one that
\* the page wants; while the switch is in step ph the page wants none.
Fits(w, p, ph) ==
    \/ w.gen < p.watchGen
    \/ /\ w.gen = p.watchGen /\ w.root = p.root
       /\ p.root # None /\ ph \notin Stopped

\* Work on notebook r is of an earlier generation, or on the page's notebook.
OnPage(r, g, p) ==
    \/ g < p.dataGen
    \/ g = p.dataGen /\ r = p.root /\ r # None /\ ~p.opening

Awaited == {"stop", "finally"}

\* The chain of transitions: a watch is of the page's notebook; performOpenNotebook
\* waits for one answer at most, and no watch follows the stop it waits for.
QueueFits(q, p, ph) ==
    /\ \A i \in 1..Len(q) :
        /\ q[i].kind = "watch" =>
               q[i].root = p.root /\ p.root # None /\ ph \in Watching /\ Fits(q[i], p, ph)
        /\ q[i].by = "stop" => q[i].kind = "unwatch" /\ ph \in {"stopping", "gateStopping"}
        /\ q[i].by = "finally" => ph = "resuming"
    /\ \A i, j \in 1..Len(q) : i < j =>
        /\ q[i].by = "stop" => q[j].kind = "unwatch"
        /\ q[i].by \notin Awaited \/ q[j].by \notin Awaited

QueueInv == QueueFits(svc.queue, page, sw.pc)

\* The service between its steps and the watcher of the operating system.
WatchInv ==
    /\ svc.pc # "ready" => svc.queue # <<>> /\ svc.watching = None
    /\ svc.pc \in {"listening", "starting", "started"} => Op.kind = "watch"
    /\ svc.pc = "answering" => Op.kind = "unwatch"
    /\ svc.watchId > 0 /\ os.gen > 0
    /\ svc.pc \in {"listening", "starting", "answering"} => os.root = None
    /\ svc.pc = "started" => os.root = Op.root
    /\ svc.pc = "ready" => os.root = svc.watching
    /\ svc.pc \in {"starting", "started"} =>
           svc.listener.root = Op.root /\ svc.listener.gen = Op.gen
    /\ svc.listener # NoListener =>
           \/ svc.pc \in {"starting", "started"}
           \/ svc.pc = "ready" /\ svc.accept = os.gen /\ svc.listener.root = os.root
    /\ svc.watching # None => svc.listener # NoListener
    /\ sw.pc \in Stopped \ {"stopping"} => svc.watching = None
    /\ svc.queue = <<>> /\ svc.watching # None =>
           svc.listener.gen = page.watchGen /\ svc.listener.root = page.root
    /\ Fits(svc.listener, page, sw.pc)
    /\ Fits(page.retry, page, sw.pc)

\* Events under way, and what tells them apart.
WireInv ==
    /\ \A i \in 1..Len(wire) :
        /\ wire[i].gen <= os.gen
        /\ wire[i].gen = os.gen /\ os.root # None => wire[i].root = os.root
        /\ svc.pc = "started" => wire[i].gen = os.gen
    /\ svc.pc = "starting" => wire = <<>>

\* Only events of the page's notebook wait to be flushed.
RefreshInv ==
    /\ refresh.pending \subseteq {page.root}
    /\ sw.pc \in Stopped => refresh.pending = {} /\ refresh.timer = NoTimer
    /\ Fits(refresh.timer, page, sw.pc)
    /\ \A i \in 1..Len(refresh.chain) :
        LET f == refresh.chain[i] IN
        /\ Fits(f.watch, page, sw.pc)
        /\ f.watch.gen = page.watchGen => f.from \subseteq {page.root}

\* A task that is still current has seen the page's notebook only.
TaskFits(t, p, ph, ig) ==
    /\ OnPage(t.root, t.gen, p)
    /\ Fits(t.watch, p, ph)
    /\ t.gen = p.dataGen => t.seen \subseteq {p.root}
    /\ t.watch.gen = p.watchGen => t.gen = p.dataGen /\ t.from \subseteq {p.root}
    /\ t.pc \in {"listed", "noteRead"} => t.seen # {}
    /\ t.pc = "indexing" => t.igen <= ig /\ (t.igen = ig => t.gen = p.dataGen)

TaskInv == \A t \in tasks : TaskFits(t, page, sw.pc, index.gen)

\* Requests are numbered; one note is created at a time and one flush runs.
DistinctInv ==
    /\ \A t \in tasks : /\ t.req <= page.treeReq
                        /\ t.req = 0 => t.kind = "op"
                        /\ t.pc = "creating" => t.kind = "op"
                        /\ t.kind = "flush" => refresh.chain # <<>>
    /\ \A t, u \in tasks : t.req = u.req => t = u
    /\ \A t, u \in tasks : t.kind = u.kind /\ t.kind \in {"op", "flush"} => t = u

IndexInv ==
    /\ index.roots \subseteq {page.root} \cap Roots
    /\ page.opening => index.roots = {} /\ index.service = 0
    /\ index.service # 0 => page.root # None

NoteInv ==
    /\ page.files \in {page.root, None}
    /\ page.note = NoNote \/ (page.note.root = page.root /\ page.root # None)

ImageInv ==
    /\ image.pc # "none" => OnPage(image.note.root, image.epoch, page)
    /\ \A i \in 1..Len(image.tail) :
           OnPage(image.tail[i].note.root, image.tail[i].epoch, page)
    /\ image.pc \in {"none", "read"} => image.at = None
    /\ image.pc = "written" /\ image.epoch = page.dataGen => image.at = page.root
    /\ NoSilentOrphan

IInv ==
    /\ Types
    /\ PhaseInv
    /\ QueueInv /\ WatchInv /\ WireInv
    /\ RefreshInv
    /\ TaskInv /\ DistinctInv
    /\ IndexInv /\ NoteInv /\ ImageInv
    /\ SavesStayHome

-----------------------------------------------------------------------------
(***************************************************************************)
(* The page and the switch                                                 *)
(***************************************************************************)

LEMMA HandlesAreTyped ==
    /\ NoTimer \in Handle /\ NoTimer.gen = 0
    /\ NoListener \in Handle /\ NoListener.gen = 0
    /\ NoNote \in Note /\ NoNote.root = None
  BY DEF NoTimer, NoListener, NoNote, Handle, Note, MaybeRoot

LEMMA Counters ==
    ASSUME NEW p \in PageType
    PROVE  /\ p.watchGen \in Nat /\ p.watchGen + 1 \in Nat
           /\ p.dataGen \in Nat /\ p.dataGen + 1 \in Nat
           /\ p.treeReq \in Nat /\ p.treeReq + 1 \in Nat
  BY DEF PageType

LEMMA Restarted ==
    ASSUME NEW p \in PageType
    PROVE  LET r == RestartPage(p) IN
           /\ r \in PageType /\ r.watchGen = p.watchGen + 1
           /\ r.root = p.root /\ r.files = p.files /\ r.note = p.note
           /\ r.dataGen = p.dataGen /\ r.treeReq = p.treeReq /\ r.retry = p.retry
           /\ r.opening = p.opening /\ r.gate = p.gate
  BY Counters DEF RestartPage, PageType

\* Finish releases the page; it restarts the watcher only after a roll-back.
LEMMA Finished ==
    ASSUME Types, NEW p \in PageType, NEW resume \in BOOLEAN, Finish(p, resume),
           sw.prev # None => p.gate = "none"
    PROVE  /\ page' \in PageType /\ sw' \in SwType
           /\ page'.root = p.root /\ page'.files = p.files /\ page'.note = p.note
           /\ page'.dataGen = p.dataGen /\ page'.treeReq = p.treeReq /\ page'.retry = p.retry
           /\ ~page'.opening
           /\ page'.gate = IF p.gate = "opening" THEN "idle" ELSE p.gate
           /\ sw'.prev = sw.prev
           /\ IF resume /\ sw.prev # None /\ p.root = sw.prev
              THEN /\ sw'.pc = "resuming" /\ page'.watchGen = p.watchGen + 1
                   /\ svc' = RestartSvc(p, sw.prev, "finally")
              ELSE /\ sw'.pc = "idle" /\ page'.watchGen = p.watchGen
                   /\ svc' = svc
  <1> DEFINE unlocked == [p EXCEPT !.opening = FALSE, !.noteLock = FALSE,
                                   !.gate = IF @ = "opening" THEN "idle" ELSE @]
             restart == resume /\ sw.prev # None /\ p.root = sw.prev
  <1>1. unlocked \in PageType /\ p.watchGen \in Nat
    BY DEF PageType
  <1>2. /\ unlocked.root = p.root /\ unlocked.files = p.files /\ unlocked.note = p.note
        /\ unlocked.dataGen = p.dataGen /\ unlocked.treeReq = p.treeReq
        /\ unlocked.retry = p.retry /\ unlocked.watchGen = p.watchGen /\ ~unlocked.opening
        /\ unlocked.gate = IF p.gate = "opening" THEN "idle" ELSE p.gate
    BY DEF PageType
  <1>3. /\ page' = IF restart THEN RestartPage(unlocked) ELSE unlocked
        /\ svc' = IF restart THEN RestartSvc(p, sw.prev, "finally") ELSE svc
        /\ sw' = [sw EXCEPT !.pc = IF restart THEN "resuming" ELSE "idle", !.resume = resume]
    BY DEF Finish
  <1>4. sw' \in SwType /\ sw'.prev = sw.prev
        /\ sw'.pc = IF restart THEN "resuming" ELSE "idle"
    BY <1>3 DEF Types, SwType, Phases
  <1>5. CASE restart
    <2>1. page' = RestartPage(unlocked)
      BY <1>3, <1>5
    <2> HIDE DEF unlocked
    <2> QED
      BY <1>1, <1>2, <1>3, <1>4, <1>5, <2>1, Restarted
  <1>6. CASE ~restart
    <2>1. page' = unlocked /\ svc' = svc
      BY <1>3, <1>6
    <2> HIDE DEF unlocked
    <2> QED
      BY <1>1, <1>2, <1>4, <1>6, <2>1
  <1> QED
    BY <1>5, <1>6

\* What a step may do to generations and to the notebook they stand for.
Forward ==
    /\ page'.watchGen >= page.watchGen
    /\ page'.watchGen = page.watchGen /\ sw.pc \notin Stopped =>
           /\ page'.root = page.root /\ sw'.pc \notin Stopped
           /\ page'.dataGen = page.dataGen
    /\ page'.dataGen >= page.dataGen
    /\ page'.dataGen = page.dataGen /\ ~page.opening =>
           page'.root = page.root /\ ~page'.opening
    /\ index'.gen >= index.gen
    /\ index'.gen = index.gen => page'.dataGen = page.dataGen

\* A step that leaves the switch and what the page is about alone.
Calm ==
    /\ UNCHANGED <<backend, sw>>
    /\ page' \in PageType
    /\ page'.root = page.root /\ page'.gate = page.gate /\ page'.opening = page.opening
    /\ page'.watchGen = page.watchGen /\ page'.dataGen = page.dataGen

LEMMA CalmStep ==
    ASSUME Types, PhaseInv, Calm, index'.gen \in Nat, index'.gen >= index.gen
    PROVE  PhaseInv' /\ Forward
  BY DEF Types, PageType, PhaseInv, Calm, Forward, RootsAgree, IndexType

-----------------------------------------------------------------------------
\* The step of the switch or of the service moves the page on as it should.
Moved ==
    /\ page' \in PageType /\ sw' \in SwType /\ backend' \in MaybeRoot
    /\ PhaseInv' /\ Forward

LEMMA StoppedPage ==
    ASSUME Types, StopWatcher
    PROVE  /\ page' \in PageType /\ page'.watchGen = page.watchGen + 1
           /\ page'.root = page.root /\ page'.files = page.files /\ page'.note = page.note
           /\ page'.dataGen = page.dataGen /\ page'.treeReq = page.treeReq
           /\ page'.retry = page.retry /\ page'.opening = page.opening /\ page'.gate = page.gate
  BY Counters DEF Types, StopWatcher, PageType

\* The switch waits for the service to stop.
LEMMA StopsMove == ASSUME Types, PhaseInv, Flushed \/ ListFails \/ RollbackFails PROVE Moved
  <1>0. page.watchGen \in Nat
    BY Counters DEF Types
  <1>1. CASE sw.prev # None /\ ListFails
    BY <1>1 DEF ListFails, Moved, Types, PageType, SwType, Phases, PhaseInv, Forward,
       RootsAgree, Stopped, Unbound, IndexType
  <1>2. CASE /\ StopWatcher /\ sw' = [sw EXCEPT !.pc = "gateStopping"]
             /\ UNCHANGED <<backend, index>>
             /\ sw.pc \in {"listing", "rollingBack", "restoring"}
    <2>1. sw' \in SwType /\ sw'.pc = "gateStopping" /\ sw'.prev = sw.prev
      BY <1>2 DEF Types, SwType, Phases
    <2> QED
      BY <1>0, <1>2, <2>1, StoppedPage DEF Moved, Types, PhaseInv, Forward, RootsAgree, Stopped,
         Unbound, IndexType, PageType
  <1>3. CASE Flushed
    <2>1. sw' \in SwType /\ sw'.pc = "stopping" /\ sw'.prev = sw.prev /\ sw'.next = sw.next
      BY <1>3 DEF Flushed, Types, SwType, Phases
    <2> QED
      BY <1>0, <1>3, <2>1, StoppedPage DEF Flushed, Moved, Types, PhaseInv, Forward, RootsAgree,
         Stopped, Unbound, IndexType, PageType
  <1> QED
    BY <1>1, <1>2, <1>3 DEF ListFails, RollbackFails

\* Steps that only move the switch on.
LEMMA SwitchOnlyMoves ==
    ASSUME Types, PhaseInv,
           RequestOpenNotebook \/ UploadsDone \/ OpenNotebookAt
    PROVE  Moved
  <1>1. CASE RequestOpenNotebook
    <2>1. /\ page' \in PageType /\ page'.root = page.root /\ page'.opening = page.opening
          /\ page'.gate = IF page.gate = "none" THEN "none" ELSE "opening"
          /\ page'.watchGen = page.watchGen /\ page'.dataGen = page.dataGen
      BY <1>1 DEF RequestOpenNotebook, Types, PageType
    <2>2. sw.pc = "idle" /\ sw' \in SwType /\ sw'.pc = "picking" /\ sw'.prev = page.root
      BY <1>1 DEF RequestOpenNotebook, Types, PageType, SwType, Phases, MaybeRoot
    <2>3. UNCHANGED <<backend, index>>
      BY <1>1 DEF RequestOpenNotebook
    <2> QED
      BY <2>1, <2>2, <2>3 DEF Moved, Types, PageType, PhaseInv, Forward, RootsAgree, Stopped,
         Unbound, IndexType
  <1>2. CASE UploadsDone
    BY <1>2 DEF UploadsDone, Moved, Types, PageType, SwType, Phases, PhaseInv, Forward,
       RootsAgree, Stopped, Unbound, IndexType
  <1>3. CASE OpenNotebookAt
    BY <1>3, NoneAssumption DEF OpenNotebookAt, Moved, Types, PageType, SwType, Phases, PhaseInv,
       Forward,
       RootsAgree, Stopped, Unbound, IndexType, MaybeRoot
  <1> QED
    BY <1>1, <1>2, <1>3

\* Finishing without having moved the backend.
LEMMA GivingUpMoves ==
    ASSUME Types, PhaseInv, Finish(page, FALSE), UNCHANGED <<backend, index>>,
           sw.pc \in {"picking", "flushing"}
    PROVE  Moved
  <1>1. /\ page' \in PageType /\ sw' \in SwType
        /\ page'.root = page.root /\ page'.dataGen = page.dataGen
        /\ page'.watchGen = page.watchGen /\ ~page'.opening /\ sw'.pc = "idle"
        /\ page'.gate = IF page.gate = "opening" THEN "idle" ELSE page.gate
    <2>1. page \in PageType /\ (sw.prev # None => page.gate = "none")
      BY DEF Types, PhaseInv
    <2> QED
      BY <2>1, Finished
  <1> QED
    BY <1>1 DEF Moved, Types, PhaseInv, Forward, RootsAgree, Stopped, Unbound, PageType, IndexType

LEMMA PickFailsMoves == ASSUME Types, PhaseInv, PickFails PROVE Moved
  <1> DEFINE p == [page EXCEPT !.gate = IF sw.prev = None THEN "error" ELSE @]
  <1>1. /\ p \in PageType /\ p.root = page.root /\ p.dataGen = page.dataGen
        /\ p.watchGen = page.watchGen
        /\ p.gate = IF sw.prev = None THEN "error" ELSE page.gate
    BY DEF Types, PageType
  <1>2. Finish(p, FALSE) /\ sw.pc = "picking" /\ UNCHANGED <<backend, index>>
    BY DEF PickFails
  <1>3. sw.prev = page.root /\ (sw.prev # None => p.gate = "none")
    BY <1>1, <1>2 DEF PhaseInv
  <1> HIDE DEF p
  <1>4. /\ page' \in PageType /\ sw' \in SwType
        /\ page'.root = page.root /\ page'.dataGen = page.dataGen
        /\ page'.watchGen = page.watchGen /\ ~page'.opening /\ sw'.pc = "idle"
        /\ page'.gate = IF p.gate = "opening" THEN "idle" ELSE p.gate
    BY <1>1, <1>2, <1>3, Finished
  <1> QED
    BY <1>1, <1>2, <1>3, <1>4 DEF Moved, Types, PhaseInv, Forward, RootsAgree, Stopped, Unbound,
       PageType, IndexType

LEMMA PickMoves == ASSUME Types, PhaseInv, User PROVE Moved
  <1>1. CASE PickNothing
    BY <1>1, GivingUpMoves DEF PickNothing
  <1>3. CASE PickFails
    BY <1>3, PickFailsMoves
  <1>2. ASSUME NEW r \in Roots, Pick(r) PROVE Moved
    <2>1. CASE r = sw.prev
      BY <1>2, <2>1, GivingUpMoves DEF Pick
    <2>2. CASE r # sw.prev
      <3>1. /\ sw' = [sw EXCEPT !.pc = "uploads", !.next = r]
            /\ page' = [page EXCEPT !.noteLock = @ \/ sw.prev # None]
            /\ UNCHANGED <<backend, index>> /\ sw.pc = "picking"
        BY <1>2, <2>2 DEF Pick
      <3> QED
        <4>1. sw' \in SwType /\ sw'.pc = "uploads" /\ sw'.prev = sw.prev /\ sw'.next = r
          BY <3>1 DEF Types, SwType, Phases, MaybeRoot
        <4>2. /\ page' \in PageType /\ page'.root = page.root /\ page'.gate = page.gate
              /\ page'.watchGen = page.watchGen /\ page'.dataGen = page.dataGen
              /\ page'.opening = page.opening
          BY <3>1 DEF Types, PageType
        <4> QED
          BY <3>1, <4>1, <4>2 DEF Moved, Types, PageType, PhaseInv, Forward,
             RootsAgree, Stopped, Unbound, IndexType
    <2> QED
      BY <2>1, <2>2
  <1> QED
    BY <1>1, <1>2, <1>3 DEF User

LEMMA SuspendMoves == ASSUME Types, PhaseInv, Suspend PROVE Moved
  <1>1. sw' \in SwType /\ sw'.pc = "opening" /\ sw'.prev = sw.prev /\ sw'.next = sw.next
    BY DEF Suspend, Types, SwType, Phases
  <1>2. /\ page' \in PageType /\ page'.root = page.root /\ page'.gate = page.gate
        /\ page'.watchGen = page.watchGen /\ page'.dataGen = page.dataGen + 1 /\ page'.opening
    BY Counters DEF Suspend, Types, PageType
  <1>3. index'.gen = index.gen + 1 /\ index.gen \in Nat /\ page.dataGen \in Nat
        /\ page.watchGen \in Nat
    BY DEF Suspend, ResetIndex, Types, IndexType, PageType
  <1>4. Forward
    BY <1>1, <1>2, <1>3 DEF Suspend, Forward, Stopped
  <1>5. PhaseInv'
    BY <1>1, <1>2, <1>3 DEF Suspend, PhaseInv, RootsAgree, Unbound
  <1> QED
    BY <1>1, <1>2, <1>4, <1>5 DEF Suspend, Moved, Types

LEMMA OpenFailsMoves == ASSUME Types, PhaseInv, OpenFails PROVE Moved
  <1>1. CASE sw.prev # None
    BY <1>1 DEF OpenFails, Moved, Types, PageType, SwType, Phases, PhaseInv, Forward,
       RootsAgree, Stopped, Unbound, IndexType
  <1>2. CASE sw.prev = None
    <2> DEFINE p == [page EXCEPT !.gate = "error"]
    <2>1. /\ p \in PageType /\ p.root = page.root /\ p.gate = "error"
          /\ p.watchGen = page.watchGen /\ p.dataGen = page.dataGen
      BY DEF Types, PageType
    <2>2. Finish(p, sw.resume) /\ UNCHANGED <<backend, index>> /\ sw.pc = "opening"
          /\ sw.resume \in BOOLEAN
      BY <1>2 DEF OpenFails, Types, SwType
    <2> HIDE DEF p
    <2>3. /\ page' \in PageType /\ sw' \in SwType
          /\ page'.root = page.root /\ page'.dataGen = page.dataGen
          /\ page'.watchGen = page.watchGen /\ ~page'.opening /\ sw'.pc = "idle"
          /\ page'.gate = "error"
      BY <1>2, <2>1, <2>2, Finished
    <2> QED
      BY <1>2, <2>2, <2>3 DEF Moved, Types, PhaseInv, Forward, RootsAgree, Stopped, Unbound,
         PageType, IndexType
  <1> QED
    BY <1>1, <1>2

LEMMA CommitMoves == ASSUME Types, PhaseInv, CommitWorkspaceHandle PROVE Moved
  <1> DEFINE bound == [page EXCEPT !.gate = "none", !.root = sw.next, !.note = NoNote,
                                   !.files = backend, !.opening = FALSE, !.noteLock = FALSE]
  <1>1. sw.pc = "listing" /\ sw.next \in Roots /\ backend = sw.next /\ sw.next # None
    BY NoneAssumption DEF CommitWorkspaceHandle, PhaseInv
  <1>2. /\ bound \in PageType /\ bound.root = sw.next /\ bound.gate = "none"
        /\ ~bound.opening /\ bound.watchGen = page.watchGen /\ bound.dataGen = page.dataGen
    BY <1>1, HandlesAreTyped DEF Types, PageType, MaybeRoot
  <1>3. /\ page' = [RestartPage(bound) EXCEPT !.treeReq = @ + 1]
        /\ sw' = [sw EXCEPT !.pc = "idle", !.resume = FALSE]
        /\ UNCHANGED <<backend, index>>
    BY DEF CommitWorkspaceHandle
  <1> HIDE DEF bound
  <1>4. /\ page' \in PageType /\ page'.root = sw.next /\ page'.gate = "none" /\ ~page'.opening
        /\ page'.watchGen = page.watchGen + 1 /\ page'.dataGen = page.dataGen
    <2> DEFINE r == RestartPage(bound)
    <2>1. /\ r \in PageType /\ r.root = sw.next /\ r.gate = "none" /\ ~r.opening
          /\ r.watchGen = page.watchGen + 1 /\ r.dataGen = page.dataGen
      BY <1>2, Restarted
    <2>2. page' = [r EXCEPT !.treeReq = @ + 1]
      BY <1>3
    <2> HIDE DEF r
    <2> QED
      BY <2>1, <2>2, Counters DEF PageType
  <1>5. sw' \in SwType /\ sw'.pc = "idle"
    BY <1>3 DEF Types, SwType, Phases
  <1> QED
    BY <1>1, <1>3, <1>4, <1>5 DEF Moved, Types, PageType, PhaseInv, Forward,
       RootsAgree, Stopped, Unbound, IndexType

LEMMA RolledBackMoves == ASSUME Types, PhaseInv, RolledBack PROVE Moved
  <1> DEFINE p == [page EXCEPT !.root = sw.prev]
  <1>1. /\ sw.pc \in {"rollingBack", "restoring"} /\ sw.prev = page.root /\ sw.prev # None
        /\ sw.resume \in BOOLEAN /\ page.gate = "none"
    BY DEF RolledBack, PhaseInv, Types, SwType
  <1>2. /\ p \in PageType /\ p.root = page.root /\ p.gate = page.gate
        /\ p.watchGen = page.watchGen /\ p.dataGen = page.dataGen
    BY <1>1 DEF Types, PageType, SwType
  <1>3. Finish(p, sw.resume) /\ backend' = sw.prev /\ UNCHANGED index
    BY DEF RolledBack
  <1> HIDE DEF p
  <1>4. /\ page' \in PageType /\ sw' \in SwType
        /\ page'.root = page.root /\ page'.dataGen = page.dataGen
        /\ ~page'.opening /\ page'.gate = "none" /\ sw'.prev = sw.prev
        /\ page'.watchGen \in {page.watchGen, page.watchGen + 1}
        /\ sw'.pc \in {"idle", "resuming"}
    BY <1>1, <1>2, <1>3, Finished
  <1> QED
    BY <1>1, <1>3, <1>4 DEF Moved, Types, PageType, SwType, PhaseInv, Forward,
       RootsAgree, Stopped, Unbound, IndexType

LEMMA GateMoves == ASSUME Types, PhaseInv, EnterWorkspaceGate PROVE Moved
  <1> DEFINE p == [page EXCEPT !.root = None, !.note = NoNote, !.files = None,
                               !.gate = "error", !.dataGen = @ + 1]
  <1>1. sw.pc = "gateDraining" /\ sw.resume \in BOOLEAN /\ index' = ResetIndex
        /\ UNCHANGED backend
    BY DEF EnterWorkspaceGate, Types, SwType
  <1>2. /\ p \in PageType /\ p.root = None /\ p.gate = "error"
        /\ p.watchGen = page.watchGen /\ p.dataGen = page.dataGen + 1
    <2>1. page \in PageType /\ None \in MaybeRoot
      BY DEF Types, MaybeRoot
    <2> QED
      BY <2>1, Counters, HandlesAreTyped DEF PageType
  <1>3. Finish(p, sw.resume)
    BY DEF EnterWorkspaceGate
  <1>5. ~(p.gate = "none")
    BY <1>2
  <1> HIDE DEF p
  <1>4. page' = [p EXCEPT !.opening = FALSE, !.noteLock = FALSE,
                           !.gate = IF @ = "opening" THEN "idle" ELSE @]
        /\ sw' = [sw EXCEPT !.pc = "idle", !.resume = sw.resume]
    BY <1>3, <1>5 DEF Finish
  <1>6. /\ page' \in PageType /\ page'.root = None /\ page'.gate = "error" /\ ~page'.opening
        /\ page'.watchGen = page.watchGen /\ page'.dataGen = page.dataGen + 1
    BY <1>2, <1>4 DEF PageType
  <1>7. sw' \in SwType /\ sw'.pc = "idle"
    BY <1>4 DEF Types, SwType, Phases
  <1> QED
    BY <1>1, <1>6, <1>7 DEF Moved, Types, PageType, PhaseInv, Forward, ResetIndex,
       RootsAgree, Stopped, Unbound, IndexType

-----------------------------------------------------------------------------
\* The first transition of the chain is answered, and the switch goes on when
\* it waited for that answer.
LEMMA Answers ==
    ASSUME Types, QueueInv, svc.queue # <<>>, sw' = SwitchAfter(Op.by)
    PROVE  /\ Op \in OpType /\ sw' \in SwType /\ sw'.prev = sw.prev /\ sw'.next = sw.next
           /\ Op.by = "stop" => /\ sw.pc \in {"stopping", "gateStopping"} /\ Op.kind = "unwatch"
                                /\ sw'.pc = IF sw.pc = "stopping" THEN "draining"
                                                                  ELSE "gateDraining"
           /\ Op.by = "finally" => sw.pc = "resuming" /\ sw'.pc = "idle"
           /\ Op.by \notin Awaited => sw'.pc = sw.pc
           /\ Op.kind = "watch" => /\ Op.root = page.root /\ page.root # None
                                   /\ sw.pc \in Watching /\ Fits(Op, page, sw.pc)
  <1> DEFINE q == svc.queue
  <1>1. q \in Seq(OpType) /\ q # <<>>
    BY DEF Types, SvcType
  <1>2. Op \in OpType /\ Op = q[1] /\ 1 \in 1..Len(q)
    BY <1>1, HeadTailProperties DEF Op
  <1>3. /\ Op.by = "stop" => sw.pc \in {"stopping", "gateStopping"} /\ Op.kind = "unwatch"
        /\ Op.by = "finally" => sw.pc = "resuming"
        /\ Op.kind = "watch" => /\ Op.root = page.root /\ page.root # None
                                /\ sw.pc \in Watching /\ Fits(Op, page, sw.pc)
    BY <1>2 DEF QueueInv, QueueFits
  <1>4. CASE Op.by = "stop"
    <2>1. sw' = [sw EXCEPT !.pc = IF @ = "stopping" THEN "draining" ELSE "gateDraining"]
      BY <1>4 DEF SwitchAfter
    <2> QED
      BY <1>2, <1>3, <1>4, <2>1 DEF Types, SwType, Phases, Awaited
  <1>5. CASE Op.by = "finally"
    <2>1. sw' = [sw EXCEPT !.pc = "idle"]
      BY <1>5 DEF SwitchAfter
    <2> QED
      BY <1>2, <1>3, <1>5, <2>1 DEF Types, SwType, Phases, Awaited
  <1>6. CASE Op.by \notin Awaited
    <2>1. sw' = sw
      BY <1>6 DEF SwitchAfter, Awaited
    <2> QED
      BY <1>2, <1>3, <1>6, <2>1 DEF Types, Awaited
  <1> QED
    BY <1>4, <1>5, <1>6 DEF Awaited

LEMMA AnswersMove ==
    ASSUME Types, PhaseInv, QueueInv, WatchInv, WatchAnswered \/ StartFails \/ UnwatchAnswered
    PROVE  Moved
  <1>1. /\ svc.queue # <<>> /\ sw' = SwitchAfter(Op.by) /\ UNCHANGED <<backend, index>>
    BY DEF WatchInv, WatchAnswered, StartFails, UnwatchAnswered
  <1>2. /\ page' \in PageType /\ page'.root = page.root /\ page'.gate = page.gate
        /\ page'.watchGen = page.watchGen /\ page'.dataGen = page.dataGen
        /\ page'.opening = page.opening
    <2>1. CASE UnwatchAnswered
      BY <2>1 DEF UnwatchAnswered, Types
    <2>2. CASE StartFails
      <3>1. Op \in OpType
        BY <1>1, Answers
      <3>2. [root |-> Op.root, gen |-> Op.gen] \in Handle
        BY <3>1 DEF OpType, Handle
      <3>3. page' = [page EXCEPT !.retry = [root |-> Op.root, gen |-> Op.gen]]
        BY <2>2 DEF StartFails
      <3> QED
        BY <3>2, <3>3 DEF Types, PageType
    <2>3. CASE WatchAnswered
      <3>1. page' = page \/ page' = [page EXCEPT !.unwatch = svc.watchId]
        BY <2>3 DEF WatchAnswered, Types, SvcType
      <3> QED
        BY <3>1 DEF Types, PageType, SvcType
    <2> QED
      BY <2>1, <2>2, <2>3
  <1>3. /\ sw' \in SwType /\ sw'.prev = sw.prev /\ sw'.next = sw.next
        /\ \/ sw'.pc = sw.pc
           \/ sw.pc = "stopping" /\ sw'.pc = "draining"
           \/ sw.pc = "gateStopping" /\ sw'.pc = "gateDraining"
           \/ sw.pc = "resuming" /\ sw'.pc = "idle"
    BY <1>1, Answers DEF Awaited
  <1>4. PhaseInv'
    BY <1>1, <1>2, <1>3 DEF PhaseInv, RootsAgree, Unbound
  <1>5. Forward
    BY <1>1, <1>2, <1>3 DEF Types, PageType, IndexType, Forward, Stopped
  <1> QED
    BY <1>1, <1>2, <1>3, <1>4, <1>5 DEF Moved, Types

LEMMA RetryMoves == ASSUME Types, PhaseInv, FocusRetry PROVE Moved
  <1> DEFINE p == [page EXCEPT !.retry = NoTimer]
  <1>1. /\ p \in PageType /\ p.root = page.root /\ p.gate = page.gate
        /\ p.watchGen = page.watchGen /\ p.dataGen = page.dataGen /\ p.opening = page.opening
    BY HandlesAreTyped DEF Types, PageType
  <1>2. page' = p \/ page' = RestartPage(p)
    BY DEF FocusRetry
  <1>3. UNCHANGED <<backend, sw, index>>
    BY DEF FocusRetry
  <1> HIDE DEF p
  <1>4. /\ page' \in PageType /\ page'.root = page.root /\ page'.gate = page.gate
        /\ page'.watchGen \in {page.watchGen, page.watchGen + 1}
        /\ page'.dataGen = page.dataGen /\ page'.opening = page.opening
    BY <1>1, <1>2, Restarted
  <1>5. PhaseInv'
    BY <1>3, <1>4 DEF PhaseInv, RootsAgree, Types, PageType
  <1>6. Forward
    BY <1>3, <1>4 DEF Types, PageType, IndexType, Forward
  <1> QED
    BY <1>3, <1>4, <1>5, <1>6 DEF Moved, Types

-----------------------------------------------------------------------------
(***************************************************************************)
(* Work on the notebook                                                    *)
(***************************************************************************)

LEMMA Chosen ==
    ASSUME NEW t \in TaskType, t.seen # {}
    PROVE  (CHOOSE r \in t.seen : TRUE) \in t.seen /\ (CHOOSE r \in t.seen : TRUE) \in MaybeRoot
  BY DEF TaskType

\* The end of a task unlocks the page at most.
LEMMA EndsPage ==
    ASSUME NEW p \in PageType, NEW t, Ends(t, p)
    PROVE  /\ page' \in PageType
           /\ page'.root = p.root /\ page'.files = p.files /\ page'.note = p.note
           /\ page'.gate = p.gate /\ page'.opening = p.opening /\ page'.treeReq = p.treeReq
           /\ page'.watchGen = p.watchGen /\ page'.dataGen = p.dataGen /\ page'.retry = p.retry
  BY DEF Ends, PageType

\* The page of a step of a task.
LEMMA TaskPage ==
    ASSUME Types, TaskInv, NEW t \in tasks,
           \/ Created(t) \/ ListDirectory(t) \/ TreeArrives(t) \/ ListDirectoryFails(t)
           \/ ReadForIndex(t) \/ InstallIndex(t) \/ IndexFails(t)
           \/ RefreshDocument(t) \/ ReadNote(t) \/ ShowNote(t) \/ NoteIsGone(t)
    PROVE  /\ Calm
           /\ page'.treeReq >= page.treeReq /\ page'.retry = page.retry
  <1>0. /\ page \in PageType /\ t \in TaskType /\ page.note \in Note
        /\ page.treeReq \in Nat /\ UNCHANGED <<backend, sw>>
    BY Counters DEF Types, PageType, Created, ListDirectory, TreeArrives, ListDirectoryFails,
       ReadForIndex, InstallIndex, IndexFails, RefreshDocument, Refreshed, ReadNote, ShowNote,
       NoteIsGone
  <1> DEFINE Goal == Calm /\ page'.treeReq >= page.treeReq /\ page'.retry = page.retry
  <1>1. ASSUME page' = page PROVE Goal
    BY <1>0, <1>1 DEF Calm
  <1>2. ASSUME Ends(t, page) PROVE Goal
    BY <1>0, <1>2, EndsPage DEF Calm
  <1>3. ASSUME page' = [page EXCEPT !.treeReq = @ + 1] PROVE Goal
    BY <1>0, <1>3, Counters DEF Calm, PageType
  <1>4. ASSUME NEW n \in Note, Ends(t, [page EXCEPT !.note = n]) PROVE Goal
    <2> DEFINE p == [page EXCEPT !.note = n]
    <2>1. /\ p \in PageType /\ p.root = page.root /\ p.gate = page.gate
          /\ p.watchGen = page.watchGen /\ p.dataGen = page.dataGen /\ p.opening = page.opening
          /\ p.treeReq = page.treeReq /\ p.retry = page.retry
      BY <1>0 DEF PageType
    <2>2. Ends(t, p)
      BY <1>4
    <2> HIDE DEF p
    <2> QED
      BY <1>0, <2>1, <2>2, EndsPage DEF Calm
  <1>5. CASE TreeArrives(t)
    <2> DEFINE fresh == t.req = page.treeReq /\ CurrentNotebook(t)
               p == IF fresh THEN Listed(page, t) ELSE page
    <2>1. t.seen # {}
      BY <1>5 DEF TreeArrives, TaskInv, TaskFits
    <2>2. /\ p \in PageType /\ p.root = page.root /\ p.gate = page.gate
          /\ p.watchGen = page.watchGen /\ p.dataGen = page.dataGen /\ p.opening = page.opening
          /\ p.treeReq = page.treeReq /\ p.retry = page.retry
      BY <1>0, <2>1, Chosen DEF Listed, PageType
    <2>3. page' = p \/ Ends(t, p)
      BY <1>5 DEF TreeArrives
    <2> HIDE DEF p
    <2> QED
      BY <1>0, <2>2, <2>3, EndsPage DEF Calm
  <1>6. CASE RefreshDocument(t)
    <2>1. [root |-> t.root, n |-> page.note.n + 1] \in Note
      BY <1>0 DEF Note, TaskType
    <2>2. Ends(t, [page EXCEPT !.note = [root |-> t.root, n |-> page.note.n + 1]])
             \/ Ends(t, page) \/ page' = page
      BY <1>0, <1>6 DEF RefreshDocument, Refreshed, PageType
    <2> QED
      BY <1>1, <1>2, <1>4, <2>1, <2>2
  <1>7. CASE ShowNote(t)
    <2> DEFINE n == [page.note EXCEPT !.root = CHOOSE r \in t.seen : TRUE]
    <2>1. t.seen # {}
      BY <1>7 DEF ShowNote, TaskInv, TaskFits
    <2>2. n \in Note
      BY <1>0, <2>1, Chosen DEF Note
    <2>3. Ends(t, page) \/ Ends(t, [page EXCEPT !.note = n])
      BY <1>0, <1>7 DEF ShowNote, PageType
    <2> QED
      BY <1>2, <1>4, <2>2, <2>3
  <1>8. CASE NoteIsGone(t)
    BY <1>4, <1>8, HandlesAreTyped DEF NoteIsGone
  <1> QED
    BY <1>1, <1>2, <1>3, <1>5, <1>6, <1>7, <1>8 DEF Created, ListDirectory, ListDirectoryFails,
       ReadForIndex, InstallIndex, IndexFails, ReadNote

-----------------------------------------------------------------------------
LEMMA LockedPage ==
    ASSUME NEW p \in PageType
    PROVE  LET l == [p EXCEPT !.noteLock = TRUE] IN
           /\ l \in PageType
           /\ l.root = p.root /\ l.files = p.files /\ l.note = p.note
           /\ l.gate = p.gate /\ l.opening = p.opening /\ l.treeReq = p.treeReq
           /\ l.watchGen = p.watchGen /\ l.dataGen = p.dataGen /\ l.retry = p.retry
  BY DEF PageType

\* The steps between the switch's own leave it alone.
LEMMA OthersAreCalm ==
    ASSUME Types, TaskInv,
           \/ BeginTransition \/ StopFileWatcher \/ Listen \/ StartFileWatcher
           \/ Emit \/ Events \/ CreateNote \/ Task \/ QueueImage \/ Image \/ SaveNote \/ Saving
    PROVE  Calm /\ page'.treeReq >= page.treeReq /\ page'.retry = page.retry
  <1> DEFINE Goal == Calm /\ page'.treeReq >= page.treeReq /\ page'.retry = page.retry
  <1>0. page \in PageType /\ page.treeReq \in Nat
    BY Counters DEF Types
  <1>1. ASSUME UNCHANGED <<backend, sw, page>> PROVE Goal
    BY <1>0, <1>1 DEF Calm
  <1>2. ASSUME UNCHANGED <<backend, sw>>,
               \/ page' = [page EXCEPT !.treeReq = @ + 1]
               \/ page' = [page EXCEPT !.noteLock = TRUE]
        PROVE  Goal
    <2>1. CASE page' = [page EXCEPT !.treeReq = @ + 1]
      BY <1>0, <1>2, <2>1, Counters DEF Calm, PageType
    <2>2. CASE page' = [page EXCEPT !.noteLock = TRUE]
      BY <1>0, <1>2, <2>2, LockedPage DEF Calm
    <2> QED
      BY <1>2, <2>1, <2>2
  <1>3. CASE Task
    BY <1>3, TaskPage DEF Task
  <1>4. CASE Events
    BY <1>1, <1>2, <1>4 DEF Events, Deliver, TimerFires, FlushWatcherEvents
  <1>5. CASE Image
    BY <1>1, <1>2, <1>5 DEF Image, PrepareImage, WriteImage, WriteImageFails, InsertImage,
       CleanupOrphan, CleanupFails, InsertFails
  <1>6. CASE SaveNote \/ Saving
    BY <1>1, <1>6 DEF SaveNote, Saving, StartSave, SaveAnswered, SaveIndexed
  <1> QED
    BY <1>1, <1>2, <1>3, <1>4, <1>5, <1>6 DEF BeginTransition, StopFileWatcher, Listen,
       StartFileWatcher, Emit,
       CreateNote, QueueImage

\* Nothing but a new build, or a reset, gives the index another generation.
LEMMA IndexGrows ==
    ASSUME Types, Task \/ SaveIndexed \/ UNCHANGED index
    PROVE  index' \in IndexType /\ index'.gen >= index.gen
  <1>0. index \in IndexType /\ index.gen \in Nat /\ index.gen + 1 \in Nat /\ backend \in MaybeRoot
    BY DEF Types, IndexType
  <1>1. CASE UNCHANGED index
    BY <1>0, <1>1
  <1>2. ASSUME NEW t \in tasks,
               \/ Created(t) \/ ListDirectory(t) \/ TreeArrives(t) \/ ListDirectoryFails(t)
               \/ ReadForIndex(t) \/ InstallIndex(t) \/ IndexFails(t)
               \/ RefreshDocument(t) \/ ReadNote(t) \/ ShowNote(t) \/ NoteIsGone(t)
        PROVE  index' \in IndexType /\ index'.gen >= index.gen
    <2>0. t \in TaskType
      BY DEF Types
    <2>1. CASE TreeArrives(t)
      <3>1. CASE index' = [index EXCEPT !.status = "building", !.gen = @ + 1]
        <4>1. index' \in IndexType
          BY <1>0, <3>1 DEF IndexType
        <4>2. index'.gen = index.gen + 1
          BY <1>0, <3>1 DEF IndexType
        <4> QED
          BY <1>0, <4>1, <4>2
      <3> QED
        BY <1>1, <2>1, <3>1 DEF TreeArrives
    <2>2. CASE InstallIndex(t)
      <3>1. t.seen \in SUBSET MaybeRoot /\ t.igen \in Nat
        BY <2>0 DEF TaskType
      <3>2. CASE index' = [index EXCEPT !.status = "ready", !.roots = t.seen, !.service = t.igen]
        <4>1. index' \in IndexType
          BY <1>0, <3>1, <3>2 DEF IndexType
        <4>2. index'.gen = index.gen
          BY <1>0, <3>2 DEF IndexType
        <4> QED
          BY <1>0, <4>1, <4>2
      <3> QED
        BY <1>1, <2>2, <3>2 DEF InstallIndex
    <2>3. CASE IndexFails(t)
      BY <1>0, <2>3 DEF IndexFails, IndexType
    <2>4. CASE RefreshDocument(t)
      BY <1>0, <2>4 DEF RefreshDocument, Refreshed, IndexType
    <2> QED
      BY <1>1, <1>2, <2>1, <2>2, <2>3, <2>4 DEF Created, ListDirectory, ListDirectoryFails,
         ReadForIndex,
         ReadNote, ShowNote, NoteIsGone
  <1>3. CASE SaveIndexed
    BY <1>0, <1>3 DEF SaveIndexed, Refreshed, IndexType
  <1> QED
    BY <1>1, <1>2, <1>3 DEF Task

\* Every step moves page and switch on.
LEMMA MovesOn == ASSUME IInv, Next PROVE Moved /\ index' \in IndexType
  <1>0. Types /\ PhaseInv /\ QueueInv /\ WatchInv /\ TaskInv
    BY DEF IInv
  <1>1. ASSUME Calm, Task \/ SaveIndexed \/ UNCHANGED index PROVE Moved /\ index' \in IndexType
    <2>1. index' \in IndexType /\ index'.gen >= index.gen /\ index'.gen \in Nat
      BY <1>0, <1>1, IndexGrows DEF IndexType
    <2> QED
      BY <1>0, <1>1, <2>1, CalmStep DEF Moved, Calm, Types
  <1>2. CASE \/ BeginTransition \/ StopFileWatcher \/ Listen \/ StartFileWatcher
             \/ Emit \/ Events \/ CreateNote \/ Task \/ QueueImage \/ Image \/ SaveNote \/ Saving
    <2>1. Calm
      BY <1>0, <1>2, OthersAreCalm
    <2>2. Task \/ SaveIndexed \/ UNCHANGED index
      BY <1>2 DEF BeginTransition, StopFileWatcher, Listen, StartFileWatcher, Emit, Events,
         Deliver, TimerFires, FlushWatcherEvents, CreateNote, QueueImage, Image, PrepareImage,
         WriteImage, WriteImageFails, InsertImage, CleanupOrphan, CleanupFails, InsertFails,
         SaveNote, Saving, StartSave, SaveAnswered
    <2> QED
      BY <1>1, <2>1, <2>2
  <1>3. CASE User \/ Switch \/ RequestOpenNotebook
    <2>1. Moved
      <3>1. CASE User \/ RequestOpenNotebook
        BY <1>0, <3>1, PickMoves, SwitchOnlyMoves
      <3>2. CASE FlushBlocks
        BY <1>0, <3>2, GivingUpMoves DEF FlushBlocks
      <3> QED
        BY <1>0, <1>3, <3>1, <3>2, SwitchOnlyMoves, StopsMove, SuspendMoves, OpenFailsMoves,
           CommitMoves,
           RolledBackMoves, GateMoves DEF Switch
    <2>2. index' \in IndexType
      <3>1. index' = index \/ index' = ResetIndex
        BY <1>3 DEF User, PickNothing, PickFails, Pick, RequestOpenNotebook, Switch, UploadsDone,
           Flushed,
           FlushBlocks, Suspend, OpenNotebookAt, OpenFails, ListFails, CommitWorkspaceHandle,
           RolledBack, RollbackFails, EnterWorkspaceGate
      <3>2. index \in IndexType /\ ResetIndex \in IndexType
        BY <1>0 DEF Types, IndexType, ResetIndex
      <3> QED
        BY <3>1, <3>2
    <2> QED
      BY <2>1, <2>2
  <1>4. CASE WatchAnswered \/ StartFails \/ UnwatchAnswered \/ FocusRetry
    <2>1. Moved
      BY <1>0, <1>4, AnswersMove, RetryMoves
    <2>2. index' = index
      BY <1>4 DEF WatchAnswered, StartFails, UnwatchAnswered, FocusRetry
    <2> QED
      BY <1>0, <2>1, <2>2 DEF Types
  <1> QED
    BY <1>2, <1>3, <1>4 DEF Next, Service

\* A watch that is current after a step was so before it, for the same page.
LEMMA FitsOn ==
    ASSUME Types, Moved, NEW w, w.gen \in Nat, Fits(w, page, sw.pc)
    PROVE  /\ Fits(w, page', sw'.pc)
           /\ w.gen = page'.watchGen =>
                 /\ w.gen = page.watchGen /\ page'.root = page.root
                 /\ page'.dataGen = page.dataGen
  BY Counters DEF Types, Moved, Forward, Fits

\* So was work that is current.
LEMMA OnPageOn ==
    ASSUME Types, Moved, NEW r, NEW g \in Nat, OnPage(r, g, page)
    PROVE  /\ OnPage(r, g, page')
           /\ g = page'.dataGen => g = page.dataGen /\ page'.root = page.root
                                   /\ r = page.root /\ ~page.opening
  BY Counters DEF Types, Moved, Forward, OnPage

-----------------------------------------------------------------------------
(***************************************************************************)
(* The chain of transitions                                                *)
(***************************************************************************)

\* The two services differ in the chain only.
SameService(s, u) ==
    /\ s.pc = u.pc /\ s.watchId = u.watchId /\ s.accept = u.accept
    /\ s.watching = u.watching /\ s.listener = u.listener

LEMMA QueueType ==
    ASSUME NEW s \in SvcType, NEW o \in OpType
    PROVE  /\ Queue(s, o) \in SvcType
           /\ Queue(s, o).queue = Append(s.queue, o)
           /\ SameService(Queue(s, o), s)
  <1>1. s.queue \in Seq(OpType)
    BY DEF SvcType
  <1>2. Append(s.queue, o) \in Seq(OpType)
    BY <1>1, AppendProperties
  <1>3. Queue(s, o) \in SvcType
    BY <1>2 DEF Queue, SvcType
  <1>4. Queue(s, o).queue = Append(s.queue, o)
    BY DEF Queue, SvcType
  <1>5. SameService(Queue(s, o), s)
    BY DEF Queue, SvcType, SameService
  <1> QED
    BY <1>3, <1>4, <1>5

LEMMA OpsAreTyped ==
    /\ \A by \in {"closure", "stop"} :
          /\ UnwatchOp(by) \in OpType /\ UnwatchOp(by).kind = "unwatch"
          /\ UnwatchOp(by).by = by
    /\ \A r \in MaybeRoot, g \in Nat, by \in {"commit", "finally", "focus"} :
          /\ WatchOp(r, g, by) \in OpType /\ WatchOp(r, g, by).kind = "watch"
          /\ WatchOp(r, g, by).root = r /\ WatchOp(r, g, by).gen = g
          /\ WatchOp(r, g, by).by = by
  BY DEF UnwatchOp, WatchOp, OpType, MaybeRoot

\* One more transition at the end of the chain.
LEMMA AppendFits ==
    ASSUME NEW q \in Seq(OpType), NEW o \in OpType, NEW p, NEW ph, QueueFits(q, p, ph),
           o.kind = "watch" => /\ o.root = p.root /\ p.root # None
                               /\ ph \in Watching /\ Fits(o, p, ph)
                               /\ \A i \in 1..Len(q) : q[i].by # "stop",
           o.by = "stop" => o.kind = "unwatch" /\ ph \in {"stopping", "gateStopping"},
           o.by = "finally" => ph = "resuming",
           o.by \in Awaited => \A i \in 1..Len(q) : q[i].by \notin Awaited
    PROVE  QueueFits(Append(q, o), p, ph)
  <1> DEFINE a == Append(q, o)
  <1>1. /\ Len(q) \in Nat /\ Len(a) = Len(q) + 1
        /\ \A i \in 1..Len(q) : a[i] = q[i]
        /\ a[Len(q) + 1] = o
    BY AppendProperties, LenProperties
  <1> HIDE DEF a
  <1>2. \A i \in 1..Len(a) : i \in 1..Len(q) \/ i = Len(q) + 1
    BY <1>1
  <1>3. ASSUME NEW i \in 1..Len(a)
        PROVE  /\ a[i].kind = "watch" =>
                     a[i].root = p.root /\ p.root # None /\ ph \in Watching /\ Fits(a[i], p, ph)
               /\ a[i].by = "stop" => a[i].kind = "unwatch" /\ ph \in {"stopping", "gateStopping"}
               /\ a[i].by = "finally" => ph = "resuming"
    BY <1>1, <1>2 DEF QueueFits
  <1>4. ASSUME NEW i \in 1..Len(a), NEW j \in 1..Len(a), i < j
        PROVE  /\ a[i].by = "stop" => a[j].kind = "unwatch"
               /\ a[i].by \notin Awaited \/ a[j].by \notin Awaited
    <2>1. i \in 1..Len(q)
      BY <1>1, <1>2, <1>4
    <2>2. CASE j \in 1..Len(q)
      BY <1>1, <1>4, <2>1, <2>2 DEF QueueFits
    <2>3. CASE j = Len(q) + 1
      BY <1>1, <2>1, <2>3 DEF OpType
    <2> QED
      BY <1>2, <2>2, <2>3
  <1> QED
    BY <1>3, <1>4 DEF QueueFits, a

\* The closure's unwatch asks for nothing.
LEMMA CallUnwatchKeeps ==
    ASSUME NEW s \in SvcType, NEW id
    PROVE  LET c == CallUnwatch(s, id) IN
           /\ c \in SvcType /\ SameService(c, s)
           /\ c.queue = s.queue \/ c.queue = Append(s.queue, UnwatchOp("closure"))
  BY QueueType, OpsAreTyped DEF CallUnwatch, SameService

\* The closure's unwatch, and then one transition.
LEMMA CallAndQueue ==
    ASSUME NEW s \in SvcType, NEW id, NEW o \in OpType, NEW p, NEW ph,
           QueueFits(s.queue, p, ph),
           o.kind = "watch" => /\ o.root = p.root /\ p.root # None
                               /\ ph \in Watching \ Stopped /\ o.gen = p.watchGen,
           o.by = "stop" => o.kind = "unwatch" /\ ph \in {"stopping", "gateStopping"},
           o.by = "finally" => ph = "resuming",
           o.by \in Awaited => \A i \in 1..Len(s.queue) : s.queue[i].by \notin Awaited
    PROVE  LET u == Queue(CallUnwatch(s, id), o) IN
           /\ u \in SvcType /\ SameService(u, s)
           /\ QueueFits(u.queue, p, ph)
           /\ u.queue # <<>>
           /\ s.queue # <<>> => Head(u.queue) = Head(s.queue)
  <1> DEFINE c == CallUnwatch(s, id)  un == UnwatchOp("closure")
  <1>0. /\ s.queue \in Seq(OpType) /\ un \in OpType /\ un.kind = "unwatch" /\ un.by = "closure"
        /\ un.by \notin Awaited
    BY OpsAreTyped DEF SvcType, Awaited
  <1>1. /\ c \in SvcType /\ SameService(c, s)
        /\ c.queue = s.queue \/ c.queue = Append(s.queue, un)
    BY CallUnwatchKeeps
  <1>2. QueueFits(c.queue, p, ph)
    BY <1>0, <1>1, AppendFits
  <1>3. c.queue \in Seq(OpType)
    BY <1>1 DEF SvcType
  <1>4. o.by \in Awaited => \A i \in 1..Len(c.queue) : c.queue[i].by \notin Awaited
    <2>1. CASE c.queue = Append(s.queue, un)
      BY <1>0, <2>1, AppendProperties, LenProperties
    <2> QED
      BY <1>1, <2>1
  <1>5. o.kind = "watch" => \A i \in 1..Len(c.queue) : c.queue[i].by # "stop"
    BY <1>2 DEF QueueFits, Stopped
  <1>6. s.queue # <<>> => Head(c.queue) = Head(s.queue) /\ c.queue # <<>>
    BY <1>0, <1>1, HeadTailAppend, AppendProperties
  <1> HIDE DEF c
  <1>7. QueueFits(Append(c.queue, o), p, ph)
    BY <1>2, <1>3, <1>4, <1>5, AppendFits DEF Fits
  <1>8. /\ Queue(c, o) \in SvcType /\ SameService(Queue(c, o), c)
        /\ Queue(c, o).queue = Append(c.queue, o)
    BY <1>1, QueueType
  <1>9. /\ Append(c.queue, o) # <<>>
        /\ s.queue # <<>> => Head(Append(c.queue, o)) = Head(s.queue)
    BY <1>3, <1>6, HeadTailAppend, AppendProperties
  <1> QED
    BY <1>1, <1>7, <1>8, <1>9 DEF SameService, c

\* A chain nobody changed fits the page as it moves on.
LEMMA QueueStays ==
    ASSUME Types, QueueInv, Moved,
           sw.pc \in {"stopping", "gateStopping", "resuming"} => sw'.pc = sw.pc,
           sw.pc \in Watching => page'.root = page.root /\ sw'.pc \in Watching
    PROVE  QueueFits(svc.queue, page', sw'.pc)
  <1> DEFINE q == svc.queue
  <1>1. \A i \in 1..Len(q) : q[i].gen \in Nat
    <2>1. q \in Seq(OpType)
      BY DEF Types, SvcType
    <2>2. \A i \in 1..Len(q) : q[i] \in OpType
      BY <2>1, ElementOfSeq
    <2> QED
      BY <2>2 DEF OpType
  <1>2. \A i \in 1..Len(q) : Fits(q[i], page, sw.pc) => Fits(q[i], page', sw'.pc)
    BY <1>1, FitsOn
  <1> QED
    BY <1>2 DEF QueueInv, QueueFits

\* The first transition leaves the chain.
LEMMA TailFits ==
    ASSUME Types, QueueInv, svc.queue # <<>>, sw' = SwitchAfter(Op.by),
           page'.root = page.root, page'.watchGen = page.watchGen
    PROVE  /\ Tail(svc.queue) \in Seq(OpType)
           /\ QueueFits(Tail(svc.queue), page', sw'.pc)
  <1> DEFINE q == svc.queue  r == Tail(svc.queue)
  <1>1. q \in Seq(OpType) /\ q # <<>> /\ Len(q) \in Nat
    BY LenProperties DEF Types, SvcType
  <1>2. /\ r \in Seq(OpType) /\ Len(r) = Len(q) - 1
        /\ \A i \in 1..Len(r) : r[i] = q[i + 1]
    BY <1>1, HeadTailProperties
  <1>3. Op = q[1] /\ 1 \in 1..Len(q)
    BY <1>1, HeadTailProperties DEF Op
  <1>4. /\ Op.by = "stop" => sw.pc \in {"stopping", "gateStopping"}
        /\ Op.by = "finally" => sw.pc = "resuming" /\ sw'.pc = "idle"
        /\ Op.by \notin Awaited => sw'.pc = sw.pc
    BY <1>1, Answers
  <1> HIDE DEF r
  <1>5. \A i \in 1..Len(r) : i + 1 \in 1..Len(q) /\ 1 < i + 1
    BY <1>1, <1>2
  <1>6. ASSUME NEW i \in 1..Len(r)
        PROVE  /\ r[i].kind = "watch" =>
                     /\ r[i].root = page'.root /\ page'.root # None
                     /\ sw'.pc \in Watching /\ Fits(r[i], page', sw'.pc)
               /\ r[i].by = "stop" =>
                     r[i].kind = "unwatch" /\ sw'.pc \in {"stopping", "gateStopping"}
               /\ r[i].by = "finally" => sw'.pc = "resuming"
    <2>1. /\ r[i] = q[i + 1] /\ i + 1 \in 1..Len(q)
          /\ Op.by = "stop" => r[i].kind = "unwatch"
          /\ Op.by \notin Awaited \/ r[i].by \notin Awaited
      BY <1>2, <1>3, <1>5 DEF QueueInv, QueueFits
    <2>2. /\ r[i].kind = "watch" =>
                r[i].root = page.root /\ page.root # None /\ sw.pc \in Watching
                /\ Fits(r[i], page, sw.pc)
          /\ r[i].by = "stop" => r[i].kind = "unwatch" /\ sw.pc \in {"stopping", "gateStopping"}
          /\ r[i].by = "finally" => sw.pc = "resuming"
      BY <2>1 DEF QueueInv, QueueFits
    <2> QED
      BY <1>4, <2>1, <2>2 DEF Awaited, Fits, Watching, Stopped
  <1>7. ASSUME NEW i \in 1..Len(r), NEW j \in 1..Len(r), i < j
        PROVE  /\ r[i].by = "stop" => r[j].kind = "unwatch"
               /\ r[i].by \notin Awaited \/ r[j].by \notin Awaited
    BY <1>2, <1>5, <1>7 DEF QueueInv, QueueFits
  <1> QED
    BY <1>2, <1>6, <1>7 DEF QueueFits, r

-----------------------------------------------------------------------------
\* What a step that is not the service's does to the chain: nothing, or it
\* adds transitions, whenever it takes another generation of the watcher.
Chained ==
    /\ svc' \in SvcType /\ SameService(svc', svc)
    /\ QueueFits(svc'.queue, page', sw'.pc)
    /\ svc.queue # <<>> => svc'.queue # <<>> /\ Head(svc'.queue) = Head(svc.queue)
    /\ svc'.queue = <<>> =>
           /\ svc.queue = <<>> /\ page'.watchGen = page.watchGen
           /\ page'.root = page.root \/ sw.pc \in Stopped \ {"stopping"}
    /\ sw'.pc \in Stopped \ {"stopping"} => sw.pc \in Stopped \ {"stopping"}
    /\ sw.pc \in Watching => page'.root = page.root
    /\ page'.retry \in {page.retry, NoTimer}

\* The switch goes from one step to the next without an answer of the service.
Steady ==
    /\ sw.pc \in {"stopping", "gateStopping", "resuming"} => sw'.pc = sw.pc
    /\ sw.pc \in Watching => page'.root = page.root /\ sw'.pc \in Watching
    /\ sw'.pc \in Stopped \ {"stopping"} => sw.pc \in Stopped \ {"stopping"}
    /\ page'.watchGen = page.watchGen
    /\ page'.root = page.root \/ sw.pc \in Stopped \ {"stopping"}
    /\ page'.retry \in {page.retry, NoTimer}

\* The page keeps what it shows, or shows nothing but a list of its notebook.
Shown ==
    /\ page'.treeReq >= page.treeReq
    /\ \/ page'.root = page.root /\ page'.files = page.files /\ page'.note = page.note
       \/ page'.files = page'.root /\ page'.note = NoNote

LEMMA SteadyIsChained == ASSUME Types, QueueInv, Moved, Steady, UNCHANGED svc PROVE Chained
  <1>1. QueueFits(svc.queue, page', sw'.pc)
    BY QueueStays DEF Steady
  <1> QED
    BY <1>1 DEF Types, Steady, Chained, SameService

\* Nothing the switch awaits is in the chain unless it waits.
LEMMA NothingAwaited ==
    ASSUME QueueInv, sw.pc \notin {"stopping", "gateStopping", "resuming"}
    PROVE  \A i \in 1..Len(svc.queue) : svc.queue[i].by \notin Awaited
  BY DEF QueueInv, QueueFits, Awaited

LEMMA NoWatchWaits ==
    ASSUME QueueInv, sw.pc \notin Watching
    PROVE  \A i \in 1..Len(svc.queue) : svc.queue[i].kind # "watch"
  BY DEF QueueInv, QueueFits

LEMMA StopsAreChained ==
    ASSUME Types, QueueInv, Moved, StopWatcher,
           \/ sw.pc = "flushing" /\ sw'.pc = "stopping"
           \/ sw.pc \in {"listing", "rollingBack", "restoring"} /\ sw'.pc = "gateStopping"
    PROVE  Chained /\ Shown
  <1> DEFINE o == UnwatchOp("stop")
  <1>1. o \in OpType /\ o.kind = "unwatch" /\ o.by = "stop"
    BY OpsAreTyped
  <1>2. svc' = Queue(CallUnwatch(svc, page.unwatch), o) /\ svc \in SvcType
    BY DEF StopWatcher, Types
  <1>3. /\ page'.root = page.root /\ page'.retry = page.retry /\ page'.treeReq = page.treeReq
        /\ page'.files = page.files /\ page'.note = page.note /\ page.treeReq \in Nat
    BY StoppedPage, Counters DEF Types
  <1>4. /\ QueueFits(svc.queue, page', sw'.pc)
        /\ \A i \in 1..Len(svc.queue) : svc.queue[i].by \notin Awaited
    BY <1>3, QueueStays, NothingAwaited DEF Watching
  <1> HIDE DEF o
  <1>5. /\ svc' \in SvcType /\ SameService(svc', svc)
        /\ QueueFits(svc'.queue, page', sw'.pc)
        /\ svc'.queue # <<>>
        /\ svc.queue # <<>> => Head(svc'.queue) = Head(svc.queue)
    BY <1>1, <1>2, <1>4, CallAndQueue
  <1> QED
    BY <1>3, <1>5 DEF Chained, Stopped, Shown

\* The page restarts the watcher from state p: it queues a watch of its root.
LEMMA RestartsAreChained ==
    ASSUME Types, QueueInv, Moved, NEW p \in PageType, p.watchGen = page.watchGen,
           NEW by \in {"commit", "finally", "focus"},
           svc' = RestartSvc(p, p.root, by), p.root # None,
           page'.root = p.root, page'.watchGen = page.watchGen + 1,
           page'.retry \in {page.retry, NoTimer},
           sw'.pc \in Watching \ Stopped,
           by = "finally" => sw'.pc = "resuming" /\ sw.pc # "resuming",
           sw.pc \notin {"stopping", "gateStopping"},
           sw.pc \in Watching => page'.root = page.root,
           sw.pc = "resuming" => sw'.pc = sw.pc
    PROVE  Chained
  <1> DEFINE o == WatchOp(p.root, p.watchGen + 1, by)
  <1>0. p.watchGen + 1 \in Nat /\ p.root \in MaybeRoot
    BY Counters DEF PageType
  <1>1. o \in OpType /\ o.kind = "watch" /\ o.by = by /\ o.root = p.root
        /\ o.gen = p.watchGen + 1
    BY <1>0, OpsAreTyped
  <1>2. svc' = Queue(CallUnwatch(svc, p.unwatch), o) /\ svc \in SvcType
    BY DEF RestartSvc, Types
  <1>3. QueueFits(svc.queue, page', sw'.pc)
    BY QueueStays
  <1>4. o.by \in Awaited => \A i \in 1..Len(svc.queue) : svc.queue[i].by \notin Awaited
    BY <1>1, NothingAwaited DEF Awaited
  <1> HIDE DEF o
  <1>5. /\ svc' \in SvcType /\ SameService(svc', svc)
        /\ QueueFits(svc'.queue, page', sw'.pc)
        /\ svc'.queue # <<>>
        /\ svc.queue # <<>> => Head(svc'.queue) = Head(svc.queue)
    <2>1. o.kind = "watch" => /\ o.root = page'.root /\ page'.root # None
                              /\ sw'.pc \in Watching \ Stopped /\ o.gen = page'.watchGen
      BY <1>1
    <2>2. o.by # "stop"
      BY <1>1
    <2> QED
      BY <1>1, <1>2, <1>3, <1>4, <2>1, <2>2, CallAndQueue
  <1> QED
    BY <1>5 DEF Chained, Watching, Stopped

LEMMA GivesUpWith ==
    ASSUME Types, PhaseInv, QueueInv, Moved, sw.pc \in {"picking", "flushing"},
           NEW g \in {"none", "idle", "opening", "error"}, sw.prev # None => g = page.gate,
           Finish([page EXCEPT !.gate = g], FALSE)
    PROVE  Chained /\ Shown
  <1> DEFINE p == [page EXCEPT !.gate = g]
  <1>0. /\ p \in PageType /\ (sw.prev # None => p.gate = "none") /\ page \in PageType
        /\ p.root = page.root /\ p.retry = page.retry /\ p.watchGen = page.watchGen
        /\ p.files = page.files /\ p.note = page.note /\ p.treeReq = page.treeReq
    BY DEF Types, PhaseInv, PageType
  <1>1. Finish(p, FALSE)
    OBVIOUS
  <1> HIDE DEF p
  <1>2. /\ page'.root = page.root /\ page'.retry = page.retry
        /\ page'.watchGen = page.watchGen /\ sw'.pc = "idle" /\ svc' = svc
        /\ page'.files = page.files /\ page'.note = page.note
        /\ page'.treeReq = page.treeReq /\ page.treeReq \in Nat
    BY <1>0, <1>1, Finished, Counters
  <1> QED
    BY <1>2, SteadyIsChained DEF Steady, Watching, Stopped, Shown

LEMMA FinishGivesUp ==
    ASSUME Types, PhaseInv, QueueInv, Moved, Finish(page, FALSE), sw.pc \in {"picking",
    "flushing"}
    PROVE  Chained /\ Shown
  <1>1. page = [page EXCEPT !.gate = page.gate]
        /\ page.gate \in {"none", "idle", "opening", "error"}
    BY DEF Types, PageType
  <1>2. Finish([page EXCEPT !.gate = page.gate], FALSE)
    BY <1>1
  <1> QED
    BY <1>1, <1>2, GivesUpWith

LEMMA PickFailsGivesUp ==
    ASSUME Types, PhaseInv, QueueInv, Moved, PickFails
    PROVE  Chained /\ Shown
  <1> DEFINE g == IF sw.prev = None THEN "error" ELSE page.gate
  <1>1. g \in {"none", "idle", "opening", "error"} /\ (sw.prev # None => g = page.gate)
    BY DEF Types, PageType
  <1>2. Finish([page EXCEPT !.gate = g], FALSE) /\ sw.pc = "picking"
    BY DEF PickFails
  <1> HIDE DEF g
  <1> QED
    BY <1>1, <1>2, GivesUpWith

LEMMA SwitchIsChained ==
    ASSUME IInv, Moved, RequestOpenNotebook \/ User \/ Switch \/ FocusRetry
    PROVE  Chained /\ Shown
  <1>0. Types /\ PhaseInv /\ QueueInv /\ WatchInv /\ page \in PageType /\ page.watchGen \in Nat
        /\ page.treeReq \in Nat
    BY Counters DEF IInv, Types
  <1>1. CASE RequestOpenNotebook \/ UploadsDone \/ OpenNotebookAt
    <2>1. Steady /\ UNCHANGED svc /\ Shown
      BY <1>0, <1>1 DEF RequestOpenNotebook, UploadsDone, OpenNotebookAt, Types, PageType, SwType,
         Steady, Watching, Stopped, Shown
    <2> QED
      BY <1>0, <2>1, SteadyIsChained
  <1>2. CASE User
    <2>1. ASSUME NEW r \in Roots, Pick(r), r # sw.prev PROVE Chained /\ Shown
      <3>1. /\ sw'.pc = "uploads" /\ UNCHANGED svc /\ sw.pc = "picking"
            /\ page' = [page EXCEPT !.noteLock = @ \/ sw.prev # None]
        BY <1>0, <2>1 DEF Pick, Types, SwType
      <3>2. /\ page'.root = page.root /\ page'.retry = page.retry
            /\ page'.watchGen = page.watchGen /\ page'.treeReq = page.treeReq
            /\ page'.files = page.files /\ page'.note = page.note
        BY <1>0, <3>1 DEF PageType
      <3> QED
        BY <1>0, <3>1, <3>2, SteadyIsChained DEF Steady, Watching, Stopped, Shown
    <2> QED
      BY <1>0, <1>2, <2>1, FinishGivesUp, PickFailsGivesUp DEF User, Pick, PickNothing
  <1>3. CASE Flushed \/ ListFails \/ RollbackFails
    <2>1. CASE sw.prev # None /\ ListFails
      <3>1. Steady /\ UNCHANGED svc /\ Shown
        BY <1>0, <2>1 DEF ListFails, Types, PageType, SwType, Steady, Watching, Stopped, Shown
      <3> QED
        BY <1>0, <3>1, SteadyIsChained
    <2>2. CASE ~(sw.prev # None /\ ListFails)
      <3>1. /\ StopWatcher
            /\ \/ sw.pc = "flushing" /\ sw'.pc = "stopping"
               \/ sw.pc \in {"listing", "rollingBack", "restoring"} /\ sw'.pc = "gateStopping"
        BY <1>0, <1>3, <2>2 DEF Flushed, ListFails, RollbackFails, Types, SwType
      <3> QED
        BY <1>0, <3>1, StopsAreChained
    <2> QED
      BY <2>1, <2>2
  <1>4. CASE FlushBlocks
    BY <1>0, <1>4, FinishGivesUp DEF FlushBlocks
  <1>5. CASE Suspend
    <2>1. Steady /\ UNCHANGED svc /\ Shown
      BY <1>0, <1>5 DEF Suspend, Types, PageType, SwType, Steady, Watching, Stopped, Shown
    <2> QED
      BY <1>0, <2>1, SteadyIsChained
  <1>6. CASE OpenFails
    <2>1. CASE sw.prev # None
      <3>1. Steady /\ UNCHANGED svc /\ Shown
        BY <1>0, <1>6, <2>1 DEF OpenFails, Types, PageType, SwType, Steady, Watching, Stopped,
           Shown
      <3> QED
        BY <1>0, <3>1, SteadyIsChained
    <2>2. CASE sw.prev = None
      <3> DEFINE p == [page EXCEPT !.gate = "error"]
      <3>1. /\ p \in PageType /\ p.root = page.root /\ p.watchGen = page.watchGen
            /\ p.retry = page.retry /\ p.treeReq = page.treeReq
            /\ p.files = page.files /\ p.note = page.note
        BY <1>0 DEF PageType
      <3>2. Finish(p, sw.resume) /\ sw.resume \in BOOLEAN /\ sw.pc = "opening"
        BY <1>0, <1>6, <2>2 DEF OpenFails, Types, SwType
      <3> HIDE DEF p
      <3>3. /\ page'.root = page.root /\ page'.retry = page.retry /\ svc' = svc
            /\ page'.watchGen = page.watchGen /\ sw'.pc = "idle"
            /\ page'.files = page.files /\ page'.note = page.note
            /\ page'.treeReq = page.treeReq
        BY <1>0, <2>2, <3>1, <3>2, Finished
      <3> QED
        BY <1>0, <3>2, <3>3, SteadyIsChained DEF Steady, Watching, Stopped, Shown
    <2> QED
      BY <2>1, <2>2
  <1>7. CASE CommitWorkspaceHandle
    <2> DEFINE bound == [page EXCEPT !.gate = "none", !.root = sw.next, !.note = NoNote,
                                     !.files = backend, !.opening = FALSE, !.noteLock = FALSE]
    <2>1. /\ sw.pc = "listing" /\ sw.next \in Roots /\ sw.next # None /\ backend \in MaybeRoot
          /\ backend = sw.next
      BY <1>0, <1>7, NoneAssumption DEF CommitWorkspaceHandle, PhaseInv, Types
    <2>2. /\ bound \in PageType /\ bound.root = sw.next /\ bound.watchGen = page.watchGen
          /\ bound.retry = page.retry /\ bound.files = sw.next /\ bound.note = NoNote
          /\ bound.treeReq = page.treeReq
      BY <1>0, <2>1, HandlesAreTyped DEF PageType, MaybeRoot
    <2>3. /\ page' = [RestartPage(bound) EXCEPT !.treeReq = @ + 1]
          /\ svc' = RestartSvc(bound, sw.next, "commit")
          /\ sw' = [sw EXCEPT !.pc = "idle", !.resume = FALSE]
      BY <1>7 DEF CommitWorkspaceHandle
    <2> HIDE DEF bound
    <2>4. /\ page'.root = sw.next /\ page'.watchGen = page.watchGen + 1
          /\ page'.retry = page.retry /\ sw'.pc = "idle"
          /\ page'.files = sw.next /\ page'.note = NoNote /\ page'.treeReq = page.treeReq + 1
      <3>1. sw'.pc = "idle"
        BY <1>0, <2>3 DEF Types, SwType
      <3> DEFINE r == RestartPage(bound)
      <3>2. /\ r \in PageType /\ r.root = sw.next /\ r.watchGen = page.watchGen + 1
            /\ r.retry = page.retry /\ r.files = sw.next /\ r.note = NoNote
            /\ r.treeReq = page.treeReq
        BY <2>2, Restarted
      <3>3. page' = [r EXCEPT !.treeReq = @ + 1]
        BY <2>3
      <3> HIDE DEF r
      <3> QED
        BY <3>1, <3>2, <3>3 DEF PageType
    <2> QED
      BY <1>0, <2>1, <2>2, <2>3, <2>4, RestartsAreChained DEF Watching, Stopped, Shown
  <1>8. CASE RolledBack
    <2> DEFINE p == [page EXCEPT !.root = sw.prev]
    <2>1. /\ sw.pc \in {"rollingBack", "restoring"} /\ sw.prev = page.root /\ sw.prev # None
          /\ sw.resume \in BOOLEAN /\ page.gate = "none" /\ sw.prev \in MaybeRoot
      BY <1>0, <1>8 DEF RolledBack, PhaseInv, Types, SwType
    <2>2. /\ p \in PageType /\ p.root = page.root /\ p.gate = page.gate
          /\ p.watchGen = page.watchGen /\ p.retry = page.retry
          /\ p.files = page.files /\ p.note = page.note /\ p.treeReq = page.treeReq
      BY <1>0, <2>1 DEF PageType
    <2>3. Finish(p, sw.resume)
      BY <1>8 DEF RolledBack
    <2> HIDE DEF p
    <2>4. /\ page'.root = p.root /\ page'.retry = p.retry /\ page'.treeReq = p.treeReq
          /\ page'.files = p.files /\ page'.note = p.note
          /\ IF sw.resume
             THEN /\ sw'.pc = "resuming" /\ page'.watchGen = p.watchGen + 1
                  /\ svc' = RestartSvc(p, sw.prev, "finally")
             ELSE sw'.pc = "idle" /\ page'.watchGen = p.watchGen /\ svc' = svc
      BY <1>0, <2>1, <2>2, <2>3, Finished
    <2>5. CASE sw.resume
      BY <1>0, <2>1, <2>2, <2>4, <2>5, RestartsAreChained DEF Watching, Stopped, Shown
    <2>6. CASE ~sw.resume
      BY <1>0, <2>1, <2>2, <2>4, <2>6, SteadyIsChained DEF Steady, Watching, Stopped, Shown
    <2> QED
      BY <2>5, <2>6
  <1>9. CASE EnterWorkspaceGate
    <2> DEFINE p == [page EXCEPT !.root = None, !.note = NoNote, !.files = None,
                                 !.gate = "error", !.dataGen = @ + 1]
    <2>1. sw.pc = "gateDraining"
      BY <1>9 DEF EnterWorkspaceGate
    <2>2. /\ p \in PageType /\ p.root = None /\ p.gate = "error"
          /\ p.watchGen = page.watchGen /\ p.retry = page.retry
          /\ p.files = None /\ p.note = NoNote /\ p.treeReq = page.treeReq
      <3>1. None \in MaybeRoot
        BY DEF MaybeRoot
      <3> QED
        BY <1>0, <3>1, Counters, HandlesAreTyped DEF PageType
    <2>3. Finish(p, sw.resume)
      BY <1>9 DEF EnterWorkspaceGate
    <2>5. ~(p.gate = "none")
      BY <2>2
    <2> HIDE DEF p
    <2>4. page' = [p EXCEPT !.opening = FALSE, !.noteLock = FALSE,
                            !.gate = IF @ = "opening" THEN "idle" ELSE @]
          /\ sw' = [sw EXCEPT !.pc = "idle", !.resume = sw.resume] /\ svc' = svc
      BY <2>3, <2>5 DEF Finish
    <2>6. /\ page'.watchGen = page.watchGen /\ page'.retry = page.retry
          /\ page'.root = None /\ page'.files = None /\ page'.note = NoNote
          /\ page'.treeReq = page.treeReq
      BY <2>2, <2>4 DEF PageType
    <2>7. sw'.pc = "idle"
      BY <1>0, <2>4 DEF Types, SwType
    <2> QED
      BY <1>0, <2>1, <2>4, <2>6, <2>7, SteadyIsChained DEF Steady, Watching, Stopped, Shown
  <1>10. CASE FocusRetry
    <2> DEFINE p == [page EXCEPT !.retry = NoTimer]
               again == IsCurrentWatcher(page.retry)
    <2>1. /\ p \in PageType /\ p.root = page.root /\ p.watchGen = page.watchGen
          /\ p.retry = NoTimer /\ p.files = page.files /\ p.note = page.note
          /\ p.treeReq = page.treeReq
      BY <1>0, HandlesAreTyped DEF PageType
    <2>2. /\ page' = IF again THEN RestartPage(p) ELSE p
          /\ svc' = IF again THEN RestartSvc(p, page.retry.root, "focus") ELSE svc
          /\ UNCHANGED sw
      BY <1>10 DEF FocusRetry
    <2>3. again => page.retry.root = page.root /\ page.root # None /\ sw.pc \notin Stopped
      BY <1>0 DEF WatchInv, Fits, IsCurrentWatcher
    <2> HIDE DEF p
    <2>4. CASE again
      <3>1. /\ page'.root = page.root /\ page'.watchGen = page.watchGen + 1
            /\ page'.retry = NoTimer /\ page'.files = page.files /\ page'.note = page.note
            /\ page'.treeReq = page.treeReq
        BY <2>1, <2>2, <2>4, Restarted
      <3>2. svc' = RestartSvc(p, p.root, "focus")
        BY <2>1, <2>2, <2>3, <2>4
      <3>3. sw'.pc = sw.pc /\ sw.pc \in Watching \ Stopped
        BY <1>0, <2>2, <2>3, <2>4 DEF Types, SwType, Phases, Watching, Stopped
      <3> QED
        BY <1>0, <2>1, <2>3, <2>4, <3>1, <3>2, <3>3, RestartsAreChained DEF Stopped, Shown
    <2>5. CASE ~again
      BY <1>0, <2>1, <2>2, <2>5, SteadyIsChained DEF Steady, Shown
    <2> QED
      BY <2>4, <2>5
  <1> QED
    BY <1>1, <1>2, <1>3, <1>4, <1>5, <1>6, <1>7, <1>8, <1>9, <1>10 DEF Switch

\* So do all steps that are not the service's.
LEMMA OthersAreChained ==
    ASSUME IInv, Moved,
           \/ RequestOpenNotebook \/ User \/ Switch \/ FocusRetry
           \/ Emit \/ Events \/ CreateNote \/ Task \/ QueueImage \/ Image \/ SaveNote \/ Saving
    PROVE  Chained
  <1>0. Types /\ QueueInv /\ TaskInv
    BY DEF IInv
  <1>1. CASE Emit \/ Events \/ CreateNote \/ Task \/ QueueImage \/ Image \/ SaveNote \/ Saving
    <2>1. Calm /\ page'.retry = page.retry
      BY <1>0, <1>1, OthersAreCalm
    <2>2. UNCHANGED svc
      BY <1>1 DEF Emit, Events, Deliver, TimerFires, FlushWatcherEvents, CreateNote, QueueImage,
         Image, PrepareImage, WriteImage, WriteImageFails, InsertImage, CleanupOrphan,
         CleanupFails, InsertFails, SaveNote, Saving, StartSave, SaveAnswered, SaveIndexed, Task,
         Created, ListDirectory, TreeArrives, ListDirectoryFails, ReadForIndex, InstallIndex,
         IndexFails, RefreshDocument, Refreshed, ReadNote, ShowNote, NoteIsGone
    <2> QED
      BY <1>0, <2>1, <2>2, SteadyIsChained DEF Calm, Steady
  <1> QED
    BY <1>1, SwitchIsChained

-----------------------------------------------------------------------------
(***************************************************************************)
(* The watcher                                                             *)
(***************************************************************************)

\* The service and the watcher of the operating system after a step.
Served ==
    /\ svc' \in SvcType /\ os' \in Handle
    /\ QueueInv' /\ WatchInv'

LEMMA GenerationsAreTyped ==
    ASSUME Types
    PROVE  /\ svc.listener.gen \in Nat /\ page.retry.gen \in Nat /\ refresh.timer.gen \in Nat
           /\ svc.watchId \in Nat /\ os.gen \in Nat /\ page.watchGen \in Nat
           /\ svc.watchId + 1 \in Nat /\ os.gen + 1 \in Nat
           /\ svc.listener \in Handle /\ page.retry \in Handle /\ os.root \in MaybeRoot
  BY DEF Types, SvcType, PageType, RefreshType, Handle

LEMMA OthersServe == ASSUME IInv, Moved, Chained, UNCHANGED os PROVE Served
  <1>0. Types /\ PhaseInv' /\ WatchInv /\ NoTimer.gen = 0
    BY HandlesAreTyped DEF IInv, Moved
  <1>1. /\ svc'.pc = svc.pc /\ svc'.watchId = svc.watchId /\ svc'.accept = svc.accept
        /\ svc'.watching = svc.watching /\ svc'.listener = svc.listener
    BY DEF Chained, SameService
  <1>2. Fits(svc'.listener, page', sw'.pc)
    BY <1>0, <1>1, FitsOn, GenerationsAreTyped DEF WatchInv
  <1>3. Fits(page'.retry, page', sw'.pc)
    <2>1. CASE page'.retry = page.retry
      BY <1>0, <2>1, FitsOn, GenerationsAreTyped DEF WatchInv
    <2>2. CASE page'.retry = NoTimer
      BY <1>0, <2>2, Counters DEF Fits, PhaseInv, Moved
    <2> QED
      BY <2>1, <2>2 DEF Chained
  <1>4. svc.pc # "ready" => svc'.queue # <<>> /\ Op' = Op
    BY <1>0 DEF WatchInv, Chained, Op
  <1>5. WatchInv'
    BY <1>0, <1>1, <1>2, <1>3, <1>4 DEF WatchInv, Chained
  <1> QED
    BY <1>0, <1>5 DEF Served, Chained, Types, QueueInv

\* The transition at the head of the chain.
LEMMA FirstOp ==
    ASSUME IInv, svc.queue # <<>>
    PROVE  /\ Op \in OpType /\ Op.root \in MaybeRoot /\ Op.gen \in Nat
           /\ Op.kind \in {"watch", "unwatch"}
           /\ Op.kind = "watch" => /\ Op.root = page.root /\ page.root # None
                                   /\ sw.pc \in Watching /\ Fits(Op, page, sw.pc)
                                   /\ Op.by # "stop"
  <1>1. svc.queue \in Seq(OpType) /\ svc.queue # <<>>
    BY DEF IInv, Types, SvcType
  <1>2. Op \in OpType /\ Op = svc.queue[1] /\ 1 \in 1..Len(svc.queue)
    BY <1>1, HeadTailProperties DEF Op
  <1> QED
    BY <1>2 DEF IInv, QueueInv, QueueFits, OpType

\* Steps of the service between its answers.
LEMMA TransitionServes ==
    ASSUME IInv, Moved, BeginTransition \/ StopFileWatcher \/ Listen \/ StartFileWatcher
    PROVE  Served
  <1>0. Types /\ PhaseInv /\ QueueInv /\ WatchInv /\ svc \in SvcType
    BY DEF IInv, Types
  <1>1. svc.queue # <<>> /\ UNCHANGED <<page, sw>>
    BY <1>0 DEF BeginTransition, StopFileWatcher, Listen, StartFileWatcher, WatchInv
  <1>2. /\ svc'.queue = svc.queue /\ Op' = Op
    BY <1>0, <1>1 DEF BeginTransition, StopFileWatcher, Listen, StartFileWatcher, SvcType, Op
  <1>3. QueueInv'
    BY <1>0, <1>1, <1>2 DEF QueueInv
  <1>4. /\ Fits(page.retry, page, sw.pc) /\ Fits(svc.listener, page, sw.pc)
        /\ page.watchGen > 0 /\ NoListener.gen = 0 /\ NoListener \in Handle
    BY <1>0, HandlesAreTyped DEF WatchInv, PhaseInv
  <1>5. CASE BeginTransition
    <2>1. svc' \in SvcType
      BY <1>0, <1>4, <1>5, GenerationsAreTyped DEF BeginTransition, AfterUnwatch, SvcType,
         MaybeRoot
    <2>2. /\ svc'.watchId = svc.watchId + 1 /\ svc'.accept = 0 /\ svc'.listener = NoListener
          /\ svc'.watching = None
          /\ svc'.pc = IF svc.watching # None THEN "unwatching" ELSE AfterUnwatch(Op)
          /\ svc.pc = "ready" /\ os' = os
      BY <1>0, <1>5 DEF BeginTransition, SvcType
    <2>3. Fits(NoListener, page, sw.pc)
      BY <1>0, <1>4, GenerationsAreTyped DEF Fits
    <2>4. WatchInv'
      BY <1>0, <1>1, <1>2, <1>4, <2>2, <2>3, FirstOp, GenerationsAreTyped DEF WatchInv,
         AfterUnwatch
    <2> QED
      BY <1>0, <1>3, <2>1, <2>2, <2>4 DEF Served, Types
  <1>6. CASE StopFileWatcher
    <2>1. svc' \in SvcType
      BY <1>0, <1>6 DEF StopFileWatcher, AfterUnwatch, SvcType
    <2>2. /\ svc'.watchId = svc.watchId /\ svc'.accept = svc.accept
          /\ svc'.listener = svc.listener /\ svc'.watching = svc.watching
          /\ svc'.pc = AfterUnwatch(Op) /\ svc.pc = "unwatching"
      BY <1>0, <1>6 DEF StopFileWatcher, SvcType
    <2>3. os' \in Handle /\ os'.root = None /\ os'.gen = os.gen
      BY <1>0, <1>6 DEF StopFileWatcher, Types, Handle, MaybeRoot
    <2>4. WatchInv'
      BY <1>0, <1>1, <1>2, <1>4, <2>2, <2>3, FirstOp DEF WatchInv, AfterUnwatch
    <2> QED
      BY <1>3, <2>1, <2>3, <2>4 DEF Served
  <1>7. CASE Listen
    <2> DEFINE l == [root |-> Op.root, gen |-> Op.gen]
    <2>1. l \in Handle /\ l.root = Op.root /\ l.gen = Op.gen
      BY <1>1, FirstOp DEF Handle
    <2>2. svc' = [svc EXCEPT !.watchId = @ + 1, !.pc = "starting", !.listener = l] /\ os' = os
          /\ svc.pc = "listening"
      BY <1>7 DEF Listen
    <2>3. Op.kind = "watch" /\ Fits(l, page, sw.pc)
      BY <1>0, <1>1, <2>2, <2>1, FirstOp DEF WatchInv, Fits
    <2> HIDE DEF l
    <2>4. svc' \in SvcType
      BY <1>0, <2>1, <2>2, GenerationsAreTyped DEF SvcType
    <2>5. /\ svc'.watchId = svc.watchId + 1 /\ svc'.accept = svc.accept
          /\ svc'.listener = l /\ svc'.watching = svc.watching /\ svc'.pc = "starting"
      BY <1>0, <2>2 DEF SvcType
    <2>6. WatchInv'
      BY <1>0, <1>1, <1>2, <1>4, <2>1, <2>2, <2>3, <2>5, GenerationsAreTyped DEF WatchInv
    <2> QED
      BY <1>0, <1>3, <2>2, <2>4, <2>6 DEF Served, Types
  <1>8. CASE StartFileWatcher
    <2>1. svc' \in SvcType
      BY <1>0, <1>8 DEF StartFileWatcher, SvcType
    <2>2. /\ svc'.watchId = svc.watchId /\ svc'.accept = svc.accept
          /\ svc'.listener = svc.listener /\ svc'.watching = svc.watching
          /\ svc'.pc = "started" /\ svc.pc = "starting"
      BY <1>0, <1>8 DEF StartFileWatcher, SvcType
    <2>3. os' \in Handle /\ os'.root = Op.root /\ os'.gen = os.gen + 1
      BY <1>0, <1>1, <1>8, FirstOp, GenerationsAreTyped DEF StartFileWatcher, Handle
    <2>4. WatchInv'
      BY <1>0, <1>1, <1>2, <1>4, <2>2, <2>3, GenerationsAreTyped DEF WatchInv
    <2> QED
      BY <1>3, <2>1, <2>3, <2>4 DEF Served
  <1> QED
    BY <1>5, <1>6, <1>7, <1>8

\* The answers of the service.
LEMMA AnswersServe ==
    ASSUME IInv, Moved, WatchAnswered \/ StartFails \/ UnwatchAnswered
    PROVE  Served
  <1>0. Types /\ PhaseInv /\ QueueInv /\ WatchInv /\ svc \in SvcType /\ page \in PageType
    BY DEF IInv, Types
  <1>1. svc.queue # <<>> /\ sw' = SwitchAfter(Op.by)
    BY <1>0 DEF WatchAnswered, StartFails, UnwatchAnswered, WatchInv
  <1>2. /\ sw'.pc \in Stopped \ {"stopping"} /\ sw.pc \notin Stopped \ {"stopping"} =>
              Op.by = "stop"
        /\ Op.by = "finally" => sw'.pc = "idle"
        /\ Op.by \notin Awaited => sw'.pc = sw.pc
    BY <1>0, <1>1, Answers DEF Awaited, Stopped
  <1>3. NoListener.gen = 0 /\ NoListener \in Handle
    BY HandlesAreTyped
  <1>4. CASE UnwatchAnswered
    <2>1. /\ svc' = [svc EXCEPT !.queue = Tail(@), !.pc = "ready"]
          /\ UNCHANGED <<page, os>> /\ svc.pc = "answering"
      BY <1>4 DEF UnwatchAnswered
    <2>2. /\ Tail(svc.queue) \in Seq(OpType)
          /\ QueueFits(Tail(svc.queue), page', sw'.pc)
      BY <1>0, <1>1, <2>1, TailFits
    <2>3. svc' \in SvcType
      BY <1>0, <2>1, <2>2 DEF SvcType
    <2>4. /\ svc'.watchId = svc.watchId /\ svc'.accept = svc.accept
          /\ svc'.listener = svc.listener /\ svc'.watching = svc.watching
          /\ svc'.pc = "ready" /\ svc'.queue = Tail(svc.queue)
      BY <1>0, <2>1 DEF SvcType
    <2>5. svc.watching = None /\ svc.listener = NoListener /\ os.root = None
      BY <1>0, <2>1 DEF WatchInv
    <2>6. Fits(svc.listener, page, sw'.pc) /\ Fits(page.retry, page, sw'.pc)
      BY <1>0, <2>1, FitsOn, GenerationsAreTyped DEF WatchInv
    <2>7. WatchInv'
      BY <1>0, <2>1, <2>4, <2>5, <2>6 DEF WatchInv
    <2> QED
      BY <1>0, <2>1, <2>2, <2>3, <2>4, <2>7 DEF Served, Types, QueueInv
  <1>5. CASE StartFails
    <2> DEFINE r == [root |-> Op.root, gen |-> Op.gen]
    <2>1. /\ svc' = [svc EXCEPT !.queue = Tail(@), !.pc = "ready", !.listener = NoListener,
                                !.watchId = @ + 1, !.accept = 0]
          /\ os' = [root |-> None, gen |-> os.gen + 1]
          /\ page' = [page EXCEPT !.retry = r] /\ svc.pc = "starting"
      BY <1>5 DEF StartFails
    <2>2. r \in Handle /\ r.root = Op.root /\ r.gen = Op.gen
      BY <1>1, FirstOp DEF Handle
    <2>3. Fits(r, page, sw.pc)
      BY <1>0, <1>1, <2>1, <2>2, FirstOp DEF WatchInv, Fits
    <2> HIDE DEF r
    <2>4. /\ page'.root = page.root /\ page'.watchGen = page.watchGen /\ page'.retry = r
      BY <1>0, <2>1 DEF PageType
    <2>5. /\ Tail(svc.queue) \in Seq(OpType)
          /\ QueueFits(Tail(svc.queue), page', sw'.pc)
      BY <1>0, <1>1, <2>4, TailFits
    <2>6. svc' \in SvcType
      BY <1>0, <1>3, <2>1, <2>5, GenerationsAreTyped DEF SvcType
    <2>7. /\ svc'.watchId = svc.watchId + 1 /\ svc'.accept = 0
          /\ svc'.listener = NoListener /\ svc'.watching = svc.watching
          /\ svc'.pc = "ready" /\ svc'.queue = Tail(svc.queue)
      BY <1>0, <2>1 DEF SvcType
    <2>8. os' \in Handle /\ os'.root = None /\ os'.gen = os.gen + 1
      BY <1>0, <2>1, GenerationsAreTyped DEF Handle, MaybeRoot
    <2>9. svc.watching = None
      BY <1>0, <2>1 DEF WatchInv
    <2>10. Fits(NoListener, page', sw'.pc) /\ Fits(page'.retry, page', sw'.pc)
      <3>1. NoListener.gen < page'.watchGen
        BY <1>0, <1>3, <2>4, GenerationsAreTyped DEF PhaseInv
      <3>2. Fits(r, page', sw'.pc)
        BY <1>0, <2>2, <2>3, FitsOn DEF Handle
      <3> QED
        BY <2>4, <3>1, <3>2 DEF Fits
    <2>11. WatchInv'
      BY <1>0, <2>7, <2>8, <2>9, <2>10, GenerationsAreTyped DEF WatchInv
    <2> QED
      BY <2>5, <2>6, <2>7, <2>8, <2>11 DEF Served, QueueInv
  <1>6. CASE WatchAnswered
    <2> DEFINE active == [svc EXCEPT !.queue = Tail(@), !.pc = "ready",
                                     !.accept = os.gen, !.watching = Op.root]
    <2>1. /\ svc.pc = "started" /\ UNCHANGED os
          /\ IF Op.gen # page.watchGen
             THEN /\ svc' = CallUnwatch(active, active.watchId)
                  /\ UNCHANGED page
             ELSE /\ svc' = active
                  /\ page' = [page EXCEPT !.unwatch = active.watchId]
      BY <1>6 DEF WatchAnswered
    <2>2. /\ Op.kind = "watch" /\ Op.root = page.root /\ page.root # None /\ sw.pc \in Watching
          /\ Op.by # "stop" /\ Op.root \in MaybeRoot
          /\ os.root = Op.root /\ svc.listener.root = Op.root /\ svc.listener.gen = Op.gen
      BY <1>0, <1>1, <2>1, FirstOp DEF WatchInv
    <2>3. page'.root = page.root /\ page'.watchGen = page.watchGen /\ page'.retry = page.retry
      BY <1>0, <2>1 DEF PageType
    <2>4. /\ Tail(svc.queue) \in Seq(OpType)
          /\ QueueFits(Tail(svc.queue), page', sw'.pc)
      BY <1>0, <1>1, <2>3, TailFits
    <2>5. active \in SvcType
      BY <1>0, <2>2, <2>4, GenerationsAreTyped DEF SvcType
    <2>6. /\ active.watchId = svc.watchId /\ active.accept = os.gen
          /\ active.listener = svc.listener /\ active.watching = Op.root
          /\ active.pc = "ready" /\ active.queue = Tail(svc.queue)
      BY <1>0 DEF SvcType
    <2> HIDE DEF active
    <2>7. /\ svc' \in SvcType /\ SameService(svc', active)
          /\ QueueFits(svc'.queue, page', sw'.pc)
          /\ svc'.queue = <<>> => Op.gen = page.watchGen
      <3>1. CASE Op.gen # page.watchGen
        <4> DEFINE un == UnwatchOp("closure")
        <4>1. svc' = Queue(active, un)
          BY <1>0, <2>1, <2>6, <3>1, GenerationsAreTyped DEF CallUnwatch, WatchInv
        <4>2. un \in OpType /\ un.kind = "unwatch" /\ un.by = "closure" /\ un.by \notin Awaited
          BY OpsAreTyped DEF Awaited
        <4> HIDE DEF un
        <4>3. /\ svc' \in SvcType /\ SameService(svc', active)
              /\ svc'.queue = Append(active.queue, un)
          BY <2>5, <4>1, <4>2, QueueType
        <4>4. QueueFits(svc'.queue, page', sw'.pc)
          BY <2>4, <2>6, <4>2, <4>3, AppendFits
        <4>5. svc'.queue # <<>>
          BY <2>4, <2>6, <4>2, <4>3, AppendProperties
        <4> QED
          BY <4>3, <4>4, <4>5
      <3>2. CASE Op.gen = page.watchGen
        BY <2>1, <2>4, <2>5, <2>6, <3>2 DEF SameService
      <3> QED
        BY <3>1, <3>2
    <2>8. /\ svc'.watchId = svc.watchId /\ svc'.accept = os.gen
          /\ svc'.listener = svc.listener /\ svc'.watching = Op.root /\ svc'.pc = "ready"
      BY <2>6, <2>7 DEF SameService
    <2>9. svc.listener # NoListener
      BY <2>2 DEF NoListener
    <2>10. Fits(svc.listener, page', sw'.pc) /\ Fits(page'.retry, page', sw'.pc)
      BY <1>0, <2>3, FitsOn, GenerationsAreTyped DEF WatchInv
    <2>11. sw'.pc \notin Stopped \ {"stopping"}
      BY <1>2, <2>2 DEF Watching, Stopped
    <2>12. WatchInv'
      BY <1>0, <2>1, <2>2, <2>3, <2>7, <2>8, <2>9, <2>10, <2>11 DEF WatchInv
    <2> QED
      BY <1>0, <2>1, <2>7, <2>12 DEF Served, QueueInv, Types
  <1> QED
    BY <1>4, <1>5, <1>6

\* Every step leaves the service and the watcher as the invariant wants them.
LEMMA ServesOn == ASSUME IInv, Next PROVE Moved /\ Served
  <1>1. Moved
    BY MovesOn
  <1>2. CASE Service
    BY <1>1, <1>2, TransitionServes, AnswersServe DEF Service
  <1>3. CASE ~Service
    <2>1. \/ RequestOpenNotebook \/ User \/ Switch \/ FocusRetry
          \/ Emit \/ Events \/ CreateNote \/ Task \/ QueueImage \/ Image \/ SaveNote \/ Saving
      BY <1>3 DEF Next
    <2>2. UNCHANGED os
      BY <2>1 DEF RequestOpenNotebook, User, PickNothing, PickFails, Pick, Switch, UploadsDone,
         Flushed,
         FlushBlocks, Suspend, OpenNotebookAt, OpenFails, ListFails, CommitWorkspaceHandle,
         RolledBack, RollbackFails, EnterWorkspaceGate, FocusRetry, Emit, Events, Deliver,
         TimerFires, FlushWatcherEvents, CreateNote, QueueImage, Image, PrepareImage, WriteImage,
         WriteImageFails, InsertImage, CleanupOrphan, CleanupFails, InsertFails, SaveNote,
         Saving, StartSave, SaveAnswered, SaveIndexed, Task, Created, ListDirectory, TreeArrives,
         ListDirectoryFails, ReadForIndex, InstallIndex, IndexFails, RefreshDocument, Refreshed,
         ReadNote,
         ShowNote, NoteIsGone
    <2> QED
      BY <1>1, <2>1, <2>2, OthersAreChained, OthersServe
  <1> QED
    BY <1>2, <1>3

-----------------------------------------------------------------------------
\* The answers of the service leave what the page is about alone.
LEMMA AnsweredPage ==
    ASSUME IInv, WatchAnswered \/ StartFails \/ UnwatchAnswered
    PROVE  /\ page'.root = page.root /\ page'.treeReq = page.treeReq
           /\ page'.files = page.files /\ page'.note = page.note
           /\ page'.watchGen = page.watchGen /\ page'.dataGen = page.dataGen
           /\ page'.opening = page.opening
           /\ sw.pc \notin Stopped => sw'.pc \notin Stopped
  <1>0. Types /\ QueueInv /\ page \in PageType
    BY DEF IInv, Types
  <1>1. svc.queue # <<>> /\ sw' = SwitchAfter(Op.by)
    BY DEF IInv, WatchInv, WatchAnswered, StartFails, UnwatchAnswered
  <1>2. sw.pc \notin Stopped => sw'.pc \notin Stopped
    BY <1>0, <1>1, Answers DEF Awaited, Stopped
  <1>3. CASE StartFails \/ UnwatchAnswered
    BY <1>0, <1>2, <1>3 DEF StartFails, UnwatchAnswered, PageType
  <1>4. CASE WatchAnswered
    <2>1. page' = page \/ \E id : page' = [page EXCEPT !.unwatch = id]
      BY <1>4 DEF WatchAnswered
    <2> QED
      BY <1>0, <1>2, <2>1 DEF PageType
  <1> QED
    BY <1>3, <1>4

\* The watcher is only stopped, and the notebook only left, by the switch.
LEMMA PagesOn ==
    ASSUME IInv, Next
    PROVE  /\ page'.treeReq >= page.treeReq
           /\ ~Flushed /\ sw.pc \notin Stopped => page'.root = page.root /\ sw'.pc \notin Stopped
  <1>0. Types /\ PhaseInv /\ QueueInv /\ WatchInv /\ TaskInv /\ Moved /\ page.treeReq \in Nat
    BY MovesOn, Counters DEF IInv, Types
  <1>1. CASE RequestOpenNotebook \/ User \/ Switch \/ FocusRetry
    <2>1. Chained /\ Shown
      BY <1>0, <1>1, SwitchIsChained
    <2>2. ~Flushed => sw'.pc # "stopping" \/ sw.pc = "stopping"
      <3>1. ASSUME NEW p, NEW resume, Finish(p, resume) PROVE sw'.pc # "stopping"
        BY <1>0, <3>1 DEF Finish, Types, SwType
      <3>2. sw \in SwType
        BY <1>0 DEF Types
      <3>3. CASE RequestOpenNotebook \/ FocusRetry \/ UploadsDone \/ Suspend
        <4>1. CASE RequestOpenNotebook
          BY <4>1 DEF RequestOpenNotebook
        <4>2. CASE FocusRetry
          BY <4>2 DEF FocusRetry
        <4>3. CASE UploadsDone
          BY <3>2, <4>3 DEF UploadsDone, SwType
        <4>4. CASE Suspend
          <5>1. sw' = [sw EXCEPT !.pc = "opening", !.resume = sw.prev # None]
            BY <4>4 DEF Suspend
          <5> QED
            BY <3>2, <5>1 DEF SwType
        <4> QED
          BY <3>3, <4>1, <4>2, <4>3, <4>4
      <3>4. CASE PickNothing \/ PickFails \/ FlushBlocks \/ RolledBack \/ EnterWorkspaceGate
        BY <3>1, <3>4 DEF PickNothing, PickFails, FlushBlocks, RolledBack, EnterWorkspaceGate
      <3>5. ASSUME NEW r \in Roots, Pick(r) PROVE sw'.pc # "stopping"
        BY <3>1, <3>2, <3>5 DEF Pick, SwType
      <3>6. CASE OpenNotebookAt \/ OpenFails \/ ListFails \/ CommitWorkspaceHandle \/ RollbackFails
        BY <3>1, <3>2, <3>6 DEF OpenNotebookAt, OpenFails, ListFails, CommitWorkspaceHandle,
           RollbackFails, SwType
      <3> QED
        BY <1>1, <3>3, <3>4, <3>5, <3>6 DEF User, Switch
    <2>3. sw.pc \notin Stopped => sw.pc \in Watching
      BY <1>0 DEF Types, SwType, Phases, Stopped, Watching
    <2> QED
      BY <2>1, <2>2, <2>3 DEF Chained, Shown, Stopped
  <1>2. CASE WatchAnswered \/ StartFails \/ UnwatchAnswered
    BY <1>0, <1>2, AnsweredPage
  <1>3. CASE \/ BeginTransition \/ StopFileWatcher \/ Listen \/ StartFileWatcher
             \/ Emit \/ Events \/ CreateNote \/ Task \/ QueueImage \/ Image \/ SaveNote \/ Saving
    BY <1>0, <1>3, OthersAreCalm DEF Calm
  <1> QED
    BY <1>1, <1>2, <1>3 DEF Next, Service

-----------------------------------------------------------------------------
(***************************************************************************)
(* Events                                                                  *)
(***************************************************************************)

\* Only the watcher and the listener touch the events under way.
LEMMA WireOn == ASSUME IInv, Next PROVE wire' \in Seq(Handle) /\ WireInv'
  <1>0. Types /\ WatchInv /\ WireInv /\ Served /\ wire \in Seq(Handle) /\ os \in Handle
    BY ServesOn DEF IInv, Types
  <1>1. ASSUME UNCHANGED <<wire, os>>, svc'.pc = svc.pc \/ svc'.pc \notin {"starting", "started"}
        PROVE  wire' \in Seq(Handle) /\ WireInv'
    BY <1>0, <1>1 DEF WireInv
  <1>2. CASE Emit
    <2>1. wire' = Append(wire, os) /\ UNCHANGED <<svc, os>> /\ os.root # None
      BY <1>2 DEF Emit
    <2>2. /\ wire' \in Seq(Handle) /\ Len(wire) \in Nat /\ Len(wire') = Len(wire) + 1
          /\ \A i \in 1..Len(wire) : wire'[i] = wire[i]
          /\ wire'[Len(wire) + 1] = os
      BY <1>0, <2>1, AppendProperties, LenProperties
    <2>3. \A i \in 1..Len(wire') : i \in 1..Len(wire) \/ wire'[i] = os
      BY <2>2
    <2>4. svc.pc # "starting"
      BY <1>0, <2>1 DEF WatchInv
    <2> QED
      BY <1>0, <2>1, <2>2, <2>3, <2>4, GenerationsAreTyped DEF WireInv
  <1>3. CASE Deliver
    <2>1. wire' = Tail(wire) /\ wire # <<>> /\ UNCHANGED <<svc, os>>
      BY <1>3 DEF Deliver
    <2>2. /\ wire' \in Seq(Handle) /\ Len(wire) \in Nat /\ Len(wire') = Len(wire) - 1
          /\ \A i \in 1..Len(wire') : wire'[i] = wire[i + 1]
      BY <1>0, <2>1, HeadTailProperties, LenProperties
    <2>3. \A i \in 1..Len(wire') : i + 1 \in 1..Len(wire)
      BY <2>2
    <2>4. svc.pc # "starting"
      BY <1>0, <2>1 DEF WireInv
    <2> QED
      BY <1>0, <2>1, <2>2, <2>3, <2>4 DEF WireInv
  <1>4. CASE StartFileWatcher \/ StartFails
    <2>1. wire' = wire /\ wire = <<>>
      BY <1>0, <1>4 DEF StartFileWatcher, StartFails, WireInv
    <2>2. Len(wire') = 0
      BY <2>1
    <2> QED
      BY <1>0, <2>1, <2>2 DEF WireInv
  <1>5. CASE StopFileWatcher
    <2>1. /\ wire' = wire /\ os'.root = None /\ os'.gen = os.gen
          /\ svc'.pc \notin {"starting", "started"}
      BY <1>0, <1>5 DEF StopFileWatcher, Types, SvcType, Handle, AfterUnwatch
    <2> QED
      BY <1>0, <2>1 DEF WireInv
  <1>6. CASE Listen
    <2>1. wire' = wire /\ wire = <<>>
      BY <1>6 DEF Listen
    <2>2. Len(wire') = 0
      BY <2>1
    <2> QED
      BY <1>0, <2>1, <2>2 DEF WireInv
  <1>7. CASE BeginTransition \/ UnwatchAnswered
    <2>1. svc'.pc \in {"unwatching", "listening", "answering", "ready"} /\ UNCHANGED <<wire, os>>
      BY <1>0, <1>7 DEF BeginTransition, UnwatchAnswered, AfterUnwatch, Types, SvcType
    <2> QED
      BY <1>1, <2>1
  <1>8. CASE WatchAnswered
    <2> DEFINE active == [svc EXCEPT !.queue = Tail(@), !.pc = "ready",
                                     !.accept = os.gen, !.watching = Op.root]
    <2>1. svc' = active \/ svc' = CallUnwatch(active, active.watchId)
      BY <1>8 DEF WatchAnswered
    <2>2. svc'.pc = "ready" /\ UNCHANGED <<wire, os>>
      BY <1>0, <1>8, <2>1 DEF WatchAnswered, CallUnwatch, Queue, Types, SvcType
    <2> QED
      BY <1>1, <2>2
  <1>9. CASE \/ RequestOpenNotebook \/ User \/ Switch \/ FocusRetry
             \/ TimerFires \/ FlushWatcherEvents \/ CreateNote \/ Task \/ QueueImage \/ Image
             \/ SaveNote \/ Saving
    <2>1. UNCHANGED <<wire, os>>
      BY <1>9 DEF RequestOpenNotebook, User, PickNothing, PickFails, Pick, Switch, UploadsDone,
         Flushed,
         FlushBlocks, Suspend, OpenNotebookAt, OpenFails, ListFails, CommitWorkspaceHandle,
         RolledBack, RollbackFails, EnterWorkspaceGate, FocusRetry,
         TimerFires, FlushWatcherEvents, CreateNote, QueueImage, Image, PrepareImage, WriteImage,
         WriteImageFails, InsertImage, CleanupOrphan, CleanupFails, InsertFails, SaveNote,
         Saving, StartSave, SaveAnswered, SaveIndexed, Task, Created, ListDirectory, TreeArrives,
         ListDirectoryFails, ReadForIndex, InstallIndex, IndexFails, RefreshDocument, Refreshed,
         ReadNote,
         ShowNote, NoteIsGone
    <2>2. Moved
      BY MovesOn
    <2>3. Chained
      BY <1>9, <2>2, OthersAreChained DEF Events
    <2> QED
      BY <1>1, <2>1, <2>3 DEF Chained, SameService
  <1> QED
    BY <1>2, <1>3, <1>4, <1>5, <1>6, <1>7, <1>8, <1>9 DEF Next, Service, Events

\* An event that the current listener takes is of the page's notebook.
LEMMA HeardIsOwn ==
    ASSUME IInv, wire # <<>>, svc.listener # NoListener, svc.accept \in {0, Head(wire).gen},
           IsCurrentWatcher(svc.listener)
    PROVE  Head(wire).root = page.root /\ sw.pc \notin Stopped
  <1>0. WatchInv /\ WireInv /\ wire \in Seq(Handle) /\ page.watchGen \in Nat
    BY GenerationsAreTyped DEF IInv, Types
  <1>1. svc.listener.root = page.root /\ page.root # None /\ sw.pc \notin Stopped
    BY <1>0 DEF WatchInv, Fits, IsCurrentWatcher
  <1>2. Head(wire) = wire[1] /\ 1 \in 1..Len(wire)
    BY <1>0, HeadTailProperties
  <1>3. CASE svc.pc = "started"
    <2>1. wire[1].gen = os.gen /\ os.root = page.root
      BY <1>0, <1>1, <1>2, <1>3 DEF WatchInv, WireInv
    <2> QED
      BY <1>0, <1>1, <1>2, <2>1 DEF WireInv
  <1>4. CASE svc.pc = "ready" /\ svc.accept = os.gen /\ svc.listener.root = os.root
    <2>1. wire[1].gen = os.gen /\ os.root = page.root
      BY <1>0, <1>1, <1>2, <1>4, GenerationsAreTyped DEF WatchInv, IInv
    <2> QED
      BY <1>0, <1>1, <1>2, <2>1 DEF WireInv
  <1>5. svc.pc # "starting"
    BY <1>0 DEF WireInv
  <1> QED
    BY <1>0, <1>3, <1>4, <1>5 DEF WatchInv

\* What waits in the chain of flushes still fits.
FlushFits(f, p, ph) ==
    /\ Fits(f.watch, p, ph)
    /\ f.watch.gen = p.watchGen => f.from \subseteq {p.root}

LEMMA FlushOn ==
    ASSUME IInv, Moved, NEW i \in 1..Len(refresh.chain)
    PROVE  /\ refresh.chain[i] \in FlushType
           /\ FlushFits(refresh.chain[i], page', sw'.pc)
  <1>1. refresh.chain \in Seq(FlushType) /\ Types
    BY DEF IInv, Types, RefreshType
  <1>2. refresh.chain[i] \in FlushType /\ refresh.chain[i].watch.gen \in Nat
    <2>1. refresh.chain[i] \in FlushType
      BY <1>1, ElementOfSeq
    <2> QED
      BY <2>1 DEF FlushType, Handle
  <1>3. FlushFits(refresh.chain[i], page, sw.pc)
    BY DEF IInv, RefreshInv, FlushFits
  <1> QED
    BY <1>1, <1>2, <1>3, FitsOn DEF FlushFits

\* What the page keeps for the next flush, when it adds nothing.
LEMMA PendingOn ==
    ASSUME IInv, Moved, sw.pc \notin Stopped => page'.root = page.root /\ sw'.pc \notin Stopped
    PROVE  /\ refresh.pending \subseteq {page'.root}
           /\ sw'.pc \in Stopped => refresh.pending = {} /\ refresh.timer = NoTimer
           /\ Fits(refresh.timer, page', sw'.pc)
  <1>1. Types /\ RefreshInv /\ refresh.timer.gen \in Nat
    BY GenerationsAreTyped DEF IInv
  <1>2. Fits(refresh.timer, page', sw'.pc)
    BY <1>1, FitsOn DEF RefreshInv
  <1> QED
    BY <1>1, <1>2 DEF RefreshInv

\* RefreshInv of the next state, from the parts of the new record.
LEMMA RefreshFits ==
    ASSUME refresh' \in RefreshType,
           refresh'.pending \subseteq {page'.root},
           sw'.pc \in Stopped => refresh'.pending = {} /\ refresh'.timer = NoTimer,
           Fits(refresh'.timer, page', sw'.pc),
           \A i \in 1..Len(refresh'.chain) : FlushFits(refresh'.chain[i], page', sw'.pc)
    PROVE  refresh' \in RefreshType /\ RefreshInv'
  BY DEF RefreshInv, FlushFits

LEMMA FlushLeaves ==
    ASSUME IInv, Moved, refresh.chain # <<>>, refresh' = PopFlush,
           sw.pc \notin Stopped => page'.root = page.root /\ sw'.pc \notin Stopped
    PROVE  refresh' \in RefreshType /\ RefreshInv'
  <1>0. refresh \in RefreshType /\ refresh.chain \in Seq(FlushType)
    BY DEF IInv, Types, RefreshType
  <1> DEFINE c == Tail(refresh.chain)
  <1>1. /\ c \in Seq(FlushType) /\ Len(refresh.chain) \in Nat /\ Len(c) = Len(refresh.chain) - 1
        /\ \A i \in 1..Len(c) : c[i] = refresh.chain[i + 1]
    BY <1>0, HeadTailProperties, LenProperties
  <1>2. refresh' = [refresh EXCEPT !.chain = c]
    BY DEF PopFlush
  <1> HIDE DEF c
  <1>3. \A i \in 1..Len(c) : i + 1 \in 1..Len(refresh.chain)
    BY <1>1
  <1>4. /\ refresh' \in RefreshType /\ refresh'.chain = c
        /\ refresh'.pending = refresh.pending /\ refresh'.timer = refresh.timer
    BY <1>0, <1>1, <1>2 DEF RefreshType
  <1>5. \A i \in 1..Len(c) : FlushFits(c[i], page', sw'.pc)
    BY <1>1, <1>3, FlushOn
  <1> QED
    BY <1>4, <1>5, PendingOn, RefreshFits

LEMMA RefreshOn == ASSUME IInv, Next PROVE refresh' \in RefreshType /\ RefreshInv'
  <1>0. /\ Types /\ WatchInv /\ RefreshInv /\ PhaseInv /\ Moved /\ PhaseInv' /\ Served
        /\ refresh \in RefreshType /\ refresh.chain \in Seq(FlushType) /\ page' \in PageType
        /\ page \in PageType
    BY ServesOn DEF IInv, Types, RefreshType, Moved
  <1>1. ~Flushed /\ sw.pc \notin Stopped => page'.root = page.root /\ sw'.pc \notin Stopped
    BY PagesOn
  <1>2. /\ NoTimer \in Handle /\ Fits(NoTimer, page', sw'.pc)
    BY <1>0, HandlesAreTyped, Counters DEF PhaseInv, Fits
  <1>3. CASE UNCHANGED refresh /\ ~Flushed
    BY <1>0, <1>1, <1>3, PendingOn, FlushOn, RefreshFits
  <1>4. CASE StopWatcher
    <2>1. refresh' = [refresh EXCEPT !.pending = {}, !.timer = NoTimer]
      BY <1>4 DEF StopWatcher
    <2>2. /\ refresh' \in RefreshType /\ refresh'.pending = {} /\ refresh'.timer = NoTimer
          /\ refresh'.chain = refresh.chain
      BY <1>0, <1>2, <2>1 DEF RefreshType
    <2> QED
      BY <1>0, <1>2, <2>2, FlushOn, RefreshFits
  <1>5. CASE Deliver
    <2>0. UNCHANGED <<page, sw>> /\ wire # <<>>
      BY <1>5 DEF Deliver
    <2>1. CASE /\ svc.listener # NoListener
               /\ svc.accept \in {0, Head(wire).gen}
               /\ IsCurrentWatcher(svc.listener)
      <3>1. refresh' = [refresh EXCEPT !.pending = @ \cup {Head(wire).root},
                                       !.timer = svc.listener]
        BY <1>5, <2>1 DEF Deliver
      <3>2. Head(wire).root = page.root /\ sw.pc \notin Stopped
        BY <2>0, <2>1, HeardIsOwn
      <3>3. svc.listener \in Handle /\ page.root \in MaybeRoot
            /\ Fits(svc.listener, page, sw.pc)
        BY <1>0, GenerationsAreTyped DEF PageType, WatchInv
      <3>4. refresh' \in RefreshType
        BY <1>0, <3>1, <3>2, <3>3 DEF RefreshType
      <3>5. /\ refresh'.pending = refresh.pending \cup {page.root}
            /\ refresh'.timer = svc.listener /\ refresh'.chain = refresh.chain
        BY <1>0, <3>1, <3>2 DEF RefreshType
      <3> QED
        BY <1>0, <2>0, <3>2, <3>3, <3>4, <3>5, FlushOn, RefreshFits DEF RefreshInv
    <2>2. CASE UNCHANGED refresh
      BY <1>0, <1>1, <2>0, <2>2, PendingOn, FlushOn, RefreshFits
    <2> QED
      BY <1>5, <2>1, <2>2 DEF Deliver
  <1>6. CASE TimerFires
    <2> DEFINE f == [from |-> refresh.pending, watch |-> refresh.timer]
               c == Append(refresh.chain, f)
    <2>1. refresh' = [pending |-> {}, timer |-> NoTimer, chain |-> c]
          /\ UNCHANGED <<page, sw>>
      BY <1>6 DEF TimerFires
    <2>2. f \in FlushType /\ f.from = refresh.pending /\ f.watch = refresh.timer
      BY <1>0 DEF FlushType, RefreshType
    <2> HIDE DEF f
    <2>3. /\ c \in Seq(FlushType) /\ Len(refresh.chain) \in Nat
          /\ Len(c) = Len(refresh.chain) + 1
          /\ \A i \in 1..Len(refresh.chain) : c[i] = refresh.chain[i]
          /\ c[Len(refresh.chain) + 1] = f
      BY <1>0, <2>2, AppendProperties, LenProperties
    <2> HIDE DEF c
    <2>4. \A i \in 1..Len(c) : i \in 1..Len(refresh.chain) \/ c[i] = f
      BY <2>3
    <2>5. FlushFits(f, page', sw'.pc)
      BY <1>0, <2>1, <2>2 DEF RefreshInv, FlushFits
    <2>6. \A i \in 1..Len(c) : FlushFits(c[i], page', sw'.pc)
      BY <1>0, <2>3, <2>4, <2>5, FlushOn
    <2>7. refresh' \in RefreshType /\ refresh'.pending = {} /\ refresh'.timer = NoTimer
          /\ refresh'.chain = c
      BY <1>2, <2>1, <2>3 DEF RefreshType
    <2> QED
      BY <1>2, <2>6, <2>7, RefreshFits
  <1>7. CASE refresh' = PopFlush /\ refresh.chain # <<>> /\ ~Flushed
    BY <1>0, <1>1, <1>7, FlushLeaves
  <1>8. CASE Task
    <2>1. PICK t \in tasks :
            \/ Created(t) \/ ListDirectory(t) \/ TreeArrives(t) \/ ListDirectoryFails(t)
            \/ ReadForIndex(t) \/ InstallIndex(t) \/ IndexFails(t)
            \/ RefreshDocument(t) \/ ReadNote(t) \/ ShowNote(t) \/ NoteIsGone(t)
      BY <1>8 DEF Task
    <2>2. ASSUME NEW p, Ends(t, p)
          PROVE  refresh' = refresh \/ (refresh' = PopFlush /\ refresh.chain # <<>>)
      BY <2>2 DEF Ends, IInv, DistinctInv
    <2>3. refresh' = refresh \/ (refresh' = PopFlush /\ refresh.chain # <<>>)
      BY <2>1, <2>2 DEF Created, ListDirectory, TreeArrives, ListDirectoryFails, ReadForIndex,
         InstallIndex, IndexFails, RefreshDocument, Refreshed, ReadNote, ShowNote, NoteIsGone
    <2>4. sw' = sw /\ page'.root = page.root
      BY <1>0, <1>8, OthersAreCalm DEF Calm, IInv
    <2> QED
      BY <1>0, <2>3, <2>4, PendingOn, FlushOn, RefreshFits, FlushLeaves
  <1>9. CASE \/ RequestOpenNotebook \/ User \/ Switch \/ FocusRetry \/ Service
             \/ Emit \/ CreateNote \/ QueueImage \/ Image \/ SaveNote \/ Saving \/ FlushWatcherEvents
    <2>1. \/ UNCHANGED refresh /\ ~Flushed
          \/ StopWatcher
          \/ refresh' = PopFlush /\ refresh.chain # <<>> /\ ~Flushed
      <3>1. CASE FlushWatcherEvents
        <4>1. UNCHANGED sw
          BY <3>1 DEF FlushWatcherEvents
        <4>2. ~Flushed
          BY <1>0, <4>1 DEF Flushed, Types, SwType
        <4> QED
          BY <3>1, <4>2 DEF FlushWatcherEvents
      <3>2. CASE Flushed
        BY <3>2 DEF Flushed
      <3>3. CASE ~Flushed
        BY <1>9, <3>1, <3>3 DEF RequestOpenNotebook, User, PickNothing, PickFails, Pick, Switch,
           UploadsDone,
           FlushBlocks, Suspend, OpenNotebookAt, OpenFails, ListFails, CommitWorkspaceHandle,
           RolledBack, RollbackFails, EnterWorkspaceGate, FocusRetry, Service, BeginTransition,
           StopFileWatcher, Listen, StartFileWatcher, WatchAnswered, StartFails, UnwatchAnswered,
           Emit, CreateNote, QueueImage, Image, PrepareImage, WriteImage, WriteImageFails,
           InsertImage, CleanupOrphan, CleanupFails, InsertFails, SaveNote, Saving, StartSave,
           SaveAnswered, SaveIndexed
      <3> QED
        BY <3>2, <3>3
    <2> QED
      BY <1>3, <1>4, <1>7, <2>1
  <1> QED
    BY <1>5, <1>6, <1>8, <1>9 DEF Next, Events

-----------------------------------------------------------------------------
(***************************************************************************)
(* Work that lists the notebook                                            *)
(***************************************************************************)

TasksOn == tasks' \subseteq TaskType /\ TaskInv' /\ DistinctInv'

\* A task that nobody touches fits the page as it moves on.
LEMMA TaskOn ==
    ASSUME IInv, Moved, index' \in IndexType, NEW t \in tasks
    PROVE  t \in TaskType /\ TaskFits(t, page', sw'.pc, index'.gen)
  <1>0. /\ Types /\ TaskFits(t, page, sw.pc, index.gen) /\ t \in TaskType
        /\ index.gen \in Nat /\ index'.gen \in Nat /\ page.dataGen \in Nat
        /\ page'.dataGen \in Nat
    BY DEF IInv, Types, TaskInv, IndexType, PageType, Moved
  <1>1. t.gen \in Nat /\ t.watch.gen \in Nat /\ t.igen \in Nat
    <2>1. t.watch \in Handle
      BY <1>0 DEF TaskType
    <2> QED
      BY <1>0, <2>1 DEF TaskType, Handle
  <1>2. /\ OnPage(t.root, t.gen, page')
        /\ t.gen = page'.dataGen => t.gen = page.dataGen /\ page'.root = page.root
    BY <1>0, <1>1, OnPageOn DEF TaskFits
  <1>3. /\ Fits(t.watch, page', sw'.pc)
        /\ t.watch.gen = page'.watchGen =>
              /\ t.watch.gen = page.watchGen /\ page'.root = page.root
              /\ page'.dataGen = page.dataGen
    BY <1>0, <1>1, FitsOn DEF TaskFits
  <1>4. t.pc = "indexing" => t.igen <= index'.gen /\ (t.igen = index'.gen => t.gen = page'.dataGen)
    BY <1>0, <1>1 DEF Moved, Forward, TaskFits
  <1> QED
    BY <1>0, <1>2, <1>3, <1>4 DEF TaskFits

LEMMA ReqsAreTyped ==
    ASSUME IInv, NEW t \in tasks
    PROVE  t \in TaskType /\ t.req \in Nat /\ t.req <= page.treeReq
  BY DEF IInv, Types, DistinctInv, TaskType

LEMMA TasksStay ==
    ASSUME IInv, Moved, index' \in IndexType, tasks' \subseteq tasks,
           page'.treeReq >= page.treeReq,
           \A t \in tasks' : t.kind = "flush" => refresh'.chain # <<>>
    PROVE  TasksOn
  <1>1. tasks' \subseteq TaskType /\ TaskInv'
    BY TaskOn DEF TaskInv
  <1>2. page.treeReq \in Nat /\ page'.treeReq \in Nat
    BY Counters DEF IInv, Types, Moved
  <1>3. \A t \in tasks' : t.req <= page'.treeReq
    BY <1>2, ReqsAreTyped
  <1> QED
    BY <1>1, <1>3 DEF TasksOn, IInv, DistinctInv

LEMMA TaskBecomes ==
    ASSUME IInv, Moved, index' \in IndexType, NEW t \in tasks, NEW u \in TaskType,
           tasks' = (tasks \ {t}) \cup {u},
           TaskFits(u, page', sw'.pc, index'.gen), u.kind = t.kind, u.pc # "creating",
           \/ u.req = t.req /\ page'.treeReq >= page.treeReq
           \/ u.req = page.treeReq + 1 /\ page'.treeReq = page.treeReq + 1,
           refresh'.chain = refresh.chain
    PROVE  TasksOn
  <1>1. tasks' \subseteq TaskType /\ TaskInv'
    BY TaskOn DEF TaskInv
  <1>2. page.treeReq \in Nat /\ page'.treeReq \in Nat /\ DistinctInv
    BY Counters DEF IInv, Types, Moved
  <1>3. ASSUME NEW x \in tasks'
        PROVE  /\ x.req <= page'.treeReq
               /\ x.req = 0 => x.kind = "op"
               /\ x.pc = "creating" => x.kind = "op"
               /\ x.kind = "flush" => refresh'.chain # <<>>
    BY <1>2, ReqsAreTyped DEF DistinctInv
  <1>4. ASSUME NEW x \in tasks \ {t}
        PROVE  /\ x.req # u.req
               /\ ~(x.kind = u.kind /\ x.kind \in {"op", "flush"})
    BY <1>2, ReqsAreTyped DEF DistinctInv
  <1>5. ASSUME NEW x \in tasks', NEW y \in tasks'
        PROVE  /\ x.req = y.req => x = y
               /\ x.kind = y.kind /\ x.kind \in {"op", "flush"} => x = y
    <2>1. CASE x = u \/ y = u
      BY <1>4, <2>1
    <2>2. CASE x # u /\ y # u
      BY <1>2, <2>2 DEF DistinctInv
    <2> QED
      BY <2>1, <2>2
  <1> QED
    BY <1>1, <1>3, <1>5 DEF TasksOn, DistinctInv

LEMMA TaskStarts ==
    ASSUME IInv, Moved, index' \in IndexType, NEW u \in TaskType,
           tasks' = tasks \cup {u},
           TaskFits(u, page', sw'.pc, index'.gen),
           \/ u.req = page.treeReq + 1 /\ page'.treeReq = page.treeReq + 1
           \/ u.req = 0 /\ u.kind = "op" /\ page'.treeReq = page.treeReq,
           u.pc = "creating" => u.kind = "op",
           u.kind \in {"op", "flush"} => \A t \in tasks : t.kind # u.kind,
           u.kind = "flush" => refresh.chain # <<>>,
           refresh'.chain = refresh.chain
    PROVE  TasksOn
  <1>1. tasks' \subseteq TaskType /\ TaskInv'
    BY TaskOn DEF TaskInv
  <1>2. page.treeReq \in Nat /\ page'.treeReq \in Nat /\ DistinctInv
    BY Counters DEF IInv, Types, Moved
  <1>3. ASSUME NEW x \in tasks'
        PROVE  /\ x.req <= page'.treeReq
               /\ x.req = 0 => x.kind = "op"
               /\ x.pc = "creating" => x.kind = "op"
               /\ x.kind = "flush" => refresh'.chain # <<>>
    BY <1>2, ReqsAreTyped DEF DistinctInv
  <1>4. ASSUME NEW x \in tasks
        PROVE  /\ x.req # u.req
               /\ ~(x.kind = u.kind /\ x.kind \in {"op", "flush"})
    BY <1>2, ReqsAreTyped DEF DistinctInv
  <1>5. ASSUME NEW x \in tasks', NEW y \in tasks'
        PROVE  /\ x.req = y.req => x = y
               /\ x.kind = y.kind /\ x.kind \in {"op", "flush"} => x = y
    <2>1. CASE x \in tasks /\ y \in tasks
      BY <1>2, <2>1 DEF DistinctInv
    <2>2. CASE x = u \/ y = u
      BY <1>4, <2>2
    <2> QED
      BY <2>1, <2>2
  <1> QED
    BY <1>1, <1>3, <1>5 DEF TasksOn, DistinctInv

\* A task that ends leaves the chain of flushes when it is one.
LEMMA TaskEnds ==
    ASSUME IInv, Moved, index' \in IndexType, NEW t \in tasks, NEW p, Ends(t, p),
           page'.treeReq >= page.treeReq
    PROVE  TasksOn
  <1>1. tasks' = tasks \ {t} /\ DistinctInv
    BY DEF Ends, IInv
  <1>2. ASSUME NEW x \in tasks', x.kind = "flush" PROVE refresh'.chain # <<>>
    <2>1. x \in tasks /\ x # t
      BY <1>1
    <2>2. t.kind # "flush"
      BY <1>1, <1>2, <2>1 DEF DistinctInv
    <2>3. refresh' = refresh
      BY <2>2 DEF Ends
    <2> QED
      BY <1>1, <1>2, <2>1, <2>3 DEF DistinctInv
  <1> QED
    BY <1>1, <1>2, TasksStay

\* The fields of a new listing.
LEMMA ListingIsTyped ==
    ASSUME NEW p \in PageType, NEW kind \in {"init", "flush", "op", "image"}
    PROVE  LET u == Listing(kind, p) IN
           /\ u \in TaskType /\ u.kind = kind /\ u.pc = "listing" /\ u.root = p.root
           /\ u.gen = p.dataGen /\ u.req = p.treeReq + 1 /\ u.watch = NoTimer
           /\ u.from = {} /\ u.seen = {}
  <1>1. p.note.n \in Nat /\ p.root \in MaybeRoot
    BY DEF PageType, Note
  <1>2. {} \in SUBSET MaybeRoot
    OBVIOUS
  <1>3. Listing(kind, p) \in TaskType
    BY <1>1, <1>2, HandlesAreTyped, Counters DEF Listing, TaskType
  <1> QED
    BY <1>3 DEF Listing

\* While nothing is being opened the backend has the page's root.
LEMMA CurrentIsOwn ==
    ASSUME IInv, NEW r, NEW g, OnPage(r, g, page), g = page.dataGen
    PROVE  /\ r = page.root /\ page.root # None /\ page.root \in Roots
           /\ ~page.opening /\ backend = page.root
  <1>1. page.dataGen \in Nat /\ page.root \in MaybeRoot
    BY Counters DEF IInv, Types, PageType
  <1> QED
    BY <1>1 DEF IInv, PhaseInv, RootsAgree, OnPage, MaybeRoot

\* What the steps of a task make of it.
LEMMA TaskGoesOn ==
    ASSUME IInv, Calm, NEW t \in tasks, NEW u,
           u.root = t.root, u.gen = t.gen, u.watch = t.watch, u.from = t.from,
           u.seen \subseteq t.seen \cup {backend},
           u.pc \in {"listed", "noteRead"} => u.seen # {},
           u.pc = "indexing" =>
               \/ t.pc = "indexing" /\ u.igen = t.igen /\ index'.gen = index.gen
               \/ u.igen = index'.gen /\ index'.gen \in Nat /\ t.gen = page.dataGen
    PROVE  TaskFits(u, page', sw'.pc, index'.gen)
  <1>1. TaskFits(t, page, sw.pc, index.gen)
    BY DEF IInv, TaskInv
  <1>2. t.gen = page.dataGen => t.root = page.root /\ backend = page.root
    BY <1>1, CurrentIsOwn DEF TaskFits
  <1> QED
    BY <1>1, <1>2 DEF TaskFits, Calm, Fits, OnPage

-----------------------------------------------------------------------------
\* A step of task t goes on with a task of the same kind, or ends it.
LEMMA TaskStepFits ==
    ASSUME IInv, Next, NEW t \in tasks,
           \/ Created(t) \/ ListDirectory(t) \/ TreeArrives(t) \/ ListDirectoryFails(t)
           \/ ReadForIndex(t) \/ InstallIndex(t) \/ IndexFails(t)
           \/ RefreshDocument(t) \/ ReadNote(t) \/ ShowNote(t) \/ NoteIsGone(t)
    PROVE  TasksOn
  <1>0. /\ Types /\ TaskInv /\ Moved /\ index' \in IndexType /\ Calm
        /\ page'.treeReq >= page.treeReq
        /\ t \in TaskType /\ backend \in MaybeRoot /\ page \in PageType
        /\ page.treeReq \in Nat /\ page.treeReq + 1 \in Nat
        /\ index.gen \in Nat /\ index.gen + 1 \in Nat /\ index'.gen \in Nat
        /\ index.service \in Nat
    BY MovesOn, TaskPage, Counters DEF IInv, Types, IndexType
  <1>1. ASSUME NEW p, Ends(t, p) PROVE TasksOn
    BY <1>0, <1>1, TaskEnds
  <1>2. ASSUME NEW ph \in {"listed", "noteRead"}, Become(t, [t EXCEPT !.pc = ph,
     !.seen = {backend}]),
               UNCHANGED refresh
        PROVE  TasksOn
    <2> DEFINE u == [t EXCEPT !.pc = ph, !.seen = {backend}]
    <2>1. u \in TaskType
      BY <1>0 DEF TaskType
    <2>2. /\ u.kind = t.kind /\ u.pc = ph /\ u.root = t.root /\ u.gen = t.gen
          /\ u.req = t.req /\ u.watch = t.watch /\ u.from = t.from /\ u.seen = {backend}
      BY <1>0 DEF TaskType
    <2>3. tasks' = (tasks \ {t}) \cup {u}
      BY <1>2 DEF Become
    <2> HIDE DEF u
    <2>4. TaskFits(u, page', sw'.pc, index'.gen)
      BY <1>0, <2>2, TaskGoesOn
    <2> QED
      BY <1>0, <1>2, <2>1, <2>2, <2>3, <2>4, TaskBecomes
  <1>3. ASSUME Become(t, [t EXCEPT !.pc = "note"]), UNCHANGED refresh
        PROVE  TasksOn
    <2> DEFINE u == [t EXCEPT !.pc = "note"]
    <2>1. u \in TaskType
      BY <1>0 DEF TaskType
    <2>2. /\ u.kind = t.kind /\ u.pc = "note" /\ u.root = t.root /\ u.gen = t.gen
          /\ u.req = t.req /\ u.watch = t.watch /\ u.from = t.from /\ u.seen = t.seen
      BY <1>0 DEF TaskType
    <2>3. tasks' = (tasks \ {t}) \cup {u}
      BY <1>3 DEF Become
    <2> HIDE DEF u
    <2>4. TaskFits(u, page', sw'.pc, index'.gen)
      BY <1>0, <2>2, TaskGoesOn
    <2> QED
      BY <1>0, <1>3, <2>1, <2>2, <2>3, <2>4, TaskBecomes
  <1>4. CASE Created(t)
    <2>1. CASE /\ Become(t, [t EXCEPT !.pc = "listing", !.req = page.treeReq + 1])
               /\ page' = [page EXCEPT !.treeReq = @ + 1]
               /\ UNCHANGED refresh
      <3> DEFINE u == [t EXCEPT !.pc = "listing", !.req = page.treeReq + 1]
      <3>1. u \in TaskType
        BY <1>0 DEF TaskType
      <3>2. /\ u.kind = t.kind /\ u.pc = "listing" /\ u.root = t.root /\ u.gen = t.gen
            /\ u.req = page.treeReq + 1 /\ u.watch = t.watch /\ u.from = t.from
            /\ u.seen = t.seen
        BY <1>0 DEF TaskType
      <3>3. tasks' = (tasks \ {t}) \cup {u}
        BY <2>1 DEF Become
      <3>5. page'.treeReq = page.treeReq + 1
        BY <1>0, <2>1 DEF PageType
      <3> HIDE DEF u
      <3>4. TaskFits(u, page', sw'.pc, index'.gen)
        BY <1>0, <3>2, TaskGoesOn
      <3> QED
        BY <1>0, <2>1, <3>1, <3>2, <3>3, <3>4, <3>5, TaskBecomes
    <2> QED
      BY <1>1, <1>4, <2>1 DEF Created
  <1>5. CASE TreeArrives(t)
    <2> DEFINE fresh == t.req = page.treeReq /\ CurrentNotebook(t)
               p == IF fresh THEN Listed(page, t) ELSE page
    <2>1. CASE /\ fresh
               /\ Become(t, [t EXCEPT !.pc = "indexing", !.igen = index.gen + 1, !.seen = {}])
               /\ index' = [index EXCEPT !.status = "building", !.gen = @ + 1]
               /\ UNCHANGED refresh
      <3> DEFINE u == [t EXCEPT !.pc = "indexing", !.igen = index.gen + 1, !.seen = {}]
      <3>1. u \in TaskType
        BY <1>0 DEF TaskType
      <3>2. /\ u.kind = t.kind /\ u.pc = "indexing" /\ u.root = t.root /\ u.gen = t.gen
            /\ u.req = t.req /\ u.watch = t.watch /\ u.from = t.from
            /\ u.seen = {} /\ u.igen = index.gen + 1
        BY <1>0 DEF TaskType
      <3>3. tasks' = (tasks \ {t}) \cup {u}
        BY <2>1 DEF Become
      <3>5. index'.gen = index.gen + 1
        BY <1>0, <2>1 DEF Types, IndexType
      <3>6. t.gen = page.dataGen
        BY <2>1 DEF CurrentNotebook
      <3> HIDE DEF u
      <3>4. TaskFits(u, page', sw'.pc, index'.gen)
        BY <1>0, <3>2, <3>5, <3>6, TaskGoesOn
      <3> QED
        BY <1>0, <2>1, <3>1, <3>2, <3>3, <3>4, TaskBecomes
    <2>2. CASE /\ Become(t, [t EXCEPT !.pc = "document", !.igen = index.service])
               /\ UNCHANGED refresh
      <3> DEFINE u == [t EXCEPT !.pc = "document", !.igen = index.service]
      <3>1. u \in TaskType
        BY <1>0 DEF TaskType
      <3>2. /\ u.kind = t.kind /\ u.pc = "document" /\ u.root = t.root /\ u.gen = t.gen
            /\ u.req = t.req /\ u.watch = t.watch /\ u.from = t.from /\ u.seen = t.seen
        BY <1>0 DEF TaskType
      <3>3. tasks' = (tasks \ {t}) \cup {u}
        BY <2>2 DEF Become
      <3> HIDE DEF u
      <3>4. TaskFits(u, page', sw'.pc, index'.gen)
        BY <1>0, <3>2, TaskGoesOn
      <3> QED
        BY <1>0, <2>2, <3>1, <3>2, <3>3, <3>4, TaskBecomes
    <2>3. CASE Ends(t, p)
      BY <1>1, <2>3
    <2> QED
      <3>1. CASE t.kind = "init" /\ fresh
        BY <1>5, <2>1, <3>1 DEF TreeArrives
      <3>2. CASE ~(t.kind = "init" /\ fresh)
        BY <1>5, <2>2, <2>3, <3>2 DEF TreeArrives
      <3> QED
        BY <3>1, <3>2
  <1>6. CASE ReadForIndex(t)
    <2> DEFINE u == [t EXCEPT !.seen = @ \cup {backend}]
    <2>1. u \in TaskType
      BY <1>0 DEF TaskType
    <2>2. /\ u.kind = t.kind /\ u.pc = "indexing" /\ u.root = t.root /\ u.gen = t.gen
          /\ u.req = t.req /\ u.watch = t.watch /\ u.from = t.from
          /\ u.seen = t.seen \cup {backend} /\ u.igen = t.igen /\ t.pc = "indexing"
      BY <1>0, <1>6 DEF TaskType, ReadForIndex
    <2>3. tasks' = (tasks \ {t}) \cup {u} /\ UNCHANGED <<refresh, index>>
      BY <1>6 DEF Become, ReadForIndex
    <2> HIDE DEF u
    <2>4. TaskFits(u, page', sw'.pc, index'.gen)
      BY <1>0, <2>2, <2>3, TaskGoesOn
    <2> QED
      BY <1>0, <2>1, <2>2, <2>3, <2>4, TaskBecomes
  <1>7. CASE RefreshDocument(t)
    <2>1. \/ Become(t, [t EXCEPT !.pc = "note"]) /\ UNCHANGED refresh
          \/ \E p : Ends(t, p)
      BY <1>7 DEF RefreshDocument, Refreshed
    <2> QED
      BY <1>1, <1>3, <2>1
  <1>8. CASE ListDirectory(t)
    BY <1>2, <1>8 DEF ListDirectory
  <1>9. CASE ListDirectoryFails(t)
    BY <1>1, <1>3, <1>9 DEF ListDirectoryFails
  <1>10. CASE ReadNote(t)
    BY <1>1, <1>2, <1>10 DEF ReadNote
  <1>11. CASE InstallIndex(t) \/ IndexFails(t) \/ ShowNote(t) \/ NoteIsGone(t)
    BY <1>1, <1>11 DEF InstallIndex, IndexFails, ShowNote, NoteIsGone
  <1> QED
    BY <1>4, <1>5, <1>6, <1>7, <1>8, <1>9, <1>10, <1>11

\* A new listing of the page's notebook.
LEMMA ListingStarts ==
    ASSUME IInv, Moved, index' \in IndexType,
           NEW p \in PageType, NEW kind \in {"init", "image"},
           p.root = page'.root, p.dataGen = page'.dataGen, p.treeReq = page.treeReq,
           page'.root # None, ~page'.opening, page'.treeReq = page.treeReq + 1,
           tasks' = tasks \cup {Listing(kind, p)}, refresh'.chain = refresh.chain
    PROVE  TasksOn
  <1> DEFINE u == Listing(kind, p)
  <1>1. /\ u \in TaskType /\ u.kind = kind /\ u.pc = "listing" /\ u.root = p.root
        /\ u.gen = p.dataGen /\ u.req = p.treeReq + 1 /\ u.watch = NoTimer
        /\ u.from = {} /\ u.seen = {}
    BY ListingIsTyped
  <1>2. page'.watchGen \in Nat /\ page'.watchGen > 0 /\ NoTimer.gen = 0
    BY HandlesAreTyped, Counters DEF Moved, PhaseInv
  <1>3. tasks' = tasks \cup {u}
    OBVIOUS
  <1> HIDE DEF u
  <1>4. TaskFits(u, page', sw'.pc, index'.gen)
    BY <1>1, <1>2 DEF TaskFits, OnPage, Fits
  <1> QED
    BY <1>1, <1>3, <1>4, TaskStarts

LEMMA TasksGoOn == ASSUME IInv, Next PROVE TasksOn
  <1>0. /\ Types /\ PhaseInv /\ PhaseInv' /\ Moved /\ index' \in IndexType /\ TaskInv /\ DistinctInv
        /\ page \in PageType /\ page.treeReq \in Nat /\ page'.treeReq >= page.treeReq
        /\ page.watchGen \in Nat /\ page.watchGen > 0 /\ NoTimer.gen = 0
    BY MovesOn, PagesOn, Counters, HandlesAreTyped DEF IInv, Types, Moved, PhaseInv
  <1>1. CASE Task
    BY <1>1, TaskStepFits DEF Task
  <1>2. CASE CommitWorkspaceHandle
    <2> DEFINE bound == [page EXCEPT !.gate = "none", !.root = sw.next, !.note = NoNote,
                                     !.files = backend, !.opening = FALSE, !.noteLock = FALSE]
               started == RestartPage(bound)
    <2>1. sw.next \in Roots /\ sw.next # None /\ backend \in MaybeRoot
      BY <1>0, <1>2, NoneAssumption DEF CommitWorkspaceHandle, PhaseInv, Types
    <2>2. /\ bound \in PageType /\ bound.root = sw.next /\ bound.dataGen = page.dataGen
          /\ bound.treeReq = page.treeReq /\ ~bound.opening
      BY <1>0, <2>1, HandlesAreTyped DEF PageType, MaybeRoot
    <2>3. /\ page' = [started EXCEPT !.treeReq = @ + 1]
          /\ tasks' = tasks \cup {Listing("init", started)}
          /\ UNCHANGED refresh
      BY <1>2 DEF CommitWorkspaceHandle
    <2>4. /\ started \in PageType /\ started.root = sw.next /\ started.dataGen = page.dataGen
          /\ started.treeReq = page.treeReq /\ ~started.opening
      <3> HIDE DEF bound
      <3> QED
        BY <2>2, Restarted
    <2> HIDE DEF started
    <2>5. /\ page'.root = started.root /\ page'.dataGen = started.dataGen
          /\ page'.treeReq = page.treeReq + 1 /\ ~page'.opening
      BY <2>3, <2>4 DEF PageType
    <2> QED
      BY <1>0, <2>1, <2>3, <2>4, <2>5, ListingStarts
  <1>3. CASE InsertImage
    <2>1. /\ page' = [page EXCEPT !.treeReq = @ + 1]
          /\ tasks' = tasks \cup {Listing("image", page)}
          /\ UNCHANGED refresh /\ image.pc = "written" /\ image.epoch = page.dataGen
      BY <1>3 DEF InsertImage, OwnerCurrent
    <2>2. page.root # None /\ ~page.opening
      BY <2>1, CurrentIsOwn DEF IInv, ImageInv
    <2>3. /\ page'.root = page.root /\ page'.dataGen = page.dataGen
          /\ page'.treeReq = page.treeReq + 1 /\ ~page'.opening
      BY <1>0, <2>1, <2>2 DEF PageType
    <2> QED
      BY <1>0, <2>1, <2>2, <2>3, ListingStarts
  <1>4. CASE CreateNote
    <2> DEFINE l == Listing("op", page)
               u == [l EXCEPT !.pc = "creating", !.req = 0]
    <2>1. /\ l \in TaskType /\ l.kind = "op" /\ l.root = page.root
          /\ l.gen = page.dataGen /\ l.watch = NoTimer /\ l.from = {} /\ l.seen = {}
      BY <1>0, ListingIsTyped
    <2>2. /\ tasks' = tasks \cup {u} /\ page' = [page EXCEPT !.noteLock = TRUE]
          /\ UNCHANGED refresh /\ page.root # None /\ ~page.opening
          /\ ~\E t \in tasks : t.kind = "op"
      BY <1>4 DEF CreateNote
    <2>3. /\ page'.root = page.root /\ page'.dataGen = page.dataGen
          /\ page'.treeReq = page.treeReq /\ page'.opening = page.opening
          /\ page'.watchGen = page.watchGen
      BY <1>0, <2>2, LockedPage
    <2> HIDE DEF l
    <2>4. u \in TaskType
      BY <2>1 DEF TaskType
    <2>5. /\ u.kind = "op" /\ u.pc = "creating" /\ u.root = page.root /\ u.req = 0
          /\ u.gen = page.dataGen /\ u.watch = NoTimer /\ u.from = {} /\ u.seen = {}
      BY <2>1 DEF TaskType
    <2> HIDE DEF u
    <2>6. TaskFits(u, page', sw'.pc, index'.gen)
      BY <1>0, <2>2, <2>3, <2>5 DEF TaskFits, OnPage, Fits
    <2> QED
      BY <1>0, <2>2, <2>3, <2>4, <2>5, <2>6, TaskStarts
  <1>5. CASE FlushWatcherEvents
    <2> DEFINE f == Head(refresh.chain)
    <2>0. refresh.chain # <<>> /\ Flushing = {} /\ \A t \in tasks : t.kind # "flush"
      BY <1>5 DEF FlushWatcherEvents, Flushing
    <2>1. CASE IsCurrentWatcher(f.watch)
      <3> DEFINE l == Listing("flush", page)
                 u == [l EXCEPT !.watch = f.watch, !.from = f.from]
      <3>1. /\ l \in TaskType /\ l.kind = "flush" /\ l.root = page.root /\ l.pc = "listing"
            /\ l.gen = page.dataGen /\ l.req = page.treeReq + 1 /\ l.seen = {}
        BY <1>0, ListingIsTyped
      <3>2. /\ tasks' = tasks \cup {u} /\ page' = [page EXCEPT !.treeReq = @ + 1]
            /\ UNCHANGED <<refresh, sw>>
        BY <1>5, <2>1 DEF FlushWatcherEvents
      <3>3. /\ page'.root = page.root /\ page'.dataGen = page.dataGen
            /\ page'.treeReq = page.treeReq + 1 /\ page'.opening = page.opening
            /\ page'.watchGen = page.watchGen
        BY <1>0, <3>2 DEF PageType
      <3>4. f \in FlushType /\ FlushFits(f, page, sw.pc)
        <4>1. refresh.chain \in Seq(FlushType)
          BY <1>0 DEF Types, RefreshType
        <4>2. f = refresh.chain[1] /\ 1 \in 1..Len(refresh.chain) /\ f \in FlushType
          BY <2>0, <4>1, HeadTailProperties
        <4> QED
          BY <4>2 DEF IInv, RefreshInv, FlushFits
      <3>5. /\ f.watch \in Handle /\ f.from \in SUBSET MaybeRoot
            /\ f.watch.gen = page.watchGen /\ f.from \subseteq {page.root}
            /\ Fits(f.watch, page, sw.pc) /\ page.root # None /\ sw.pc \notin Stopped
        BY <1>0, <2>1, <3>4 DEF FlushType, FlushFits, Fits, IsCurrentWatcher
      <3> HIDE DEF f, l
      <3>6. u \in TaskType
        BY <3>1, <3>5 DEF TaskType
      <3>7. /\ u.kind = "flush" /\ u.pc = "listing" /\ u.root = page.root
            /\ u.gen = page.dataGen /\ u.req = page.treeReq + 1 /\ u.seen = {}
            /\ u.watch = f.watch /\ u.from = f.from
        BY <3>1, <3>5 DEF TaskType
      <3>8. ~page.opening
        BY <1>0, <3>5 DEF PhaseInv, Unbound, Stopped
      <3> HIDE DEF u
      <3>9. TaskFits(u, page', sw'.pc, index'.gen)
        BY <1>0, <3>2, <3>3, <3>5, <3>7, <3>8 DEF TaskFits, OnPage, Fits
      <3> QED
        BY <1>0, <2>0, <3>2, <3>3, <3>6, <3>7, <3>9, TaskStarts
    <2>2. CASE ~IsCurrentWatcher(f.watch)
      <3>1. UNCHANGED tasks
        BY <1>5, <2>2 DEF FlushWatcherEvents
      <3> QED
        BY <1>0, <2>0, <3>1, TasksStay
    <2> QED
      BY <2>1, <2>2
  <1>6. ASSUME UNCHANGED tasks, refresh'.chain = refresh.chain \/ refresh'.chain # <<>>
        PROVE  TasksOn
    BY <1>0, <1>6, TasksStay DEF DistinctInv
  <1>7. CASE TimerFires
    <2>1. /\ refresh'.chain = Append(refresh.chain, [from |-> refresh.pending,
                                                     watch |-> refresh.timer])
          /\ UNCHANGED tasks
      BY <1>7 DEF TimerFires
    <2>2. refresh.chain \in Seq(FlushType) /\ [from |-> refresh.pending, watch |-> refresh.timer]
              \in FlushType
      BY <1>0 DEF Types, RefreshType, FlushType
    <2>3. refresh'.chain # <<>>
      BY <2>1, <2>2, AppendProperties
    <2> QED
      BY <1>6, <2>1, <2>3
  <1>8. CASE Deliver \/ StopWatcher
    <2>1. refresh'.chain = refresh.chain
      BY <1>0, <1>8 DEF Deliver, StopWatcher, Types, RefreshType
    <2> QED
      <3>1. CASE Deliver
        BY <1>6, <2>1, <3>1 DEF Deliver
      <3>2. CASE ~Deliver
        <4>1. StopWatcher
          BY <1>8, <3>2
        <4>2. refresh'.chain = refresh.chain
          BY <2>1
        <4>3. UNCHANGED tasks \/ CommitWorkspaceHandle \/ InsertImage \/ CreateNote
                 \/ FlushWatcherEvents \/ Task
          BY DEF Next, RequestOpenNotebook, User, PickNothing, PickFails, Pick, Switch,
             UploadsDone, Flushed,
             FlushBlocks, Suspend, OpenNotebookAt, OpenFails, ListFails,
             RolledBack, RollbackFails, EnterWorkspaceGate, FocusRetry, Service, BeginTransition,
             StopFileWatcher, Listen, StartFileWatcher, WatchAnswered, StartFails,
             UnwatchAnswered,
             Emit, Events, Deliver, TimerFires, QueueImage, Image, PrepareImage, WriteImage,
             WriteImageFails, CleanupOrphan, CleanupFails, InsertFails, SaveNote, Saving,
             StartSave, SaveAnswered, SaveIndexed
        <4> QED
          BY <1>1, <1>2, <1>3, <1>4, <1>5, <1>6, <4>2, <4>3
      <3> QED
        BY <3>1, <3>2
  <1>9. CASE \/ RequestOpenNotebook \/ User \/ (Switch /\ ~CommitWorkspaceHandle) \/ FocusRetry
             \/ Service \/ Emit \/ QueueImage \/ (Image /\ ~InsertImage) \/ SaveNote \/ Saving
    <2>1. UNCHANGED tasks /\ (UNCHANGED refresh \/ StopWatcher)
      BY <1>9 DEF RequestOpenNotebook, User, PickNothing, PickFails, Pick, Switch, UploadsDone,
         Flushed,
         FlushBlocks, Suspend, OpenNotebookAt, OpenFails, ListFails,
         RolledBack, RollbackFails, EnterWorkspaceGate, FocusRetry, Service, BeginTransition,
         StopFileWatcher, Listen, StartFileWatcher, WatchAnswered, StartFails, UnwatchAnswered,
         Emit, QueueImage, Image, PrepareImage, WriteImage, WriteImageFails, CleanupOrphan,
         CleanupFails, InsertFails, SaveNote, Saving, StartSave, SaveAnswered, SaveIndexed
    <2> QED
      BY <1>6, <1>8, <2>1
  <1> QED
    BY <1>1, <1>2, <1>3, <1>4, <1>5, <1>7, <1>8, <1>9 DEF Next, Events, Switch, Image

-----------------------------------------------------------------------------
(***************************************************************************)
(* What the page shows                                                     *)
(***************************************************************************)

\* The index answers for the page's notebook, or for none.
LEMMA IndexOn == ASSUME IInv, Next PROVE IndexInv'
  <1>0. /\ Types /\ PhaseInv /\ TaskInv /\ IndexInv /\ Moved /\ index' \in IndexType
        /\ index \in IndexType /\ page.dataGen \in Nat /\ page'.dataGen \in Nat
    BY MovesOn, Counters DEF IInv, Types, Moved
  <1>1. CASE UNCHANGED index
    BY <1>0, <1>1 DEF Moved, Forward, IndexInv, IndexType
  <1>2. CASE index' = ResetIndex
    BY <1>2 DEF ResetIndex, IndexInv
  <1>3. ASSUME NEW t \in tasks,
               TreeArrives(t) \/ InstallIndex(t) \/ IndexFails(t) \/ RefreshDocument(t)
        PROVE  IndexInv'
    <2>0. /\ Calm /\ t \in TaskType /\ TaskFits(t, page, sw.pc, index.gen)
          /\ page'.root = page.root /\ page'.opening = page.opening
      BY <1>0, <1>3, TaskPage DEF Types, TaskInv, Calm
    <2>1. CASE TreeArrives(t)
      <3>1. index' = index \/ index' = [index EXCEPT !.status = "building", !.gen = @ + 1]
        BY <2>1 DEF TreeArrives
      <3>2. index'.roots = index.roots /\ index'.service = index.service
        BY <1>0, <3>1 DEF IndexType
      <3> QED
        BY <1>0, <2>0, <3>2 DEF IndexInv
    <2>2. CASE IndexFails(t)
      <3>1. index'.roots = index.roots /\ index'.service = index.service
        BY <1>0, <2>2 DEF IndexFails, IndexType
      <3> QED
        BY <1>0, <2>0, <3>1 DEF IndexInv
    <2>3. CASE InstallIndex(t) /\ t.igen = index.gen
      <3>1. /\ t.pc = "indexing"
            /\ index' = [index EXCEPT !.status = "ready", !.roots = t.seen, !.service = t.igen]
        BY <2>3 DEF InstallIndex
      <3>2. t.gen = page.dataGen /\ t.seen \subseteq {page.root}
        BY <2>0, <2>3, <3>1 DEF TaskFits
      <3>3. page.root # None /\ page.root \in Roots /\ ~page.opening
        BY <2>0, <3>2, CurrentIsOwn DEF TaskFits
      <3>4. index'.roots = t.seen
        BY <1>0, <3>1 DEF IndexType
      <3> QED
        BY <2>0, <3>2, <3>3, <3>4 DEF IndexInv
    <2>4. CASE RefreshDocument(t) /\ index.service # 0
      <3>1. page.root # None /\ ~page.opening /\ page.root \in Roots /\ backend = page.root
        BY <1>0, <2>4 DEF IndexInv, PhaseInv, RootsAgree, Types, PageType, MaybeRoot
      <3>2. /\ index'.roots \subseteq index.roots \cup {backend}
            /\ index'.service = index.service
        BY <1>0, <2>4 DEF RefreshDocument, Refreshed, IndexType
      <3> QED
        BY <1>0, <2>0, <3>1, <3>2 DEF IndexInv
    <2> QED
      BY <1>1, <1>3, <2>1, <2>2, <2>3, <2>4 DEF InstallIndex, RefreshDocument, Refreshed
  <1> QED
    <2>1. CASE Suspend \/ EnterWorkspaceGate
      BY <1>2, <2>1 DEF Suspend, EnterWorkspaceGate
    <2>2. CASE ~(Suspend \/ EnterWorkspaceGate) /\ ~Task /\ ~SaveIndexed
      <3>1. UNCHANGED index
        BY <2>2 DEF Next, RequestOpenNotebook, User, PickNothing, PickFails, Pick, Switch,
           UploadsDone, Flushed,
           FlushBlocks, OpenNotebookAt, OpenFails, ListFails, CommitWorkspaceHandle, RolledBack,
           RollbackFails, FocusRetry, Service, BeginTransition, StopFileWatcher, Listen,
           StartFileWatcher, WatchAnswered, StartFails, UnwatchAnswered, Emit, Events, Deliver,
           TimerFires, FlushWatcherEvents, CreateNote, QueueImage, Image, PrepareImage,
           WriteImage,
           WriteImageFails, InsertImage, CleanupOrphan, CleanupFails, InsertFails, SaveNote,
           Saving, StartSave, SaveAnswered
      <3> QED
        BY <1>1, <3>1
    <2>4. CASE SaveIndexed
      <3>1. /\ Calm /\ page'.root = page.root /\ page'.opening = page.opening
            /\ index' = Refreshed(Save.service)
        BY <1>0, <2>4, OthersAreCalm DEF Saving, SaveIndexed, Calm
      <3>2. index.service # 0 => /\ page.root # None /\ ~page.opening
                                 /\ page.root \in Roots /\ backend = page.root
        BY <1>0 DEF IndexInv, PhaseInv, RootsAgree, Types, PageType, MaybeRoot
      <3>3. /\ index'.roots \subseteq index.roots \cup {backend}
            /\ index.service = 0 => index' = index
            /\ index'.service = index.service
        BY <1>0, <3>1 DEF Refreshed, IndexType
      <3> QED
        BY <1>0, <3>1, <3>2, <3>3 DEF IndexInv
    <2>3. CASE Task
      BY <1>1, <1>3, <2>3 DEF Task, Created, ListDirectory, ListDirectoryFails, ReadForIndex,
         ReadNote, ShowNote, NoteIsGone
    <2> QED
      BY <2>1, <2>2, <2>3, <2>4

\* A task shows a list or a note of the page's notebook only.
LEMMA TaskShows ==
    ASSUME IInv, NEW t \in tasks,
           \/ Created(t) \/ ListDirectory(t) \/ TreeArrives(t) \/ ListDirectoryFails(t)
           \/ ReadForIndex(t) \/ InstallIndex(t) \/ IndexFails(t)
           \/ RefreshDocument(t) \/ ReadNote(t) \/ ShowNote(t) \/ NoteIsGone(t)
    PROVE  NoteInv'
  <1>0. /\ Types /\ TaskInv /\ NoteInv /\ Calm /\ page \in PageType /\ page'.root = page.root
        /\ t \in TaskType /\ TaskFits(t, page, sw.pc, index.gen) /\ page.note \in Note
    BY TaskPage DEF IInv, Types, TaskInv, Calm, PageType
  <1> DEFINE Shows(p) == /\ p.files \in {page.root, None}
                         /\ p.note = NoNote \/ (p.note.root = page.root /\ page.root # None)
  <1>1. ASSUME NEW p \in PageType, Ends(t, p) \/ page' = p, Shows(p) PROVE NoteInv'
    <2>1. page'.files = p.files /\ page'.note = p.note
      BY <1>1, EndsPage
    <2> QED
      BY <1>0, <1>1, <2>1 DEF NoteInv
  <1>2. ASSUME page' = page \/ Ends(t, page) PROVE NoteInv'
    BY <1>0, <1>1, <1>2 DEF NoteInv
  <1>3. ASSUME NEW n \in Note, Ends(t, [page EXCEPT !.note = n]),
               n = NoNote \/ (n.root = page.root /\ page.root # None)
        PROVE  NoteInv'
    <2> DEFINE p == [page EXCEPT !.note = n]
    <2>1. p \in PageType /\ p.files = page.files /\ p.note = n
      BY <1>0 DEF PageType
    <2>2. Ends(t, p)
      BY <1>3
    <2> HIDE DEF p
    <2> QED
      BY <1>0, <1>1, <1>3, <2>1, <2>2 DEF NoteInv
  <1>4. CASE TreeArrives(t)
    <2> DEFINE fresh == t.req = page.treeReq /\ CurrentNotebook(t)
               p == IF fresh THEN Listed(page, t) ELSE page
    <2>1. t.seen # {}
      BY <1>0, <1>4 DEF TreeArrives, TaskFits
    <2>2. p \in PageType /\ p.note = page.note
      BY <1>0, <2>1, Chosen DEF Listed, PageType
    <2>3. fresh => t.seen \subseteq {page.root}
      BY <1>0 DEF CurrentNotebook, TaskFits
    <2>4. p.files = page.files \/ (fresh /\ p.files \in t.seen)
      BY <1>0, <2>1, Chosen DEF Listed, PageType
    <2>5. Ends(t, p) \/ page' = p
      BY <1>4 DEF TreeArrives
    <2> HIDE DEF p, fresh
    <2> QED
      BY <1>0, <1>1, <2>2, <2>3, <2>4, <2>5 DEF NoteInv
  <1>5. CASE RefreshDocument(t)
    <2> DEFINE n == [root |-> t.root, n |-> page.note.n + 1]
    <2>1. n \in Note /\ n.root = t.root
      BY <1>0 DEF Note, TaskType
    <2>2. \/ CurrentNotebook(t) /\ Ends(t, [page EXCEPT !.note = n])
          \/ Ends(t, page) \/ page' = page
      BY <1>0, <1>5 DEF RefreshDocument, Refreshed, PageType
    <2>3. CurrentNotebook(t) => t.root = page.root /\ page.root # None
      BY <1>0, CurrentIsOwn DEF CurrentNotebook, TaskFits
    <2> HIDE DEF n
    <2> QED
      BY <1>2, <1>3, <2>1, <2>2, <2>3
  <1>6. CASE ShowNote(t)
    <2> DEFINE n == [page.note EXCEPT !.root = CHOOSE r \in t.seen : TRUE]
    <2>1. t.seen # {}
      BY <1>0, <1>6 DEF ShowNote, TaskFits
    <2>2. n \in Note /\ n.root \in t.seen
      BY <1>0, <2>1, Chosen DEF Note
    <2>3. \/ Ends(t, page)
          \/ IsCurrentWatcher(t.watch) /\ Ends(t, [page EXCEPT !.note = n])
      BY <1>0, <1>6 DEF ShowNote, PageType
    <2>4. IsCurrentWatcher(t.watch) => t.seen \subseteq {page.root} /\ page.root # None
      <3>1. page.watchGen \in Nat
        BY <1>0, Counters
      <3> QED
        BY <1>0, <3>1 DEF IsCurrentWatcher, TaskFits, Fits
    <2> HIDE DEF n
    <2> QED
      BY <1>2, <1>3, <2>2, <2>3, <2>4
  <1>7. CASE NoteIsGone(t)
    BY <1>3, <1>7, HandlesAreTyped DEF NoteIsGone
  <1>8. CASE Created(t)
    <2>1. Ends(t, page) \/ page' = [page EXCEPT !.treeReq = @ + 1]
      BY <1>8 DEF Created
    <2>2. CASE page' = [page EXCEPT !.treeReq = @ + 1]
      <3>1. page'.files = page.files /\ page'.note = page.note
        BY <1>0, <2>2 DEF PageType
      <3> QED
        BY <1>0, <3>1 DEF NoteInv
    <2> QED
      BY <1>2, <2>1, <2>2
  <1> QED
    BY <1>2, <1>4, <1>5, <1>6, <1>7, <1>8 DEF ListDirectory, ListDirectoryFails, ReadForIndex,
       InstallIndex, IndexFails, ReadNote

LEMMA NoteOn == ASSUME IInv, Next PROVE NoteInv'
  <1>0. Types /\ PhaseInv /\ NoteInv /\ Moved /\ page \in PageType
    BY MovesOn DEF IInv, Types
  <1>1. ASSUME page'.root = page.root, page'.files = page.files, page'.note = page.note
        PROVE  NoteInv'
    BY <1>0, <1>1 DEF NoteInv
  <1>2. CASE RequestOpenNotebook \/ User \/ Switch \/ FocusRetry
    BY <1>0, <1>1, <1>2, SwitchIsChained DEF Shown, NoteInv
  <1>3. CASE WatchAnswered \/ StartFails \/ UnwatchAnswered
    BY <1>1, <1>3, AnsweredPage
  <1>4. CASE Task
    BY <1>4, TaskShows DEF Task
  <1>5. CASE \/ BeginTransition \/ StopFileWatcher \/ Listen \/ StartFileWatcher
             \/ Emit \/ Events \/ CreateNote \/ QueueImage \/ Image \/ SaveNote \/ Saving
    <2>1. \/ page' = page \/ page' = [page EXCEPT !.treeReq = @ + 1]
          \/ page' = [page EXCEPT !.noteLock = TRUE]
      BY <1>5 DEF BeginTransition, StopFileWatcher, Listen, StartFileWatcher, Emit, Events,
         Deliver, TimerFires, FlushWatcherEvents, CreateNote, QueueImage, Image, PrepareImage,
         WriteImage, WriteImageFails, InsertImage, CleanupOrphan, CleanupFails, InsertFails,
         SaveNote, Saving, StartSave, SaveAnswered, SaveIndexed
    <2>2. CASE page' = [page EXCEPT !.treeReq = @ + 1]
      <3>1. page'.root = page.root /\ page'.files = page.files /\ page'.note = page.note
        BY <1>0, <2>2 DEF PageType
      <3> QED
        BY <1>1, <3>1
    <2>3. CASE page' = [page EXCEPT !.noteLock = TRUE]
      BY <1>0, <1>1, <2>3, LockedPage
    <2> QED
      BY <1>1, <2>1, <2>2, <2>3
  <1> QED
    BY <1>2, <1>3, <1>4, <1>5 DEF Next, Service

\* A picture that is written is in the page's notebook, or its page is gone.
LEMMA ImageOn == ASSUME IInv, Next PROVE image' \in ImageType /\ ImageInv'
  <1>0. /\ Types /\ PhaseInv /\ ImageInv /\ NoteInv /\ Moved /\ image \in ImageType
        /\ backend \in MaybeRoot /\ page \in PageType /\ page.note \in Note
        /\ page.dataGen \in Nat /\ image.epoch \in Nat /\ image.tail \in Seq(JobType)
    BY MovesOn, Counters DEF IInv, Types, ImageType, PageType
  <1>1. image.pc # "none" =>
           /\ OnPage(image.note.root, image.epoch, page')
           /\ image.epoch = page'.dataGen =>
                 image.epoch = page.dataGen /\ page'.root = page.root
    BY <1>0, OnPageOn DEF ImageInv
  <1>t. ASSUME NEW i \in 1..Len(image.tail)
        PROVE  OnPage(image.tail[i].note.root, image.tail[i].epoch, page')
    <2>1. image.tail[i] \in JobType
      BY <1>0
    <2>2. image.tail[i].epoch \in Nat
      BY <2>1 DEF JobType
    <2> QED
      BY <1>0, <2>2, OnPageOn DEF ImageInv
  <1>2. CASE UNCHANGED image
    BY <1>0, <1>1, <1>t, <1>2 DEF ImageInv, NoSilentOrphan
  <1>3. ASSUME image.pc # "none", OwnerCurrent(image)
        PROVE  /\ image.note.root = page.root /\ page.root # None
               /\ backend = page.root
    BY <1>0, <1>3, CurrentIsOwn DEF ImageInv, OwnerCurrent
  <1>4. CASE QueueImage
    <2> DEFINE job == [epoch |-> page.dataGen, note |-> page.note]
    <2>1. image' = [image EXCEPT !.tail = Append(@, job)] /\ page' = page
      BY <1>4 DEF QueueImage
    <2>2. page.note.root = page.root /\ page.root # None /\ ~page.opening
      BY <1>0, <1>4 DEF QueueImage, NoteInv
    <2>3. job \in JobType /\ OnPage(job.note.root, job.epoch, page)
      BY <1>0, <2>2 DEF JobType, OnPage
    <2> HIDE DEF job
    <2>4. /\ image'.pc = image.pc /\ image'.epoch = image.epoch /\ image'.note = image.note
          /\ image'.at = image.at /\ image'.fate = image.fate
          /\ image'.tail = Append(image.tail, job) /\ image' \in ImageType
      <3>1. Append(image.tail, job) \in Seq(JobType)
        BY <1>0, <2>3
      <3> QED
        BY <1>0, <2>1, <3>1 DEF ImageType
    <2>5. ASSUME NEW i \in 1..Len(image'.tail)
          PROVE  OnPage(image'.tail[i].note.root, image'.tail[i].epoch, page')
      <3>1. /\ i \in 1..Len(image.tail) => image'.tail[i] = image.tail[i]
            /\ i \notin 1..Len(image.tail) => image'.tail[i] = job
        BY <1>0, <2>3, <2>4
      <3> QED
        BY <1>t, <2>1, <2>3, <3>1
    <2> QED
      BY <1>0, <1>1, <2>1, <2>4, <2>5 DEF ImageInv, NoSilentOrphan
  <1>5. CASE Image
    <2>1. /\ page'.root = page.root /\ page'.dataGen = page.dataGen
          /\ page'.opening = page.opening
      BY <1>5, OthersAreCalm DEF Calm, IInv
    <2>2. ASSUME NEW ph \in {"written", "cleaning", "done"},
                 NEW fate \in {"none", "dropped", "reported", "inserted", "cleaned"},
                 NEW at \in MaybeRoot,
                 image.pc # "none",
                 image' = [image EXCEPT !.pc = ph, !.fate = fate, !.at = at],
                 ph = "written" => at = page.root,
                 ph = "done" /\ at # None =>
                     (fate = "inserted" /\ at = image.note.root) \/ fate = "reported"
          PROVE  image' \in ImageType /\ ImageInv'
      <3>1. image' \in ImageType
        BY <1>0, <2>2 DEF ImageType
      <3>2. /\ image'.pc = ph /\ image'.at = at /\ image'.fate = fate
            /\ image'.note = image.note /\ image'.epoch = image.epoch
            /\ image'.tail = image.tail
        BY <1>0, <2>2 DEF ImageType
      <3> QED
        BY <1>1, <1>t, <2>1, <2>2, <3>1, <3>2 DEF ImageInv, NoSilentOrphan
    <2>3. CASE PrepareImage
      <3> DEFINE job == Head(image.tail)
                 own == OwnerCurrent(job)
      <3>1. /\ image.tail # <<>> /\ page' = page
            /\ image' = [pc |-> IF own THEN "read" ELSE "done",
                         epoch |-> job.epoch, note |-> job.note, at |-> None,
                         fate |-> IF own THEN "none" ELSE "dropped",
                         tail |-> Tail(image.tail)]
        BY <2>3 DEF PrepareImage
      <3>2. /\ job = image.tail[1] /\ job \in JobType
            /\ Tail(image.tail) \in Seq(JobType)
            /\ \A i \in 1..Len(Tail(image.tail)) :
                  /\ Tail(image.tail)[i] = image.tail[i + 1]
                  /\ i + 1 \in 1..Len(image.tail)
            /\ 1 \in 1..Len(image.tail)
        BY <1>0, <3>1
      <3>3. OnPage(job.note.root, job.epoch, page')
        BY <1>t, <3>2
      <3> HIDE DEF job, own
      <3>4. image' \in ImageType
        BY <3>1, <3>2 DEF ImageType, JobType, MaybeRoot
      <3>5. /\ image'.pc \in {"read", "done"} /\ image'.at = None /\ image'.note = job.note
            /\ image'.epoch = job.epoch /\ image'.tail = Tail(image.tail)
        BY <3>1
      <3> QED
        BY <1>t, <3>2, <3>3, <3>4, <3>5 DEF ImageInv, NoSilentOrphan
    <2>4. CASE WriteImageFails \/ (WriteImage /\ ~OwnerCurrent(image))
      <3>1. /\ image.pc = "read" /\ image.at = None
            /\ \/ image' = [image EXCEPT !.pc = "done", !.fate = "reported"]
               \/ image' = [image EXCEPT !.pc = "done", !.fate = "dropped"]
        BY <1>0, <2>4 DEF WriteImageFails, WriteImage, ImageDone, ImageInv
      <3>2. \/ image' = [image EXCEPT !.pc = "done", !.fate = "reported", !.at = None]
            \/ image' = [image EXCEPT !.pc = "done", !.fate = "dropped", !.at = None]
        BY <1>0, <3>1 DEF ImageType
      <3> QED
        BY <2>2, <3>1, <3>2 DEF MaybeRoot
    <2>5. CASE WriteImage /\ OwnerCurrent(image)
      <3>1. image.pc = "read" /\ image' = [image EXCEPT !.pc = "written", !.at = backend]
        BY <2>5 DEF WriteImage
      <3>2. image' = [image EXCEPT !.pc = "written", !.fate = image.fate, !.at = backend]
        BY <1>0, <3>1 DEF ImageType
      <3>3. image.fate \in {"none", "dropped", "reported", "inserted", "cleaned"}
        BY <1>0 DEF ImageType
      <3> QED
        BY <1>0, <1>3, <2>2, <2>5, <3>1, <3>2, <3>3
    <2>6. CASE InsertImage
      <3>1. /\ image.pc = "written" /\ OwnerCurrent(image)
            /\ image' = [image EXCEPT !.pc = "done", !.fate = "inserted"]
        BY <2>6 DEF InsertImage, ImageDone
      <3>2. /\ image.at = image.note.root /\ image.at \in MaybeRoot
            /\ image' = [image EXCEPT !.pc = "done", !.fate = "inserted", !.at = image.at]
        BY <1>0, <1>3, <3>1 DEF ImageInv, OwnerCurrent, ImageType
      <3> QED
        BY <2>2, <3>1, <3>2
    <2>7. CASE InsertFails
      <3>1. image.pc = "written" /\ image' = [image EXCEPT !.pc = "cleaning"]
        BY <2>7 DEF InsertFails
      <3>2. /\ image' = [image EXCEPT !.pc = "cleaning", !.fate = image.fate, !.at = image.at]
            /\ image.at \in MaybeRoot
            /\ image.fate \in {"none", "dropped", "reported", "inserted", "cleaned"}
        BY <1>0, <3>1 DEF ImageType
      <3> QED
        BY <2>2, <3>1, <3>2
    <2>8. CASE CleanupOrphan \/ CleanupFails
      <3>1. image.pc = "cleaning"
            /\ (image' = [image EXCEPT !.pc = "done", !.fate = "cleaned", !.at = None]
                 \/ image' = [image EXCEPT !.pc = "done", !.fate = "reported"])
        BY <2>8 DEF CleanupOrphan, CleanupFails, ImageDone
      <3>2. /\ image.at \in MaybeRoot /\ None \in MaybeRoot
            /\ \/ image' = [image EXCEPT !.pc = "done", !.fate = "cleaned", !.at = None]
               \/ image' = [image EXCEPT !.pc = "done", !.fate = "reported", !.at = image.at]
        BY <1>0, <3>1 DEF ImageType, MaybeRoot
      <3> QED
        BY <2>2, <3>1, <3>2
    <2> QED
      BY <1>5, <2>3, <2>4, <2>5, <2>6, <2>7, <2>8 DEF Image
  <1> QED
    <2>1. ~QueueImage /\ ~Image => UNCHANGED image
      BY DEF Next, RequestOpenNotebook, User, PickNothing, PickFails, Pick, Switch, UploadsDone,
         Flushed, FlushBlocks, Suspend, OpenNotebookAt, OpenFails, ListFails,
         CommitWorkspaceHandle, RolledBack, RollbackFails, EnterWorkspaceGate, FocusRetry,
         Service, BeginTransition, StopFileWatcher, Listen, StartFileWatcher, WatchAnswered,
         StartFails, UnwatchAnswered, Emit, Events, Deliver, TimerFires, FlushWatcherEvents,
         CreateNote, Task, Created, ListDirectory, TreeArrives, ListDirectoryFails,
         ReadForIndex, InstallIndex, IndexFails, RefreshDocument, ReadNote, ShowNote,
         NoteIsGone, SaveNote, Saving, StartSave, SaveAnswered, SaveIndexed
    <2> QED
      BY <1>2, <1>4, <1>5, <2>1

\* A save is called while the page is bound: the backend has the notebook
\* of the save then.
LEMMA SavesOn == ASSUME IInv, Next PROVE saves' \in Seq(SaveType) /\ SavesStayHome'
  <1>0. /\ saves \in Seq(SaveType) /\ SavesStayHome /\ RootsAgree /\ NoteInv
        /\ backend \in MaybeRoot /\ page \in PageType /\ index \in IndexType
    BY DEF IInv, Types, PhaseInv
  <1>p. /\ page.root \in MaybeRoot /\ page.dataGen \in Nat /\ page.note.n \in Nat
        /\ page.note # NoNote => page.root # None /\ page.note.root = page.root
        /\ index.service \in Nat
    BY <1>0 DEF PageType, Note, NoteInv, IndexType
  <1>1. ASSUME saves # <<>>, NEW u \in SaveType, u.at \in {None, u.root},
               saves' = [saves EXCEPT ![1] = u]
        PROVE  saves' \in Seq(SaveType) /\ SavesStayHome'
    BY <1>0, <1>1 DEF SavesStayHome
  <1>2. ASSUME saves # <<>>, saves' = Tail(saves)
        PROVE  saves' \in Seq(SaveType) /\ SavesStayHome'
    <2>1. /\ Tail(saves) \in Seq(SaveType)
          /\ \A i \in 1..Len(Tail(saves)) : Tail(saves)[i] = saves[i + 1]
                                            /\ i + 1 \in 1..Len(saves)
      BY <1>0, <1>2
    <2> QED
      BY <1>0, <1>2, <2>1 DEF SavesStayHome
  <1>3. ASSUME saves # <<>> PROVE saves[1] \in SaveType /\ Save = saves[1]
    BY <1>0, <1>3 DEF Save
  <1>4. CASE SaveNote
    <2> DEFINE save == [pc |-> "queued", root |-> page.root, gen |-> page.dataGen,
                        note |-> page.note.n, at |-> None, service |-> 0]
               called == [save EXCEPT !.pc = "called", !.at = backend]
    <2>1. /\ page.note # NoNote /\ ~page.opening
          /\ saves' = IF saves = <<>> THEN <<called>> ELSE Append(saves, save)
      BY <1>4 DEF SaveNote
    <2>2. /\ save \in SaveType /\ save.at = None
          /\ called \in SaveType /\ called.at = called.root
      BY <1>0, <1>p, <2>1 DEF SaveType, MaybeRoot, RootsAgree
    <2> HIDE DEF save, called
    <2> QED
      BY <1>0, <2>1, <2>2 DEF SavesStayHome
  <1>5. CASE StartSave /\ saves' # Tail(saves)
    <2> DEFINE u == [Save EXCEPT !.pc = "called", !.at = backend]
    <2>1. /\ saves # <<>> /\ ~page.opening /\ Save.root = page.root /\ page.note # NoNote
          /\ saves' = [saves EXCEPT ![1].pc = "called", ![1].at = backend]
      BY <1>5 DEF StartSave, CurrentNotebook
    <2>2. saves' = [saves EXCEPT ![1] = u]
      BY <1>0, <1>3, <2>1
    <2>3. u \in SaveType /\ u.at = backend /\ u.root = page.root
      BY <1>0, <1>3, <2>1 DEF SaveType
    <2> HIDE DEF u
    <2> QED
      BY <1>0, <1>1, <1>p, <2>1, <2>2, <2>3 DEF RootsAgree
  <1>6. CASE SaveAnswered /\ saves' # Tail(saves)
    <2> DEFINE u == [Save EXCEPT !.pc = "document", !.service = index.service]
    <2>1. /\ saves # <<>>
          /\ saves' = [saves EXCEPT ![1].pc = "document", ![1].service = index.service]
      BY <1>6 DEF SaveAnswered
    <2>2. saves' = [saves EXCEPT ![1] = u]
      BY <1>0, <1>3, <2>1
    <2>3. u \in SaveType /\ u.at = Save.at /\ u.root = Save.root
      BY <1>0, <1>p, <1>3, <2>1 DEF SaveType
    <2>4. Save.at \in {None, Save.root}
      BY <1>0, <1>3, <2>1 DEF SavesStayHome
    <2> HIDE DEF u
    <2> QED
      BY <1>1, <2>1, <2>2, <2>3, <2>4
  <1>7. CASE Saving
    <2>1. saves # <<>>
      BY <1>7 DEF Saving, StartSave, SaveAnswered, SaveIndexed
    <2>2. StartSave \/ SaveAnswered \/ saves' = Tail(saves)
      BY <1>7 DEF Saving, SaveIndexed
    <2> QED
      BY <1>2, <1>5, <1>6, <2>1, <2>2
  <1>8. CASE UNCHANGED saves
    BY <1>0, <1>8 DEF SavesStayHome
  <1> QED
    <2>1. ~SaveNote /\ ~Saving => UNCHANGED saves
      BY DEF Next, RequestOpenNotebook, User, PickNothing, PickFails, Pick, Switch, UploadsDone,
         Flushed, FlushBlocks, Suspend, OpenNotebookAt, OpenFails, ListFails,
         CommitWorkspaceHandle, RolledBack, RollbackFails, EnterWorkspaceGate, FocusRetry,
         Service, BeginTransition, StopFileWatcher, Listen, StartFileWatcher, WatchAnswered,
         StartFails, UnwatchAnswered, Emit, Events, Deliver, TimerFires, FlushWatcherEvents,
         CreateNote, Task, Created, ListDirectory, TreeArrives, ListDirectoryFails,
         ReadForIndex, InstallIndex, IndexFails, RefreshDocument, ReadNote, ShowNote,
         NoteIsGone, QueueImage, Image, PrepareImage, WriteImage, WriteImageFails, InsertImage,
         InsertFails, CleanupOrphan, CleanupFails
    <2> QED
      BY <1>4, <1>7, <1>8, <2>1

-----------------------------------------------------------------------------
(***************************************************************************)
(* The invariant holds                                                     *)
(***************************************************************************)

LEMMA InitHolds == ASSUME Init PROVE IInv
  <1> PICK r \in MaybeRoot :
        /\ backend = r
        /\ page = [root |-> r, files |-> r, note |-> [root |-> r, n |-> 0],
                   gate |-> IF r = None THEN "idle" ELSE "none",
                   noteLock |-> FALSE, opening |-> FALSE,
                   watchGen |-> 1, dataGen |-> 0, treeReq |-> 0,
                   unwatch |-> IF r = None THEN 0 ELSE 2, retry |-> NoTimer]
        /\ sw = [pc |-> "idle", prev |-> None, next |-> None, resume |-> FALSE]
        /\ svc = [queue |-> <<>>, pc |-> "ready", watchId |-> 2,
                  accept |-> IF r = None THEN 0 ELSE 1, watching |-> r,
                  listener |-> IF r = None THEN NoListener ELSE [root |-> r, gen |-> 1]]
        /\ os = [root |-> r, gen |-> 1]
        /\ wire = <<>>
        /\ refresh = [pending |-> {}, timer |-> NoTimer, chain |-> <<>>]
        /\ index = IF r = None
                   THEN [status |-> "idle", roots |-> {}, gen |-> 0, service |-> 0]
                   ELSE [status |-> "ready", roots |-> {r}, gen |-> 1, service |-> 1]
        /\ tasks = {}
        /\ image = NoImage
        /\ saves = <<>>
    BY DEF Init
  <1>0. /\ NoTimer \in Handle /\ NoTimer.gen = 0 /\ NoListener \in Handle /\ NoListener.gen = 0
        /\ NoNote \in Note /\ None \in MaybeRoot
    BY HandlesAreTyped DEF MaybeRoot
  <1>1. backend \in MaybeRoot /\ os \in Handle /\ sw \in SwType
    BY <1>0 DEF Handle, SwType, Phases
  <1>2. page \in PageType
    <2>1. [root |-> r, n |-> 0] \in Note
      BY DEF Note
    <2> QED
      BY <1>0, <2>1 DEF PageType
  <1>3. svc \in SvcType
    <2>1. (IF r = None THEN NoListener ELSE [root |-> r, gen |-> 1]) \in Handle
      BY <1>0 DEF Handle
    <2>2. <<>> \in Seq(OpType)
      BY EmptySeq
    <2> QED
      BY <2>1, <2>2 DEF SvcType
  <1>4. wire \in Seq(Handle) /\ refresh \in RefreshType
    <2>1. <<>> \in Seq(Handle) /\ <<>> \in Seq(FlushType)
      BY EmptySeq
    <2> QED
      BY <1>0, <2>1 DEF RefreshType
  <1>5. index \in IndexType /\ tasks \subseteq TaskType
    BY DEF IndexType
  <1>6. image \in ImageType /\ saves \in Seq(SaveType) /\ SavesStayHome
    <2>1. <<>> \in Seq(JobType) /\ <<>> \in Seq(SaveType)
      BY EmptySeq
    <2> QED
      BY <1>0, <2>1 DEF ImageType, NoImage, SavesStayHome
  <1>7. Types
    BY <1>1, <1>2, <1>3, <1>4, <1>5, <1>6 DEF Types
  <1>8. PhaseInv
    <2>1. /\ sw.pc = "idle" /\ page.root = r /\ backend = r /\ ~page.opening
          /\ page.watchGen = 1 /\ page.gate = IF r = None THEN "idle" ELSE "none"
          /\ page.opening \in BOOLEAN
      OBVIOUS
    <2>2. (page.root = None) = (page.gate # "none")
      BY <2>1
    <2>3. page.opening = FALSE /\ (sw.pc \in Unbound) = FALSE
      BY <2>1 DEF Unbound
    <2>4. RootsAgree
      BY <2>1 DEF RootsAgree
    <2>5. page.opening = (sw.pc \in Unbound)
      BY <2>3, Zenon
    <2>6. /\ sw.pc = "idle" /\ page.watchGen > 0
          /\ page.root # None => backend # None
      BY <2>1
    <2> QED
      BY <2>2, <2>4, <2>5, <2>6 DEF PhaseInv
  <1>9. QueueInv
    BY DEF QueueInv, QueueFits
  <1>10. WatchInv
    BY <1>0 DEF WatchInv, Fits, Stopped, NoListener
  <1>11. WireInv
    BY DEF WireInv
  <1>12. RefreshInv
    BY <1>0 DEF RefreshInv, Fits, Stopped
  <1>13. TaskInv /\ DistinctInv
    BY DEF TaskInv, DistinctInv
  <1>14. IndexInv
    BY DEF IndexInv, MaybeRoot
  <1>15. NoteInv
    BY DEF NoteInv, NoNote
  <1>16. ImageInv
    BY DEF ImageInv, NoImage, NoSilentOrphan
  <1> QED
    BY <1>6, <1>7, <1>8, <1>9, <1>10, <1>11, <1>12, <1>13, <1>14, <1>15, <1>16 DEF IInv

LEMMA NextKeeps == ASSUME IInv, Next PROVE IInv'
  <1>1. Moved /\ index' \in IndexType
    BY MovesOn
  <1>2. Served
    BY ServesOn
  <1>3. wire' \in Seq(Handle) /\ WireInv' /\ refresh' \in RefreshType /\ RefreshInv'
    BY WireOn, RefreshOn
  <1>4. TasksOn
    BY TasksGoOn
  <1>5. /\ IndexInv' /\ NoteInv' /\ image' \in ImageType /\ ImageInv'
        /\ saves' \in Seq(SaveType) /\ SavesStayHome'
    BY IndexOn, NoteOn, ImageOn, SavesOn
  <1>6. Types'
    BY <1>1, <1>2, <1>3, <1>4, <1>5 DEF Types, Moved, Served, TasksOn
  <1> QED
    BY <1>1, <1>2, <1>3, <1>4, <1>5, <1>6 DEF IInv, Moved, Served, TasksOn

LEMMA StutterKeeps == ASSUME IInv, UNCHANGED vars PROVE IInv'
  <1>1. UNCHANGED <<backend, page, sw, svc, os, wire, refresh, index, tasks, image, saves>>
    BY DEF vars
  <1>2. Types' /\ PhaseInv'
    BY <1>1 DEF IInv, Types, PhaseInv, RootsAgree
  <1>3. QueueInv' /\ WatchInv' /\ WireInv'
    BY <1>1 DEF IInv, QueueInv, WatchInv, WireInv, Op
  <1>4. RefreshInv' /\ TaskInv' /\ DistinctInv'
    BY <1>1 DEF IInv, RefreshInv, TaskInv, DistinctInv
  <1>5. IndexInv' /\ NoteInv' /\ ImageInv' /\ SavesStayHome'
    BY <1>1 DEF IInv, IndexInv, NoteInv, ImageInv, NoSilentOrphan, SavesStayHome
  <1> QED
    BY <1>2, <1>3, <1>4, <1>5 DEF IInv

LEMMA IInvHolds == Spec => []IInv
  <1>1. IInv /\ [Next]_vars => IInv'
    BY NextKeeps, StutterKeeps
  <1> QED
    BY <1>1, InitHolds, PTL DEF Spec

-----------------------------------------------------------------------------
(***************************************************************************)
(* The properties                                                          *)
(***************************************************************************)

\* The variables have their types; the page is at the gate exactly when it
\* has no notebook; requests for a list are told apart by their numbers and
\* one flush of watcher events runs at a time (watcherFlushChain).
THEOREM Typed == Spec => []TypeOK
  <1>1. IInv => TypeOK
    <2> SUFFICES ASSUME IInv PROVE TypeOK
      OBVIOUS
    <2>0. Types /\ PhaseInv /\ WatchInv /\ DistinctInv /\ IndexInv
      BY DEF IInv
    <2>1. Cardinality(Flushing) <= 1
      <3>1. CASE Flushing = {}
        BY <3>1, FS_EmptySet
      <3>2. CASE Flushing # {}
        <4>1. PICK t : t \in Flushing
          BY <3>2
        <4>2. Flushing = {t}
          BY <2>0, <4>1 DEF Flushing, DistinctInv
        <4> QED
          BY <4>2, FS_Singleton
      <3> QED
        BY <3>1, <3>2
    <2>2. /\ backend \in MaybeRoot
          /\ page.root \in MaybeRoot /\ page.files \in MaybeRoot
          /\ page.gate \in {"none", "idle", "opening", "error"}
          /\ page.noteLock \in BOOLEAN /\ page.opening \in BOOLEAN
      BY <2>0 DEF Types, PageType
    <2>3. sw.resume \in BOOLEAN /\ sw.pc \in Phases
      BY <2>0 DEF Types, SwType
    <2>4. svc.pc \in {"ready", "unwatching", "listening", "starting", "started", "answering"}
      BY <2>0 DEF Types, SvcType
    <2>5. /\ (page.root = None) = (page.gate # "none")
          /\ svc.pc # "ready" => svc.queue # <<>>
          /\ index.roots \subseteq Roots
          /\ \A t, u \in tasks : t.kind = u.kind /\ t.req = u.req => t = u
      BY <2>0 DEF PhaseInv, WatchInv, IndexInv, DistinctInv
    <2> QED
      BY <2>1, <2>2, <2>3, <2>4, <2>5 DEF TypeOK, Phases
  <1> QED
    BY <1>1, IInvHolds, PTL

\* Whenever requireBoundWorkspace lets an operation through, the backend's
\* root is the notebook the page shows, whatever failed before.
THEOREM BackendFollowsThePage == Spec => []RootsAgree
  <1>1. IInv => RootsAgree
    BY DEF IInv, PhaseInv
  <1> QED
    BY <1>1, IInvHolds, PTL

\* The file list, the open note and the index are of the page's notebook,
\* however listings, flushes and builds of an earlier one are delayed.
THEOREM OneNotebookIsShown == Spec => []ShowsOneNotebook
  <1>1. IInv => ShowsOneNotebook
    BY DEF IInv, NoteInv, IndexInv, ShowsOneNotebook, NoNote
  <1> QED
    BY <1>1, IInvHolds, PTL

\* The service asks for a watcher of the backend's notebook only; when it
\* rests, a running watcher is the page's and the page hears it.
THEOREM WatcherAndPageMeet == Spec => []WatcherIsHeard
  <1>1. IInv => WatcherIsHeard
    <2> SUFFICES ASSUME IInv PROVE WatcherIsHeard
      OBVIOUS
    <2>0. PhaseInv /\ WatchInv
      BY DEF IInv
    <2>1. ASSUME svc.pc = "starting" PROVE backend = Op.root
      <3>1. svc.queue # <<>> /\ Op.kind = "watch"
        BY <2>0, <2>1 DEF WatchInv
      <3>2. Op.root = page.root /\ page.root # None /\ sw.pc \in Watching
        BY <3>1, FirstOp
      <3> QED
        BY <2>0, <3>2 DEF PhaseInv, RootsAgree, Watching, Unbound
    <2>2. ASSUME svc.queue = <<>>, os.root # None
          PROVE  /\ os.root = page.root /\ svc.accept = os.gen
                 /\ IsCurrentWatcher(svc.listener)
      BY <2>0, <2>2 DEF WatchInv, IsCurrentWatcher
    <2> QED
      BY <2>1, <2>2 DEF WatcherIsHeard
  <1> QED
    BY <1>1, IInvHolds, PTL

\* A flush that counts as current works on events of the page's notebook.
THEOREM FlushesWorkOnOwnEvents == Spec => []OwnEventsOnly
  <1>1. IInv => OwnEventsOnly
    BY DEF IInv, TaskInv, TaskFits, OwnEventsOnly, Flushing, IsCurrentWatcher
  <1> QED
    BY <1>1, IInvHolds, PTL

\* A picture that was written is in its note, or removed, or reported.
THEOREM NoPictureIsLost == Spec => []NoSilentOrphan
  <1>1. IInv => NoSilentOrphan
    BY DEF IInv, ImageInv
  <1> QED
    BY <1>1, IInvHolds, PTL

\* A save that waited behind another one writes in the notebook its text was
\* typed in, or not at all, wherever the backend's root has moved meanwhile.
THEOREM NoSaveGoesAstray == Spec => []SavesStayHome
  <1>1. IInv => SavesStayHome
    BY DEF IInv
  <1> QED
    BY <1>1, IInvHolds, PTL
==============================================================================
