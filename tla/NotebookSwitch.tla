--------------------------- MODULE NotebookSwitch ---------------------------
(***************************************************************************)
(* A workspace window changes its notebook.                                *)
(*                                                                         *)
(* performOpenNotebook moves the backend's root first and the page after   *)
(* it; between two awaits everything else goes on: the chain of watcher    *)
(* transitions of the IPC service, the OS watcher and its events, the      *)
(* flush of watcher events, the listing and indexing in the background, an *)
(* operation that creates a note, an image upload.  Only generations,      *)
(* request numbers, two lock flags and the service's chain keep the two    *)
(* notebooks apart.                                                        *)
(***************************************************************************)
EXTENDS Naturals, Sequences, FiniteSets

CONSTANTS
    Roots,          \* notebook folders
    None,           \* no root: the open gate
    MaxSwitches,    \* bound on requests to open a notebook
    MaxFaults,      \* bound on failing IPC calls
    MaxDisturb,     \* bound on watcher events, operations, images and saves
    MaxUpsets,      \* bound on both together
    MaxSaves        \* bound on the saves in the chain

ASSUME NoneAssumption == None \notin Roots
ASSUME BoundAssumption ==
    /\ MaxSwitches \in Nat /\ MaxFaults \in Nat
    /\ MaxDisturb \in Nat /\ MaxUpsets \in Nat /\ MaxSaves \in Nat

VARIABLES
    backend,    \* NotebookRoot of the window's label
    page,       \* NotebookHome: root, lists, locks and generations
    sw,         \* performOpenNotebook
    svc,        \* TauriIPCService: watchTransition and the active watch
    os,         \* WindowWatcherState: the running watcher and the generation
    wire,       \* file-change events on their way to the page
    refresh,    \* pendingWatcherEvents, watcherRefreshTimer, watcherFlushChain
    index,      \* useIndexStore
    tasks,      \* asynchronous work of the page that lists the notebook
    image,      \* useImageUpload: the job at work, or the last one, and those behind
    saves,      \* the chain of saves of useSavePipeline
    used        \* what the bounds have left

vars == <<backend, page, sw, svc, os, wire, refresh, index, tasks, image, saves, used>>

MaybeRoot == Roots \cup {None}

NoNote == [root |-> None, n |-> 0]
NoTimer == [root |-> None, gen |-> 0]
NoListener == [root |-> None, gen |-> 0]
NoImage == [pc |-> "none", epoch |-> 0, note |-> NoNote, at |-> None, fate |-> "none",
            tail |-> <<>>]

\* Settled at the gate, or in a notebook that is indexed and watched.
Init ==
    \E r \in MaybeRoot :
        /\ backend = r
        /\ page = [root |-> r, files |-> r, note |-> [root |-> r, n |-> 0],
                   gate |-> IF r = None THEN "idle" ELSE "none",
                   noteLock |-> FALSE, opening |-> FALSE,
                   watchGen |-> 1, dataGen |-> 0, treeReq |-> 0,
                   unwatch |-> IF r = None THEN 0 ELSE 2, retry |-> NoTimer]
        /\ sw = [pc |-> "idle", prev |-> None, next |-> None, resume |-> FALSE]
        /\ svc = [queue |-> <<>>, pc |-> "ready", watchId |-> 2,
                  accept |-> IF r = None THEN 0 ELSE 1, watching |-> r,
                  listener |-> IF r = None THEN NoListener ELSE [root |-> r, gen |-> 1]]
        /\ os = [root |-> r, gen |-> 1]
        /\ wire = <<>>
        /\ refresh = [pending |-> {}, timer |-> NoTimer, chain |-> <<>>]
        /\ index = IF r = None
                   THEN [status |-> "idle", roots |-> {}, gen |-> 0, service |-> 0]
                   ELSE [status |-> "ready", roots |-> {r}, gen |-> 1, service |-> 1]
        /\ tasks = {}
        /\ image = NoImage
        /\ saves = <<>>
        /\ used = [switches |-> 0, faults |-> 0, disturb |-> 0]

-----------------------------------------------------------------------------
\* Bounds.

MayUpset == used.faults + used.disturb < MaxUpsets
MayFail == MayUpset /\ used.faults < MaxFaults
Fail == used' = [used EXCEPT !.faults = @ + 1]
MayDisturb == MayUpset /\ used.disturb < MaxDisturb
Disturb == used' = [used EXCEPT !.disturb = @ + 1]

-----------------------------------------------------------------------------
\* What the page asks of the IPC service.

Queue(s, o) == [s EXCEPT !.queue = Append(@, o)]

UnwatchOp(by) == [kind |-> "unwatch", root |-> None, gen |-> 0, by |-> by]
WatchOp(r, g, by) == [kind |-> "watch", root |-> r, gen |-> g, by |-> by]

\* The closure watch() returned: nothing when another watch is active.
CallUnwatch(s, id) ==
    IF id # 0 /\ id = s.watchId THEN Queue(s, UnwatchOp("closure")) ELSE s

\* stopNotebookWatcher up to its first await.
StopWatcher ==
    /\ page' = [page EXCEPT !.watchGen = @ + 1, !.unwatch = 0]
    /\ refresh' = [refresh EXCEPT !.pending = {}, !.timer = NoTimer]
    /\ svc' = Queue(CallUnwatch(svc, page.unwatch), UnwatchOp("stop"))

\* restartNotebookWatcher up to its await, from page state p.
RestartPage(p) == [p EXCEPT !.watchGen = @ + 1, !.unwatch = 0]
RestartSvc(p, r, by) ==
    Queue(CallUnwatch(svc, p.unwatch), WatchOp(r, p.watchGen + 1, by))

IsCurrentWatcher(w) == w.gen = page.watchGen /\ w.root = page.root

-----------------------------------------------------------------------------
\* Work that lists the notebook: refreshFileTree and its callers.

\* A call of refreshFileTree, or of the listing of the background
\* initialisation, with the root and generation it captures.
Listing(kind, p) ==
    [kind |-> kind, pc |-> "listing", root |-> p.root, gen |-> p.dataGen,
     req |-> p.treeReq + 1, watch |-> NoTimer, from |-> {}, note |-> p.note.n,
     igen |-> 0, seen |-> {}]

CurrentNotebook(t) == t.gen = page.dataGen /\ t.root = page.root

\* Mutant: a running build is not invalidated.
ResetIndexOnly == [status |-> "idle", roots |-> {}, gen |-> index.gen, service |-> 0]

\* indexStore.reset
ResetIndex == [status |-> "idle", roots |-> {}, gen |-> index.gen + 1, service |-> 0]

-----------------------------------------------------------------------------
\* performOpenNotebook.

\* A request while one is under way returns the running task.
RequestOpenNotebook ==
    /\ sw.pc = "idle"
    /\ used.switches < MaxSwitches
    /\ used' = [used EXCEPT !.switches = @ + 1]
    /\ sw' = [pc |-> "picking", prev |-> page.root, next |-> None, resume |-> FALSE]
    /\ page' = [page EXCEPT !.gate = IF @ = "none" THEN @ ELSE "opening"]
    /\ UNCHANGED <<backend, svc, os, wire, refresh, index, tasks, image, saves>>

\* Mutant: the gate's status is reset whatever it was.
FinishAtGate(p, resume) ==
    /\ page' = [p EXCEPT !.opening = FALSE, !.noteLock = FALSE, !.gate = "idle"]
    /\ sw' = [sw EXCEPT !.pc = "idle", !.resume = resume]
    /\ UNCHANGED svc

\* The finally block, from page state p.
Finish(p, resume) ==
    LET unlocked == [p EXCEPT !.opening = FALSE, !.noteLock = FALSE,
                              !.gate = IF @ = "opening" THEN "idle" ELSE @]
        restart == resume /\ sw.prev # None /\ p.root = sw.prev /\ p.gate = "none"
    IN  /\ page' = IF restart THEN RestartPage(unlocked) ELSE unlocked
        /\ svc' = IF restart THEN RestartSvc(p, sw.prev, "finally") ELSE svc
        /\ sw' = [sw EXCEPT !.pc = IF restart THEN "resuming" ELSE "idle",
                            !.resume = resume]

PickNothing ==
    /\ sw.pc = "picking"
    /\ Finish(page, FALSE)
    /\ UNCHANGED <<backend, os, wire, refresh, index, tasks, image, saves, used>>

\* The picker itself fails: to the gate's error, or a message.
PickFails ==
    /\ sw.pc = "picking"
    /\ MayFail /\ Fail
    /\ Finish([page EXCEPT !.gate = IF sw.prev = None THEN "error" ELSE @], FALSE)
    /\ UNCHANGED <<backend, os, wire, refresh, index, tasks, image, saves>>

\* The same folder again is a success without any effect.
Pick(r) ==
    /\ sw.pc = "picking"
    /\ IF r = sw.prev
       THEN Finish(page, FALSE)
       ELSE /\ sw' = [sw EXCEPT !.pc = "uploads", !.next = r]
            /\ page' = [page EXCEPT !.noteLock = @ \/ sw.prev # None]
            /\ UNCHANGED svc
    /\ UNCHANGED <<backend, os, wire, refresh, index, tasks, image, saves, used>>

\* No job is at work; waitForIdle also waits for those queued meanwhile.
NoJob == image.pc \in {"none", "done"} /\ ~\E t \in tasks : t.kind = "image"
UploadsIdle == NoJob /\ image.tail = <<>>

UploadsDone ==
    /\ sw.pc = "uploads"
    /\ UploadsIdle
    /\ sw' = [sw EXCEPT !.pc = "flushing"]
    /\ UNCHANGED <<backend, page, svc, os, wire, refresh, index, tasks, image, saves, used>>

\* The current note is saved: stopNotebookWatcher begins.
Flushed ==
    /\ sw.pc = "flushing"
    /\ sw.prev # None => saves = <<>>
    /\ StopWatcher
    /\ sw' = [sw EXCEPT !.pc = "stopping"]
    /\ UNCHANGED <<backend, os, wire, index, tasks, image, saves, used>>

FlushBlocks ==
    /\ sw.pc = "flushing"
    /\ sw.prev # None
    /\ Finish(page, FALSE)
    /\ UNCHANGED <<backend, os, wire, refresh, index, tasks, image, saves, used>>

\* stopNotebookWatcher awaits the flushes that still run.
Drained == refresh.chain = <<>>

\* The rest of suspendWorkspaceForTransition.
Suspend ==
    /\ sw.pc = "draining"
    /\ Drained
    /\ index' = ResetIndex
    /\ page' = [page EXCEPT !.noteLock = FALSE, !.opening = TRUE,
                            !.dataGen = @ + 1, !.treeReq = @ + 1]
    /\ sw' = [sw EXCEPT !.pc = "opening", !.resume = sw.prev # None]
    /\ UNCHANGED <<backend, svc, os, wire, refresh, tasks, image, saves, used>>

\* open_notebook binds the root when the folder is readable.
OpenNotebookAt ==
    /\ sw.pc = "opening"
    /\ backend' = sw.next
    /\ sw' = [sw EXCEPT !.pc = "listing"]
    /\ UNCHANGED <<page, svc, os, wire, refresh, index, tasks, image, saves, used>>

OpenFails ==
    /\ sw.pc = "opening"
    /\ MayFail /\ Fail
    /\ IF sw.prev # None
       THEN /\ sw' = [sw EXCEPT !.pc = "restoring"]
            /\ UNCHANGED <<page, svc>>
       ELSE Finish([page EXCEPT !.gate = "error"], sw.resume)
    /\ UNCHANGED <<backend, os, wire, refresh, index, tasks, image, saves>>

\* The new notebook could not be listed: back to the old one, or to the gate.
ListFails ==
    /\ sw.pc = "listing"
    /\ MayFail /\ Fail
    /\ IF sw.prev # None
       THEN /\ sw' = [sw EXCEPT !.pc = "rollingBack"]
            /\ UNCHANGED <<page, svc, refresh>>
       ELSE /\ StopWatcher
            /\ sw' = [sw EXCEPT !.pc = "gateStopping"]
    /\ UNCHANGED <<backend, os, wire, index, tasks, image, saves>>

\* commitWorkspaceHandle: the page follows, the watcher starts unawaited,
\* completeNotebookInitializationInBackground lists the notebook.
CommitWorkspaceHandle ==
    LET bound == [page EXCEPT !.gate = "none", !.root = sw.next, !.note = NoNote,
                              !.files = backend, !.opening = FALSE, !.noteLock = FALSE]
        started == RestartPage(bound)
    IN  /\ sw.pc = "listing"
        /\ svc' = RestartSvc(bound, sw.next, "commit")
        /\ page' = [started EXCEPT !.treeReq = @ + 1]
        /\ tasks' = tasks \cup {Listing("init", started)}
        /\ sw' = [sw EXCEPT !.pc = "idle", !.resume = FALSE]
        /\ UNCHANGED <<backend, os, wire, refresh, index, image, saves, used>>

\* Mutant: the backend keeps the new notebook.
PageRolledBack ==
    /\ sw.pc \in {"rollingBack", "restoring"}
    /\ Finish([page EXCEPT !.root = sw.prev], sw.resume)
    /\ UNCHANGED <<backend, os, wire, refresh, index, tasks, image, saves, used>>

RolledBack ==
    /\ sw.pc \in {"rollingBack", "restoring"}
    /\ backend' = sw.prev
    /\ Finish([page EXCEPT !.root = sw.prev], sw.resume)
    /\ UNCHANGED <<os, wire, refresh, index, tasks, image, saves, used>>

\* The old notebook is gone as well: enterWorkspaceGate.
RollbackFails ==
    /\ sw.pc \in {"rollingBack", "restoring"}
    /\ MayFail /\ Fail
    /\ StopWatcher
    /\ sw' = [sw EXCEPT !.pc = "gateStopping"]
    /\ UNCHANGED <<backend, os, wire, index, tasks, image, saves>>

EnterWorkspaceGate ==
    /\ sw.pc = "gateDraining"
    /\ Drained
    /\ index' = ResetIndex
    /\ Finish([page EXCEPT !.root = None, !.note = NoNote, !.files = None,
                           !.gate = "error", !.dataGen = @ + 1], sw.resume)
    /\ UNCHANGED <<backend, os, wire, refresh, tasks, image, saves, used>>

\* Mutant: a watcher restarted by the finally block is never awaited out.
SwitchAfterStop(by) ==
    IF by = "stop"
    THEN [sw EXCEPT !.pc = IF @ = "stopping" THEN "draining" ELSE "gateDraining"]
    ELSE sw

\* The service answered the page's unwatchAll, or the watch of the finally
\* block.
SwitchAfter(by) ==
    CASE by = "stop" -> [sw EXCEPT !.pc = IF @ = "stopping" THEN "draining"
                                          ELSE "gateDraining"]
      [] by = "finally" -> [sw EXCEPT !.pc = "idle"]
      [] OTHER -> sw

-----------------------------------------------------------------------------
\* TauriIPCService: one transition at a time.

Op == Head(svc.queue)
AfterUnwatch(o) == IF o.kind = "watch" THEN "listening" ELSE "answering"

\* unwatchAllInternal up to its await; watchInternal begins with it.
BeginTransition ==
    /\ svc.queue # <<>>
    /\ svc.pc = "ready"
    /\ svc' = [svc EXCEPT !.watchId = @ + 1, !.accept = 0, !.listener = NoListener,
                          !.watching = None,
                          !.pc = IF svc.watching # None THEN "unwatching"
                                 ELSE AfterUnwatch(Op)]
    /\ UNCHANGED <<backend, page, sw, os, wire, refresh, index, tasks, image, saves, used>>

\* Mutant: the thread goes on.
StopWithoutJoin ==
    /\ svc.pc = "unwatching"
    /\ svc' = [svc EXCEPT !.pc = AfterUnwatch(Op)]
    /\ UNCHANGED <<backend, page, sw, os, wire, refresh, index, tasks, image, saves, used>>

\* stop_file_watcher joins the watcher's thread.
StopFileWatcher ==
    /\ svc.pc = "unwatching"
    /\ os' = [os EXCEPT !.root = None]
    /\ svc' = [svc EXCEPT !.pc = AfterUnwatch(Op)]
    /\ UNCHANGED <<backend, page, sw, wire, refresh, index, tasks, image, saves, used>>

\* listen() is answered after the events emitted before it was called.
Listen ==
    /\ svc.pc = "listening"
    /\ wire = <<>>
    /\ svc' = [svc EXCEPT !.watchId = @ + 1, !.pc = "starting",
                          !.listener = [root |-> Op.root, gen |-> Op.gen]]
    /\ UNCHANGED <<backend, page, sw, os, wire, refresh, index, tasks, image, saves, used>>

\* start_file_watcher: only the window's root, after the old watcher stopped.
StartFileWatcher ==
    /\ svc.pc = "starting"
    /\ backend = Op.root
    /\ os' = [root |-> Op.root, gen |-> os.gen + 1]
    /\ svc' = [svc EXCEPT !.pc = "started"]
    /\ UNCHANGED <<backend, page, sw, wire, refresh, index, tasks, image, saves, used>>

\* The page learns the generation; restartNotebookWatcher goes on.
WatchAnswered ==
    LET active == [svc EXCEPT !.queue = Tail(@), !.pc = "ready",
                              !.accept = os.gen, !.watching = Op.root]
    IN  /\ svc.pc = "started"
        /\ IF Op.gen # page.watchGen
           THEN /\ svc' = CallUnwatch(active, active.watchId)
                /\ UNCHANGED page
           ELSE /\ svc' = active
                /\ page' = [page EXCEPT !.unwatch = active.watchId]
        /\ sw' = SwitchAfter(Op.by)
        /\ UNCHANGED <<backend, os, wire, refresh, index, tasks, image, saves, used>>

\* Mutant: a failed start is not remembered.
StartFailsForGood ==
    /\ svc.pc = "starting"
    /\ MayFail /\ Fail
    /\ os' = [root |-> None, gen |-> os.gen + 1]
    /\ svc' = [svc EXCEPT !.queue = Tail(@), !.pc = "ready", !.listener = NoListener,
                          !.watchId = @ + 1, !.accept = 0]
    /\ sw' = SwitchAfter(Op.by)
    /\ UNCHANGED <<backend, page, wire, refresh, index, tasks, image, saves>>

\* A failing start: the page will try again on focus.  (A root other than
\* the window's would be refused; WatcherIsHeard says none is asked for.)
StartFails ==
    /\ svc.pc = "starting"
    /\ MayFail /\ Fail
    /\ os' = [root |-> None, gen |-> os.gen + 1]
    /\ svc' = [svc EXCEPT !.queue = Tail(@), !.pc = "ready", !.listener = NoListener,
                          !.watchId = @ + 1, !.accept = 0]
    /\ page' = [page EXCEPT !.retry = [root |-> Op.root, gen |-> Op.gen]]
    /\ sw' = SwitchAfter(Op.by)
    /\ UNCHANGED <<backend, wire, refresh, index, tasks, image, saves>>

UnwatchAnswered ==
    /\ svc.pc = "answering"
    /\ svc' = [svc EXCEPT !.queue = Tail(@), !.pc = "ready"]
    /\ sw' = SwitchAfter(Op.by)
    /\ UNCHANGED <<backend, page, os, wire, refresh, index, tasks, image, saves, used>>

\* onWindowFocusRetryWatcherStart
FocusRetry ==
    /\ page.retry # NoTimer
    /\ LET again == IsCurrentWatcher(page.retry)
           p == [page EXCEPT !.retry = NoTimer]
       IN  /\ page' = IF again THEN RestartPage(p) ELSE p
           /\ svc' = IF again THEN RestartSvc(p, page.retry.root, "focus") ELSE svc
    /\ UNCHANGED <<backend, sw, os, wire, refresh, index, tasks, image, saves, used>>

-----------------------------------------------------------------------------
\* Events of the watcher.

Emit ==
    /\ os.root # None
    /\ MayDisturb /\ Disturb
    /\ wire' = Append(wire, os)
    /\ UNCHANGED <<backend, page, sw, svc, os, refresh, index, tasks, image, saves>>

\* The listener, then queueWatcherRefresh.
Deliver ==
    /\ wire # <<>>
    /\ wire' = Tail(wire)
    /\ refresh' = IF /\ svc.listener # NoListener
                     /\ svc.accept \in {0, Head(wire).gen}
                     /\ IsCurrentWatcher(svc.listener)
                  THEN [refresh EXCEPT !.pending = @ \cup {Head(wire).root},
                                       !.timer = svc.listener]
                  ELSE refresh
    /\ UNCHANGED <<backend, page, sw, svc, os, index, tasks, image, saves, used>>

TimerFires ==
    /\ refresh.timer # NoTimer
    /\ refresh' = [pending |-> {}, timer |-> NoTimer,
                   chain |-> Append(refresh.chain, [from |-> refresh.pending,
                                                    watch |-> refresh.timer])]
    /\ UNCHANGED <<backend, page, sw, svc, os, wire, index, tasks, image, saves, used>>

Flushing == {t \in tasks : t.kind = "flush"}
PopFlush == [refresh EXCEPT !.chain = Tail(@)]

\* flushWatcherEvents: one flush at a time.
FlushWatcherEvents ==
    /\ refresh.chain # <<>>
    /\ Flushing = {}
    /\ LET f == Head(refresh.chain)
       IN  IF IsCurrentWatcher(f.watch)
           THEN /\ tasks' = tasks \cup {[Listing("flush", page) EXCEPT
                                            !.watch = f.watch, !.from = f.from]}
                /\ page' = [page EXCEPT !.treeReq = @ + 1]
                /\ UNCHANGED refresh
           ELSE /\ refresh' = PopFlush
                /\ UNCHANGED <<page, tasks>>
    /\ UNCHANGED <<backend, sw, svc, os, wire, index, image, saves, used>>

-----------------------------------------------------------------------------
\* The steps of a task.

Become(t, u) == tasks' = (tasks \ {t}) \cup {u}

\* Task t ends: a flush leaves the chain, an operation its lock.
Ends(t, p) ==
    /\ tasks' = tasks \ {t}
    /\ refresh' = IF t.kind = "flush" THEN PopFlush ELSE refresh
    /\ page' = IF t.kind = "op" THEN [p EXCEPT !.noteLock = FALSE] ELSE p

\* A note is created (confirmNewFile, onCreateBlank, onTemplateSelect), the
\* current one being saved.
CreateNote ==
    /\ MayDisturb /\ Disturb
    /\ page.root # None /\ ~page.opening
    /\ UploadsIdle /\ saves = <<>>
    /\ ~\E t \in tasks : t.kind = "op"
    /\ page' = [page EXCEPT !.noteLock = TRUE]
    /\ tasks' = tasks \cup {[Listing("op", page) EXCEPT !.pc = "creating", !.req = 0]}
    /\ UNCHANGED <<backend, sw, svc, os, wire, refresh, index, image, saves>>

\* The note exists.
Created(t) ==
    /\ t.pc = "creating"
    /\ IF CurrentNotebook(t)
       THEN /\ Become(t, [t EXCEPT !.pc = "listing", !.req = page.treeReq + 1])
            /\ page' = [page EXCEPT !.treeReq = @ + 1]
            /\ UNCHANGED refresh
       ELSE Ends(t, page)
    /\ UNCHANGED <<backend, sw, svc, os, wire, index, image, saves, used>>

\* The backend lists whatever its root is now.
ListDirectory(t) ==
    /\ t.pc = "listing"
    /\ Become(t, [t EXCEPT !.pc = "listed", !.seen = {backend}])
    /\ UNCHANGED <<backend, page, sw, svc, os, wire, refresh, index, image, saves, used>>

Listed(p, t) == [p EXCEPT !.files = CHOOSE r \in t.seen : TRUE]

\* The listing arrives; a superseded one is dropped.
TreeArrives(t) ==
    LET fresh == t.req = page.treeReq /\ CurrentNotebook(t)
        p == IF fresh THEN Listed(page, t) ELSE page
    IN  /\ t.pc = "listed"
        /\ CASE t.kind = "init" /\ fresh ->
                   /\ Become(t, [t EXCEPT !.pc = "indexing", !.igen = index.gen + 1,
                                          !.seen = {}])
                   /\ index' = [index EXCEPT !.status = "building", !.gen = @ + 1]
                   /\ page' = p
                   /\ UNCHANGED refresh
             [] \/ t.kind = "op" /\ fresh
                \/ t.kind = "flush" /\ IsCurrentWatcher(t.watch) ->
                   /\ Become(t, [t EXCEPT !.pc = "document", !.igen = index.service])
                   /\ page' = p
                   /\ UNCHANGED <<refresh, index>>
             [] OTHER ->
                   /\ Ends(t, p)
                   /\ UNCHANGED index
        /\ UNCHANGED <<backend, sw, svc, os, wire, image, saves, used>>

\* A flush still looks at the active note, whoever the watcher is by then.
ListDirectoryFails(t) ==
    /\ t.pc \in {"creating", "listing"}
    /\ MayFail /\ Fail
    /\ IF t.kind = "flush"
       THEN /\ Become(t, [t EXCEPT !.pc = "note"])
            /\ UNCHANGED <<page, refresh>>
       ELSE Ends(t, page)
    /\ UNCHANGED <<backend, sw, svc, os, wire, index, image, saves>>

\* initialize: the index is built from what the backend answers meanwhile.
ReadForIndex(t) ==
    /\ t.pc = "indexing"
    /\ backend \notin t.seen
    /\ Become(t, [t EXCEPT !.seen = @ \cup {backend}])
    /\ UNCHANGED <<backend, page, sw, svc, os, wire, refresh, index, image, saves, used>>

InstallIndex(t) ==
    /\ t.pc = "indexing"
    /\ t.seen # {}
    /\ index' = IF t.igen = index.gen
                THEN [index EXCEPT !.status = "ready", !.roots = t.seen, !.service = t.igen]
                ELSE index
    /\ Ends(t, page)
    /\ UNCHANGED <<backend, sw, svc, os, wire, image, saves, used>>

IndexFails(t) ==
    /\ t.pc = "indexing"
    /\ MayFail /\ Fail
    /\ index' = IF t.igen = index.gen
                THEN [index EXCEPT !.status = "error"] ELSE index
    /\ Ends(t, page)
    /\ UNCHANGED <<backend, sw, svc, os, wire, image, saves>>

\* refreshDocument changes the service it started with.
Refreshed(service) ==
    IF index.service # 0 /\ service = index.service
    THEN [index EXCEPT !.roots = @ \cup {backend}] ELSE index

RefreshDocument(t) ==
    /\ t.pc = "document"
    /\ index' = Refreshed(t.igen)
    /\ CASE t.kind = "flush" /\ IsCurrentWatcher(t.watch) ->
               /\ Become(t, [t EXCEPT !.pc = "note"])
               /\ UNCHANGED <<page, refresh>>
         [] t.kind = "op" /\ CurrentNotebook(t) ->
               Ends(t, [page EXCEPT !.note = [root |-> t.root, n |-> @.n + 1]])
         [] OTHER -> Ends(t, page)
    /\ UNCHANGED <<backend, sw, svc, os, wire, image, saves, used>>

\* When the events concern it, the active note is read again ...
ReadNote(t) ==
    /\ t.pc = "note"
    /\ \/ Ends(t, page)
       \/ /\ page.note # NoNote
          /\ Become(t, [t EXCEPT !.pc = "noteRead", !.seen = {backend}])
          /\ UNCHANGED <<page, refresh>>
    /\ UNCHANGED <<backend, sw, svc, os, wire, index, image, saves, used>>

\* ... and shown when watcher and note are still the same, and it is clean.
ShowNote(t) ==
    /\ t.pc = "noteRead"
    /\ \/ Ends(t, page)
       \/ /\ IsCurrentWatcher(t.watch) /\ page.note.n = t.note /\ page.note # NoNote
          /\ Ends(t, [page EXCEPT !.note.root = CHOOSE r \in t.seen : TRUE])
    /\ UNCHANGED <<backend, sw, svc, os, wire, index, image, saves, used>>

\* It cannot be read: a clean note that is gone is closed.
NoteIsGone(t) ==
    /\ t.pc = "noteRead"
    /\ MayFail /\ Fail
    /\ IsCurrentWatcher(t.watch) /\ page.note.n = t.note
    /\ Ends(t, [page EXCEPT !.note = NoNote])
    /\ UNCHANGED <<backend, sw, svc, os, wire, index, image, saves>>

-----------------------------------------------------------------------------
\* useImageUpload.

\* A picture is dropped on the open note, behind those at work; the editor
\* takes none while it is locked.
QueueImage ==
    /\ MayDisturb /\ Disturb
    /\ page.note # NoNote /\ ~page.noteLock /\ ~page.opening
    /\ image' = [image EXCEPT !.tail = Append(@, [epoch |-> page.dataGen, note |-> page.note])]
    /\ UNCHANGED <<backend, page, sw, svc, os, wire, refresh, index, tasks, saves>>

OwnerCurrent(job) ==
    page.note # NoNote /\ job.epoch = page.dataGen /\ job.note.n = page.note.n

ImageDone(fate) == [image EXCEPT !.pc = "done", !.fate = fate]

\* The next job: before and after its picture is read the owner must be
\* current.
PrepareImage ==
    /\ NoJob /\ image.tail # <<>>
    /\ LET job == Head(image.tail)
           own == OwnerCurrent(job)
       IN  image' = [pc |-> IF own THEN "read" ELSE "done",
                     epoch |-> job.epoch, note |-> job.note, at |-> None,
                     fate |-> IF own THEN "none" ELSE "dropped", tail |-> Tail(image.tail)]
    /\ UNCHANGED <<backend, page, sw, svc, os, wire, refresh, index, tasks, saves, used>>

\* write_binary_file writes under the backend's root.
WriteImage ==
    /\ image.pc = "read"
    /\ image' = IF OwnerCurrent(image)
                THEN [image EXCEPT !.pc = "written", !.at = backend]
                ELSE ImageDone("dropped")
    /\ UNCHANGED <<backend, page, sw, svc, os, wire, refresh, index, tasks, saves, used>>

WriteImageFails ==
    /\ image.pc = "read"
    /\ MayFail /\ Fail
    /\ image' = ImageDone("reported")
    /\ UNCHANGED <<backend, page, sw, svc, os, wire, refresh, index, tasks, saves>>

InsertImage ==
    /\ image.pc = "written"
    /\ OwnerCurrent(image)
    /\ image' = ImageDone("inserted")
    /\ tasks' = tasks \cup {Listing("image", page)}
    /\ page' = [page EXCEPT !.treeReq = @ + 1]
    /\ UNCHANGED <<backend, sw, svc, os, wire, refresh, index, saves, used>>

\* cleanupOrphan begins: the owner has changed, or the editor refuses the
\* insertion.
InsertFails ==
    /\ image.pc = "written"
    /\ \/ ~OwnerCurrent(image) /\ UNCHANGED used
       \/ OwnerCurrent(image) /\ MayFail /\ Fail
    /\ image' = [image EXCEPT !.pc = "cleaning"]
    /\ UNCHANGED <<backend, page, sw, svc, os, wire, refresh, index, tasks, saves>>

\* Mutant: a failed removal is not reported.
CleanupQuietly ==
    /\ image.pc = "cleaning"
    /\ image' = [ImageDone("cleaned") EXCEPT !.at = IF backend = @ THEN None ELSE @]
    /\ UNCHANGED <<backend, page, sw, svc, os, wire, refresh, index, tasks, saves, used>>

\* It deletes the path in the notebook that is open by then.
CleanupOrphan ==
    /\ image.pc = "cleaning"
    /\ image' = IF backend = image.at THEN [ImageDone("cleaned") EXCEPT !.at = None]
                ELSE ImageDone("reported")
    /\ UNCHANGED <<backend, page, sw, svc, os, wire, refresh, index, tasks, saves, used>>

\* Removing the picture may fail whatever the bounds say: it ends the job.
CleanupFails ==
    /\ image.pc = "cleaning"
    /\ image' = ImageDone("reported")
    /\ UNCHANGED <<backend, page, sw, svc, os, wire, refresh, index, tasks, saves, used>>

-----------------------------------------------------------------------------
\* debouncedSave: each save waits for the one before it.

Save == Head(saves)

\* The first save calls write_file_if_unchanged at once.  The timer of an
\* edit still fires while a switch waits for the uploads.  What is typed while a
\* save is under way counts as one disturbance with it.
SaveNote ==
    LET save == [pc |-> "queued", root |-> page.root, gen |-> page.dataGen,
                 note |-> page.note.n, at |-> None, service |-> 0]
    IN  /\ \/ saves = <<>> /\ MayDisturb /\ Disturb
           \/ Len(saves) \in 1..MaxSaves - 1 /\ UNCHANGED used
        /\ page.note # NoNote /\ ~page.opening
        /\ page.noteLock => sw.pc = "uploads"
        /\ saves' = IF saves = <<>> THEN <<[save EXCEPT !.pc = "called", !.at = backend]>>
                    ELSE Append(saves, save)
        /\ UNCHANGED <<backend, page, sw, svc, os, wire, refresh, index, tasks, image>>

\* Mutant: a queued save only asks whether its note is still open.
StartOfOpenNote ==
    /\ saves # <<>> /\ Save.pc = "queued"
    /\ saves' = IF page.note # NoNote /\ Save.note = page.note.n
                THEN [saves EXCEPT ![1].pc = "called", ![1].at = backend]
                ELSE Tail(saves)
    /\ UNCHANGED <<backend, page, sw, svc, os, wire, refresh, index, tasks, image, used>>

\* The next save asks again whether notebook and note are the ones it is of.
StartSave ==
    /\ saves # <<>> /\ Save.pc = "queued"
    /\ saves' = IF /\ ~page.opening /\ CurrentNotebook(Save)
                   /\ page.note # NoNote /\ Save.note = page.note.n
                THEN [saves EXCEPT ![1].pc = "called", ![1].at = backend]
                ELSE Tail(saves)
    /\ UNCHANGED <<backend, page, sw, svc, os, wire, refresh, index, tasks, image, used>>

\* Refused, failed or overtaken, it ends; written, it refreshes the index.
SaveAnswered ==
    /\ saves # <<>> /\ Save.pc = "called"
    /\ \/ saves' = Tail(saves)
       \/ /\ Save.gen = page.dataGen
          /\ saves' = [saves EXCEPT ![1].pc = "document", ![1].service = index.service]
    /\ UNCHANGED <<backend, page, sw, svc, os, wire, refresh, index, tasks, image, used>>

SaveIndexed ==
    /\ saves # <<>> /\ Save.pc = "document"
    /\ index' = Refreshed(Save.service)
    /\ saves' = Tail(saves)
    /\ UNCHANGED <<backend, page, sw, svc, os, wire, refresh, tasks, image, used>>

-----------------------------------------------------------------------------
User == PickNothing \/ PickFails \/ \E r \in Roots : Pick(r)

Switch ==
    \/ UploadsDone \/ Flushed \/ FlushBlocks \/ Suspend
    \/ OpenNotebookAt \/ OpenFails \/ ListFails \/ CommitWorkspaceHandle
    \/ RolledBack \/ RollbackFails \/ EnterWorkspaceGate

Service ==
    \/ BeginTransition \/ StopFileWatcher \/ Listen \/ StartFileWatcher
    \/ WatchAnswered \/ StartFails \/ UnwatchAnswered

Events == Deliver \/ TimerFires \/ FlushWatcherEvents

Task ==
    \E t \in tasks :
        \/ Created(t) \/ ListDirectory(t) \/ TreeArrives(t) \/ ListDirectoryFails(t)
        \/ ReadForIndex(t) \/ InstallIndex(t) \/ IndexFails(t)
        \/ RefreshDocument(t) \/ ReadNote(t) \/ ShowNote(t) \/ NoteIsGone(t)

Image ==
    \/ PrepareImage \/ WriteImage \/ WriteImageFails \/ InsertImage \/ InsertFails
    \/ CleanupOrphan \/ CleanupFails

Saving == StartSave \/ SaveAnswered \/ SaveIndexed

Next ==
    \/ RequestOpenNotebook \/ User \/ Switch \/ Service \/ FocusRetry
    \/ Emit \/ Events \/ CreateNote \/ Task \/ QueueImage \/ Image \/ SaveNote \/ Saving

\* IPC calls are answered, promises and timers run, the picker is closed in
\* the end and the user comes back to the window.
Fairness ==
    /\ WF_vars(User) /\ WF_vars(Switch) /\ WF_vars(Service) /\ WF_vars(Events)
    /\ WF_vars(Task) /\ WF_vars(Image) /\ WF_vars(Saving)
    /\ WF_vars(FocusRetry)

Spec == Init /\ [][Next]_vars /\ Fairness
-----------------------------------------------------------------------------
\* Properties.

TypeOK ==
    /\ backend \in MaybeRoot
    /\ page.root \in MaybeRoot /\ page.files \in MaybeRoot
    /\ page.gate \in {"none", "idle", "opening", "error"}
    /\ {page.noteLock, page.opening, sw.resume} \subseteq BOOLEAN
    /\ (page.root = None) = (page.gate # "none")
    /\ sw.pc \in {"idle", "picking", "uploads", "flushing", "stopping", "draining",
                  "opening", "listing", "rollingBack", "restoring",
                  "gateStopping", "gateDraining", "resuming"}
    /\ svc.pc \in {"ready", "unwatching", "listening", "starting", "started", "answering"}
    /\ svc.pc # "ready" => svc.queue # <<>>
    /\ index.roots \subseteq Roots
    /\ \A t, u \in tasks : t.kind = u.kind /\ t.req = u.req => t = u
    /\ Cardinality(Flushing) <= 1

\* Whenever requireBoundWorkspace lets an operation through, a relative path
\* means a file of the notebook the page shows: every failure brings the
\* backend's root back, or leads to the gate, before the page is released.
RootsAgree == page.root # None /\ ~page.opening => backend = page.root

\* The file list, the editor and the index come from the notebook the page
\* names, whatever was listed, read or indexed while it was changed.
ShowsOneNotebook ==
    /\ page.files \in {page.root, None}
    /\ page.note.root \in {page.root, None}
    /\ index.roots \subseteq {page.root}

\* start_file_watcher is only asked for the notebook the backend has.  When
\* the service rests, a running OS watcher watches the page's notebook and
\* the page hears it; no watcher runs at the gate.
WatcherIsHeard ==
    /\ svc.pc = "starting" => backend = Op.root
    /\ svc.queue = <<>> /\ sw.pc \in {"idle", "picking", "uploads", "flushing"}
          /\ os.root # None =>
              /\ os.root = page.root
              /\ svc.accept = os.gen
              /\ IsCurrentWatcher(svc.listener)

\* A flush that still counts as current works on events of the notebook
\* the page shows.
OwnEventsOnly ==
    \A t \in Flushing : IsCurrentWatcher(t.watch) => t.from \subseteq {page.root}

\* A picture that was written is in the note it was dropped on, or removed,
\* or its path was reported.
NoSilentOrphan ==
    image.pc = "done" /\ image.at # None =>
        \/ image.fate = "inserted" /\ image.at = image.note.root
        \/ image.fate = "reported"

\* A save writes in the notebook its text was typed in, or not at all, though
\* the backend's root may have moved while it waited behind another save.
SavesStayHome == \A i \in 1..Len(saves) : saves[i].at \in {None, saves[i].root}

\* Opening a notebook ends, however it goes: with the editor unlocked, or
\* at the gate.
SwitchEnds == sw.pc # "idle" ~> sw.pc = "idle" /\ ~page.opening

\* A bound notebook is watched again after every switch, rollback and
\* failed start, once the user comes back to the window.
WatchedAgain ==
    []<>(page.root # None => os.root = page.root)

\* After a notebook is opened its index is rebuilt in the background
\* (spec/frontend/pages.md: opening -> workspace): with no work left and no
\* failure the index of a bound notebook is not missing.
IndexIsRebuilt ==
    page.root # None /\ sw.pc = "idle" /\ tasks = {} => index.status # "idle"
=============================================================================
