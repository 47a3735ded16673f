---------------------------- MODULE FileMutation ----------------------------
(***************************************************************************)
(* How one process of the desktop application changes note files on disk.  *)
(*                                                                         *)
(* Every mutating command (write_file_if_unchanged, write_file,            *)
(* delete_file, rename_file and their external-file twins) runs inside     *)
(* FileMutationCoordinator::with_paths: it obtains one mutex per mutation  *)
(* key from a registry of weak references, acquires the mutexes in the     *)
(* sort order of the keys, runs the disk protocol and lets go.  Programs   *)
(* that do not know the coordinator write the same files at any moment,    *)
(* and the machine may lose power between any two steps.                   *)
(*                                                                         *)
(* A revision is the SHA-256 of the content, so a revision IS the content  *)
(* here (no collisions); NoFile is the null revision of a missing file.    *)
(***************************************************************************)
EXTENDS Naturals

CONSTANTS
    Workers,    \* threads that run commands
    Files,      \* the files of the notebook, as the file system tells them apart
    Paths,      \* the resolved paths the commands are called with
    FileAt,     \* the file the file system finds at a path
    Keys,       \* mutation_path_key values; as numbers, so they are sorted
    KeyAt,      \* mutation_path_key of a path
    Contents,   \* what a note can hold
    LockIds,    \* heap cells that can hold an Arc<Mutex<()>>
    Kinds,      \* the commands that are called: a subset of AllKinds
    Outsiders,  \* TRUE when other programs write the same files
    PowerMayFail, \* TRUE when the machine may go down
    NoFile,     \* no file at the path, the null revision
    NoRequest,  \* the worker runs no command
    NoLock,     \* a key without a live registry entry
    Torn        \* a file whose bytes were not all written

AllKinds == {"cas", "put", "delete", "rename"}

ASSUME KeysAssumption == Keys \subseteq Nat

\* Different spellings of one file have one key: mutation_path_key folds case
\* where the file system does.
ASSUME PathsAssumption ==
    /\ FileAt \in [Paths -> Files]
    /\ KeyAt \in [Paths -> Keys]
    /\ \A p, q \in Paths : FileAt[p] = FileAt[q] => KeyAt[p] = KeyAt[q]
ASSUME KindsAssumption == Kinds \subseteq AllKinds
ASSUME SwitchAssumption == Outsiders \in BOOLEAN /\ PowerMayFail \in BOOLEAN

VARIABLES
    disk,       \* what a read of the file returns
    durable,    \* what a read returns after a power loss that dropped the
                \* directory entries in the cache
    unflushed,  \* files whose bytes were not synchronised before they got there
    request,    \* the arguments of the call a worker runs
    pc,         \* where in the command the worker is
    registry,   \* the coordinator's map: key -> the mutex a Weak points to
    refs,       \* the Arcs a call obtained: key -> mutex
    guards,     \* the keys whose MutexGuard the call holds
    temp,       \* the temporary file of the thread's last save; "left" when it
                \* could not be removed, or a power loss left it behind
    reply,      \* what the worker's last call returned
    acked,      \* history: the last acknowledged save nothing changed since
    raced       \* history: another program wrote between check and replace

coordinator == <<registry, refs, guards>>
files == <<disk, durable, unflushed, acked>>
vars == <<files, request, pc, coordinator, temp, reply, raced>>

Revision == Contents \cup {NoFile}

\* One record for all commands; a field the command has no use for is pinned.
Request == [kind : AllKinds, file : Paths, to : Paths,
            content : Contents, expected : Revision]

ASSUME SentinelAssumption ==
    /\ NoFile \notin Contents
    /\ Torn \notin Contents \cup {NoFile}
    /\ NoRequest \notin Request
    /\ NoLock \notin LockIds

Requests ==
    {r \in Request :
        /\ r.kind \in Kinds
        /\ r.kind # "rename" => r.to = r.file
        /\ r.kind # "cas" => r.expected = NoFile
        /\ r.kind \in {"delete", "rename"} =>
               r.content = CHOOSE c \in Contents : TRUE}

\* Mutant of KeysOf: the key is the path as it is spelled.
KeysOfAsSpelled(r) == {r.file, r.to}

KeysOf(r) == {KeyAt[r.file], KeyAt[r.to]}
FilesOf(r) == {FileAt[r.file], FileAt[r.to]}

Target(w) == FileAt[request[w].file]

Steps == {"idle", "fetch", "lock", "check", "create", "fill", "flush", "recheck",
          "replace", "sync", "apply"}

\* Inside the closure that with_paths runs under its guards.
Critical == {"check", "create", "fill", "flush", "recheck", "replace", "sync",
             "apply"}

Replies == [status : {"saved", "conflict", "done", "failed", "none"},
            actual : Revision \cup {Torn}]

Answer(status, actual) == [status |-> status, actual |-> actual]
Nothing == Answer("none", NoFile)

Init ==
    /\ disk \in [Files -> Revision]
    /\ durable = disk
    /\ unflushed = {}
    /\ request = [w \in Workers |-> NoRequest]
    /\ pc = [w \in Workers |-> "idle"]
    /\ registry = [k \in Keys |-> NoLock]
    /\ refs = [w \in Workers |-> [k \in Keys |-> NoLock]]
    /\ guards = [w \in Workers |-> {}]
    /\ temp = [w \in Workers |-> "none"]
    /\ reply = [w \in Workers |-> Nothing]
    /\ acked = [f \in Files |-> NoFile]
    /\ raced = [w \in Workers |-> FALSE]

-----------------------------------------------------------------------------
(***************************************************************************)
(* The coordinator                                                         *)
(***************************************************************************)

\* Weak::strong_count() > 0: some call still owns an Arc to the mutex.
Alive(id) == \E v \in Workers, k \in Keys : refs[v][k] = id

\* Mutant of Pruned: the registry forgets mutexes that calls still hold.
PrunedTooEagerly(k) == NoLock

\* registry.retain(|_, lock| lock.strong_count() > 0)
Pruned(k) == IF Alive(registry[k]) THEN registry[k] ELSE NoLock

Start(w, r) ==
    /\ pc[w] = "idle"
    /\ request' = [request EXCEPT ![w] = r]
    /\ pc' = [pc EXCEPT ![w] = "fetch"]
    /\ reply' = [reply EXCEPT ![w] = Nothing]
    /\ UNCHANGED <<files, coordinator, temp, raced>>

\* The block under the registry lock: prune, then upgrade or insert each key.
Fetch(w) ==
    /\ pc[w] = "fetch"
    /\ LET wanted == KeysOf(request[w])
           fresh  == {k \in wanted : Pruned(k) = NoLock}
       IN \E new \in [fresh -> {id \in LockIds : ~Alive(id)}] :
            /\ \A j, k \in fresh : new[j] = new[k] => j = k
            /\ registry' = [k \in Keys |-> IF k \in fresh THEN new[k]
                                                          ELSE Pruned(k)]
            /\ refs' = [refs EXCEPT ![w] =
                          [k \in Keys |-> IF k \in wanted THEN registry'[k]
                                                          ELSE NoLock]]
    /\ pc' = [pc EXCEPT ![w] = "lock"]
    /\ UNCHANGED <<files, request, guards, temp, reply, raced>>

\* Some call holds the MutexGuard of the mutex id.
Locked(id) == \E v \in Workers : \E k \in guards[v] : refs[v][k] = id

\* Mutant of NextKey: the keys are taken in the order the command names them.
NextKeyUnsorted(w, k) ==
    IF KeyAt[request[w].file] \in guards[w] THEN k = KeyAt[request[w].to]
                                            ELSE k = KeyAt[request[w].file]

\* The next key in the sorted, deduplicated list.
NextKey(w, k) ==
    /\ k \in KeysOf(request[w]) \ guards[w]
    /\ \A j \in KeysOf(request[w]) \ guards[w] : k <= j

\* Mutant of FirstStep: write_file takes the way of the conditional write.
FirstStepConditional(r) == IF r.kind \in {"cas", "put"} THEN "check" ELSE "apply"

FirstStep(r) ==
    IF r.kind = "cas" THEN "check"
    ELSE IF r.kind = "put" THEN "create" ELSE "apply"

Lock(w) ==
    /\ pc[w] = "lock"
    /\ \E k \in Keys :
         /\ NextKey(w, k)
         /\ ~Locked(refs[w][k])
         /\ guards' = [guards EXCEPT ![w] = @ \cup {k}]
    /\ pc' = [pc EXCEPT ![w] = IF KeysOf(request[w]) \subseteq guards'[w]
                               THEN FirstStep(request[w]) ELSE "lock"]
    /\ UNCHANGED <<files, request, registry, refs, temp, reply, raced>>

\* The closure returned: the guards and the Arcs are dropped, the command
\* answers.
Return(w, answer) ==
    /\ pc' = [pc EXCEPT ![w] = "idle"]
    /\ guards' = [guards EXCEPT ![w] = {}]
    /\ refs' = [refs EXCEPT ![w] = [k \in Keys |-> NoLock]]
    /\ raced' = [raced EXCEPT ![w] = FALSE]
    /\ request' = [request EXCEPT ![w] = NoRequest]
    /\ reply' = [reply EXCEPT ![w] = answer]
    /\ UNCHANGED registry

Goto(w, step) ==
    /\ pc' = [pc EXCEPT ![w] = step]
    /\ UNCHANGED <<request, coordinator, reply, raced>>

Failed == Answer("failed", NoFile)

\* An I/O error where the file system is asked for something.
Fail(w) == Return(w, Failed) /\ UNCHANGED files

\* fs::remove_file on the temporary file; its own failure is ignored.
RemoveTemp(w) == \E t \in {"none", "left"} : temp' = [temp EXCEPT ![w] = t]

-----------------------------------------------------------------------------
(***************************************************************************)
(* write_text_file_if_unchanged_at and write_text_file_atomically          *)
(***************************************************************************)

Matches(w) == disk[Target(w)] = request[w].expected

Conflict(w) ==
    /\ ~Matches(w)
    /\ Return(w, Answer("conflict", disk[Target(w)]))
    /\ UNCHANGED files

\* The revision is read before anything is staged.
FirstCheck(w) ==
    /\ pc[w] = "check"
    /\ \/ Matches(w) /\ Goto(w, "create") /\ UNCHANGED files
       \/ Conflict(w)
       \/ Fail(w)
    /\ UNCHANGED temp

\* File::create of a path no other call uses.
CreateTemp(w) ==
    /\ pc[w] = "create"
    /\ \/ /\ temp' = [temp EXCEPT ![w] = "partial"]
          /\ Goto(w, "fill")
          /\ UNCHANGED files
       \/ Fail(w) /\ UNCHANGED temp

\* write_all.
FillTemp(w) ==
    /\ pc[w] = "fill"
    /\ \/ /\ temp' = [temp EXCEPT ![w] = "written"]
          /\ Goto(w, "flush")
          /\ UNCHANGED files
       \/ Fail(w) /\ RemoveTemp(w)

AfterStaging(w) == IF request[w].kind = "cas" THEN "recheck" ELSE "replace"

\* Mutant of FlushTemp: the bytes are left to the page cache.
FlushTempSkipped(w) ==
    /\ pc[w] = "flush"
    /\ Goto(w, AfterStaging(w))
    /\ UNCHANGED <<files, temp>>

\* sync_all.
FlushTemp(w) ==
    /\ pc[w] = "flush"
    /\ \/ /\ temp' = [temp EXCEPT ![w] = "synced"]
          /\ Goto(w, AfterStaging(w))
          /\ UNCHANGED files
       \/ Fail(w) /\ RemoveTemp(w)

\* Mutant of FinalCheck: the revision is not read again after staging.
FinalCheckSkipped(w) ==
    /\ pc[w] = "recheck"
    /\ Goto(w, "replace")
    /\ UNCHANGED <<files, temp>>

\* Mutant of FinalCheck: the conflict returns without removing what was staged.
FinalCheckLeavesTemp(w) ==
    /\ pc[w] = "recheck"
    /\ \/ Matches(w) /\ Goto(w, "replace") /\ UNCHANGED <<files, temp>>
       \/ Conflict(w) /\ UNCHANGED temp
       \/ Fail(w) /\ RemoveTemp(w)

\* The revision is read again before the commit.
FinalCheck(w) ==
    /\ pc[w] = "recheck"
    /\ \/ Matches(w) /\ Goto(w, "replace") /\ UNCHANGED <<files, temp>>
       \/ Conflict(w) /\ RemoveTemp(w)
       \/ Fail(w) /\ RemoveTemp(w)

\* fs::rename of the temporary file over the target.
Replace(w) ==
    /\ pc[w] = "replace"
    /\ \/ LET f == Target(w) IN
          /\ disk' = [disk EXCEPT ![f] = IF temp[w] = "partial"
                                         THEN Torn ELSE request[w].content]
          /\ unflushed' = IF temp[w] = "synced" THEN unflushed \ {f}
                                                ELSE unflushed \cup {f}
          /\ temp' = [temp EXCEPT ![w] = "none"]
          /\ acked' = [acked EXCEPT ![f] = NoFile]
          /\ Goto(w, "sync")
          /\ UNCHANGED durable
       \/ Fail(w) /\ RemoveTemp(w)

\* The save is answered; history remembers it while the file still holds it.
Acknowledge(w) ==
    /\ acked' = [acked EXCEPT ![Target(w)] = IF disk[Target(w)] = request[w].content
                                             THEN request[w].content ELSE NoFile]
    /\ Return(w, Answer("saved", request[w].content))
    /\ UNCHANGED <<disk, unflushed, temp>>

\* Mutant of SyncDirectory: the directory entry is left to the page cache.
SyncDirectorySkipped(w) ==
    /\ pc[w] = "sync"
    /\ Acknowledge(w)
    /\ UNCHANGED durable

\* sync_parent_directory.  When it fails the command reports an error although
\* the target is already replaced; there is no temporary file to remove then.
SyncDirectory(w) ==
    /\ pc[w] = "sync"
    /\ \/ /\ durable' = [durable EXCEPT ![Target(w)] = disk[Target(w)]]
          /\ Acknowledge(w)
       \/ Fail(w) /\ UNCHANGED temp

-----------------------------------------------------------------------------
(***************************************************************************)
(* delete_file and rename_file                                             *)
(***************************************************************************)

Done == Answer("done", NoFile)

\* trash::delete; the directory is not synced.
Delete(w) ==
    /\ pc[w] = "apply"
    /\ request[w].kind = "delete"
    /\ LET f == Target(w) IN
       \/ /\ disk[f] # NoFile
          /\ disk' = [disk EXCEPT ![f] = NoFile]
          /\ acked' = [acked EXCEPT ![f] = NoFile]
          /\ Return(w, Done)
          /\ UNCHANGED <<durable, unflushed>>
       \/ Fail(w)
    /\ UNCHANGED temp

\* The file at f moves to t, with whatever of it is not on the disk yet.
Move(f, t) ==
    /\ disk' = [disk EXCEPT ![t] = disk[f], ![f] = NoFile]
    /\ unflushed' = (unflushed \ {f, t}) \cup (IF f \in unflushed THEN {t} ELSE {})
    /\ acked' = [acked EXCEPT ![t] = NoFile, ![f] = NoFile]
    /\ UNCHANGED durable

\* rename_no_replace: the kernel refuses an existing destination, so a file
\* that appears there after the checks is safe.  Renaming a file to its own
\* path answers Ok without touching the disk, and to another spelling of it
\* changes no content, where the file system allows it.
Rename(w) ==
    /\ pc[w] = "apply"
    /\ request[w].kind = "rename"
    /\ LET f == Target(w)
           t == FileAt[request[w].to]
       IN
       \/ /\ disk[f] # NoFile
          /\ IF f = t THEN UNCHANGED files ELSE disk[t] = NoFile /\ Move(f, t)
          /\ Return(w, Done)
       \/ Fail(w)
    /\ UNCHANGED temp

-----------------------------------------------------------------------------
(***************************************************************************)
(* The environment                                                         *)
(***************************************************************************)

\* Another program writes or removes a note; what of it a power loss leaves is
\* that program's affair.
Outside(f) ==
    /\ Outsiders
    /\ \E c \in Revision \ {disk[f]} : disk' = [disk EXCEPT ![f] = c]
    /\ unflushed' = unflushed \ {f}
    /\ acked' = [acked EXCEPT ![f] = NoFile]
    /\ raced' = [w \in Workers |->
                    raced[w] \/ (pc[w] = "replace" /\ Target(w) = f)]
    /\ UNCHANGED <<durable, request, pc, coordinator, temp, reply>>

\* The machine goes down and comes back: every cached directory entry has
\* either reached the disk or is lost, bytes that were not synchronised may be
\* missing, and the process starts again.
PowerLoss ==
    /\ PowerMayFail
    /\ \E lost \in SUBSET {f \in Files : durable[f] # disk[f]},
          torn \in SUBSET {f \in unflushed : disk[f] # NoFile} :
         disk' = [f \in Files |-> IF f \in lost THEN durable[f]
                                  ELSE IF f \in torn THEN Torn ELSE disk[f]]
    /\ durable' = disk'
    /\ unflushed' = {}
    /\ pc' = [w \in Workers |-> "idle"]
    /\ registry' = [k \in Keys |-> NoLock]
    /\ refs' = [w \in Workers |-> [k \in Keys |-> NoLock]]
    /\ guards' = [w \in Workers |-> {}]
    /\ temp' = [w \in Workers |-> IF temp[w] = "none" THEN "none" ELSE "left"]
    /\ request' = [w \in Workers |-> NoRequest]
    /\ reply' = [w \in Workers |-> Nothing]
    /\ raced' = [w \in Workers |-> FALSE]
    /\ UNCHANGED acked

Run(w) ==
    \/ Fetch(w) \/ Lock(w)
    \/ FirstCheck(w) \/ CreateTemp(w) \/ FillTemp(w) \/ FlushTemp(w) \/ FinalCheck(w)
    \/ Replace(w) \/ SyncDirectory(w)
    \/ Delete(w) \/ Rename(w)

Next ==
    \/ \E w \in Workers : Run(w) \/ (\E r \in Requests : Start(w, r))
    \/ \E f \in Files : Outside(f)
    \/ PowerLoss

Spec == Init /\ [][Next]_vars
-----------------------------------------------------------------------------
(***************************************************************************)
(* Properties                                                              *)
(***************************************************************************)

Types ==
    /\ disk \in [Files -> Revision \cup {Torn}]
    /\ durable \in [Files -> Revision \cup {Torn}]
    /\ unflushed \subseteq Files
    /\ request \in [Workers -> Requests \cup {NoRequest}]
    /\ pc \in [Workers -> Steps]
    /\ registry \in [Keys -> LockIds \cup {NoLock}]
    /\ refs \in [Workers -> [Keys -> LockIds \cup {NoLock}]]
    /\ guards \in [Workers -> SUBSET Keys]
    /\ temp \in [Workers -> {"none", "partial", "written", "synced", "left"}]
    /\ reply \in [Workers -> Replies]
    /\ acked \in [Files -> Revision]
    /\ raced \in [Workers -> BOOLEAN]

\* A call holds a request while it runs, and is at a step of that command.
CallInv ==
    \A w \in Workers :
        /\ pc[w] = "idle" => request[w] = NoRequest
        /\ pc[w] # "idle" => request[w] \in Requests
        /\ pc[w] \in {"check", "recheck"} => request[w].kind = "cas"
        /\ pc[w] \in {"create", "fill", "flush", "replace", "sync"} =>
               request[w].kind \in {"cas", "put"}
        /\ pc[w] = "apply" => request[w].kind \in {"delete", "rename"}

\* The variables have their types, and each call is at a step of the command
\* it runs: only the conditional write compares revisions.
TypeOK == Types /\ CallInv

InCritical(w, f) == pc[w] \in Critical /\ f \in FilesOf(request[w])

\* Two commands never run their disk protocol on the same file at once,
\* however they spell its path, although each call finds its mutexes through a
\* map of weak references that other calls prune and refill (with_paths).
OneCallPerFile ==
    \A v, w \in Workers, f \in Files :
        InCritical(v, f) /\ InCritical(w, f) => v = w

\* When a conditional save is about to replace a file that no longer holds the
\* revision it was told to expect, the change came from another program in the
\* instant after the final check: no command of this application slips a
\* write, a delete or a rename in there (the second current_text_revision and
\* the coordinator together).
NoInProcessLostUpdate ==
    \A w \in Workers :
        pc[w] = "replace" /\ request[w].kind = "cas" /\ ~Matches(w) => raced[w]

\* No reader and no restart ever sees a half-written note: a save that dies at
\* any point leaves the old content or the new one, because the bytes are
\* written and synchronised before the note is replaced (stage_text_file, then
\* commit_staged_text_file).
NoteNeverTorn ==
    \A f \in Files : disk[f] # Torn /\ durable[f] # Torn

\* A save that was acknowledged is still there after a power loss, until
\* something changes the file again (sync_parent_directory before Saved).
AcknowledgedSaveSurvives ==
    \A f \in Files : acked[f] # NoFile => disk[f] = acked[f]

\* v waits for a mutex that w holds.
WaitsFor(v, w) ==
    /\ pc[v] = "lock"
    /\ \E k \in Keys : NextKey(v, k)
                       /\ \E j \in guards[w] : refs[w][j] = refs[v][k]

\* No set of commands waits for each other in a circle, however their renames
\* cross: mutexes are taken in key order and a key that occurs twice is taken
\* once (sort_by and dedup_by in with_paths).
NoCircularWait ==
    ~ \E S \in SUBSET Workers :
        S # {} /\ \A v \in S : \E w \in S : WaitsFor(v, w)

\* A temporary file is there only while its call is between staging and
\* replacing, unless removing it failed or the machine went down: each error
\* and conflict path has a remove_file call of its own.
NoStrayTemp ==
    \A w \in Workers :
        temp[w] \in {"partial", "written", "synced"} =>
            pc[w] \in {"fill", "flush", "recheck", "replace"}

(***************************************************************************)
(* The coordinated, staged protocol implements AtomicFiles: a call is      *)
(* pending until its effect, and a write is written until it is durable.   *)
(***************************************************************************)
phase == [w \in Workers |-> IF pc[w] = "idle" THEN "idle"
                            ELSE IF pc[w] = "sync" THEN "written"
                            ELSE "pending"]

Atomic == INSTANCE AtomicFiles

\* Callers of the commands may reason as if each took effect in one step.
ImplementsAtomicFiles == Atomic!Spec
=============================================================================
