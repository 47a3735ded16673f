------------------------- MODULE FileMutationProofs -------------------------
(***************************************************************************)
(* Theorems about FileMutation, for any number of threads, files, mutexes  *)
(* and contents.                                                           *)
(***************************************************************************)
EXTENDS FileMutation, FiniteSetTheorems, TLAPS

Assumptions == KeysAssumption /\ PathsAssumption /\ KindsAssumption /\ SentinelAssumption /\ SwitchAssumption

LEMMA RequestFields ==
    ASSUME NEW r \in Requests
    PROVE  /\ r \in Request
           /\ r.kind \in AllKinds /\ r.file \in Paths /\ r.to \in Paths
           /\ r.content \in Contents /\ r.expected \in Revision
           /\ KeysOf(r) \subseteq Keys
           /\ KeyAt[r.file] \in KeysOf(r) /\ KeyAt[r.to] \in KeysOf(r)
           /\ FileAt[r.file] \in Files /\ FileAt[r.to] \in Files
           /\ FilesOf(r) = {FileAt[r.file], FileAt[r.to]}
  BY PathsAssumption DEF Requests, Request, KeysOf, FilesOf

\* Calls on one file take one key in common.
LEMMA OneKeyPerFile ==
    ASSUME NEW q \in Requests, NEW r \in Requests, NEW f \in FilesOf(q) \cap FilesOf(r)
    PROVE  \E k \in Keys : k \in KeysOf(q) /\ k \in KeysOf(r)
  BY PathsAssumption, RequestFields DEF KeysOf, FilesOf

LEMMA Distinct ==
    /\ NoFile \in Revision
    /\ Torn \notin Revision
    /\ Contents \subseteq Revision
    /\ NoRequest \notin Requests
    /\ NoLock \notin LockIds
  BY SentinelAssumption DEF Revision, Requests

\* Why finding a mutex through weak references is sound: every mutex a call
\* still owns is the one the registry maps its key to, and no mutex serves two
\* keys.
MutexInv ==
    /\ \A w \in Workers : pc[w] \in {"idle", "fetch"} =>
           guards[w] = {} /\ \A k \in Keys : refs[w][k] = NoLock
    /\ \A w \in Workers : pc[w] \notin {"idle", "fetch"} =>
           \A k \in KeysOf(request[w]) : refs[w][k] # NoLock
    /\ \A w \in Workers, k \in Keys : refs[w][k] # NoLock => registry[k] = refs[w][k]
    /\ \A j, k \in Keys : registry[j] = registry[k] /\ registry[j] # NoLock => j = k
    /\ \A w \in Workers : \A k \in guards[w] : refs[w][k] # NoLock
    /\ \A v, w \in Workers, k \in Keys :
           k \in guards[v] /\ k \in guards[w] => v = w
    /\ \A w \in Workers : pc[w] \in Critical => KeysOf(request[w]) \subseteq guards[w]

IInv == Types /\ CallInv /\ MutexInv

Temps == {"none", "partial", "written", "synced", "left"}

\* What an answer and its cleaning up do to the types.
LEMMA ReturnType ==
    ASSUME Types, NEW w \in Workers, NEW a \in Replies, Return(w, a),
           UNCHANGED temp \/ RemoveTemp(w)
    PROVE  /\ request' \in [Workers -> Requests \cup {NoRequest}]
           /\ pc' \in [Workers -> Steps]
           /\ registry' \in [Keys -> LockIds \cup {NoLock}]
           /\ refs' \in [Workers -> [Keys -> LockIds \cup {NoLock}]]
           /\ guards' \in [Workers -> SUBSET Keys]
           /\ temp' \in [Workers -> Temps]
           /\ reply' \in [Workers -> Replies]
           /\ raced' \in [Workers -> BOOLEAN]
  BY DEF Types, Return, RemoveTemp, Steps, Temps

LEMMA FailType ==
    ASSUME Types, NEW w \in Workers, Fail(w), UNCHANGED temp \/ RemoveTemp(w)
    PROVE  Types'
  <1>1. Failed \in Replies
    BY Distinct DEF Failed, Answer, Replies
  <1>2. QED
    BY <1>1, ReturnType DEF Fail, files, Types, Temps

LEMMA ConflictType ==
    ASSUME Types, NEW w \in Workers, Target(w) \in Files, Conflict(w),
           UNCHANGED temp \/ RemoveTemp(w)
    PROVE  Types'
  <1>1. Answer("conflict", disk[Target(w)]) \in Replies
    BY DEF Types, Answer, Replies
  <1>2. QED
    BY <1>1, ReturnType DEF Conflict, files, Types, Temps

LEMMA TypeStep ==
    ASSUME Types, CallInv, [Next]_vars
    PROVE  Types'
  <1> USE DEF Types
  <1>0. ASSUME NEW w \in Workers, pc[w] # "idle"
        PROVE  /\ request[w] \in Requests /\ request[w].content \in Revision
               /\ Target(w) \in Files /\ FileAt[request[w].to] \in Files
    BY <1>0, RequestFields, Distinct DEF CallInv, Target
  <1>1. ASSUME NEW w \in Workers, NEW r \in Requests, Start(w, r)
        PROVE  Types'
    <2>1. Nothing \in Replies
      BY Distinct DEF Nothing, Answer, Replies
    <2>2. QED
      BY <1>1, <2>1 DEF Start, Steps, coordinator, files
  <1>2. ASSUME NEW w \in Workers, Fetch(w)
        PROVE  Types'
    <2>1. registry' \in [Keys -> LockIds \cup {NoLock}]
      BY <1>2, <1>0, RequestFields DEF Fetch, Pruned
    <2>2. refs' \in [Workers -> [Keys -> LockIds \cup {NoLock}]]
      BY <1>2, <2>1 DEF Fetch
    <2>3. QED
      BY <1>2, <2>1, <2>2 DEF Fetch, Steps, files
  <1>3. ASSUME NEW w \in Workers, Lock(w)
        PROVE  Types'
    <2>1. FirstStep(request[w]) \in Steps
      BY DEF FirstStep, Steps
    <2>2. QED
      BY <1>3, <2>1 DEF Lock, Steps, files
  <1>4. ASSUME NEW w \in Workers,
               \/ FirstCheck(w) \/ CreateTemp(w) \/ FillTemp(w) \/ FlushTemp(w)
               \/ FinalCheck(w)
        PROVE  Types'
    <2>1. pc[w] # "idle"
      BY <1>4 DEF FirstCheck, CreateTemp, FillTemp, FlushTemp, FinalCheck
    <2>2. CASE (Conflict(w) \/ Fail(w)) /\ (UNCHANGED temp \/ RemoveTemp(w))
      BY <1>0, <2>1, <2>2, FailType, ConflictType
    <2>3. CASE /\ \E s \in Steps : Goto(w, s)
               /\ UNCHANGED files
               /\ \E t \in Temps : temp' = [temp EXCEPT ![w] = t]
      BY <2>3 DEF Goto, coordinator, files, Temps
    <2>4. CASE (\E s \in Steps : Goto(w, s)) /\ UNCHANGED <<files, temp>>
      BY <2>4 DEF Goto, coordinator, files
    <2>5. QED
      BY <1>4, <2>2, <2>3, <2>4
         DEF FirstCheck, CreateTemp, FillTemp, FlushTemp, FinalCheck, AfterStaging, Steps, Temps
  <1>5. ASSUME NEW w \in Workers, Replace(w)
        PROVE  Types'
    <2>1. CASE Fail(w)
      BY <1>5, <2>1, FailType DEF Replace, Fail, Return, Goto, Steps
    <2>2. CASE ~Fail(w)
      <3>1. request[w].content \in Revision /\ Target(w) \in Files
        BY <1>0, <1>5 DEF Replace
      <3>2. /\ disk' = [disk EXCEPT ![Target(w)] =
                          IF temp[w] = "partial" THEN Torn ELSE request[w].content]
            /\ unflushed' = IF temp[w] = "synced" THEN unflushed \ {Target(w)}
                                                  ELSE unflushed \cup {Target(w)}
            /\ temp' = [temp EXCEPT ![w] = "none"]
            /\ acked' = [acked EXCEPT ![Target(w)] = NoFile]
            /\ UNCHANGED durable
            /\ Goto(w, "sync")
        BY <1>5, <2>2 DEF Replace
      <3>3. /\ disk' \in [Files -> Revision \cup {Torn}]
            /\ unflushed' \subseteq Files
            /\ acked' \in [Files -> Revision]
            /\ temp' \in [Workers -> Temps]
        BY <3>1, <3>2, Distinct DEF Temps
      <3>4. QED
        BY <3>2, <3>3 DEF Goto, coordinator, Steps, Temps
    <2>3. QED
      BY <2>1, <2>2
  <1>6. ASSUME NEW w \in Workers, SyncDirectory(w)
        PROVE  Types'
    <2>1. CASE Fail(w) /\ UNCHANGED temp
      BY <2>1, FailType
    <2>2. CASE ~(Fail(w) /\ UNCHANGED temp)
      <3>1. request[w].content \in Revision /\ Target(w) \in Files
        BY <1>0, <1>6 DEF SyncDirectory
      <3>2. Answer("saved", request[w].content) \in Replies
        BY <3>1 DEF Answer, Replies
      <3>3. /\ durable' = [durable EXCEPT ![Target(w)] = disk[Target(w)]]
            /\ Acknowledge(w)
        BY <1>6, <2>2 DEF SyncDirectory
      <3>4. /\ durable' \in [Files -> Revision \cup {Torn}]
            /\ acked' \in [Files -> Revision]
            /\ UNCHANGED <<disk, unflushed, temp>>
            /\ Return(w, Answer("saved", request[w].content))
        BY <3>1, <3>3, Distinct DEF Acknowledge
      <3>5. QED
        BY <3>2, <3>4, ReturnType DEF Temps
    <2>3. QED
      BY <2>1, <2>2
  <1>7. ASSUME NEW w \in Workers, Delete(w) \/ Rename(w)
        PROVE  Types'
    <2>1. Target(w) \in Files /\ FileAt[request[w].to] \in Files
      BY <1>0, <1>7 DEF Delete, Rename
    <2>2. Done \in Replies
      BY Distinct DEF Done, Answer, Replies
    <2>3. CASE Fail(w)
      BY <1>7, <2>3, FailType DEF Delete, Rename
    <2>4. CASE ~Fail(w)
      <3>1. Return(w, Done) /\ UNCHANGED <<temp, durable>>
        BY <1>7, <2>4 DEF Delete, Rename, Move, files
      <3>2. /\ disk' \in [Files -> Revision \cup {Torn}]
            /\ unflushed' \subseteq Files
            /\ acked' \in [Files -> Revision]
        <4>1. CASE Delete(w)
          <5>1. /\ disk' = [disk EXCEPT ![Target(w)] = NoFile]
                /\ acked' = [acked EXCEPT ![Target(w)] = NoFile]
                /\ UNCHANGED unflushed
            BY <4>1, <2>4 DEF Delete
          <5>2. QED
            BY <5>1, <2>1, Distinct
        <4>2. CASE Rename(w) /\ UNCHANGED files
          BY <4>2 DEF files
        <4>3. CASE Rename(w) /\ Move(Target(w), FileAt[request[w].to])
          BY <4>3, <2>1, Distinct DEF Move
        <4>4. QED
          BY <1>7, <2>4, <4>1, <4>2, <4>3 DEF Rename
      <3>3. QED
        BY <3>1, <3>2, <2>2, ReturnType DEF Temps
    <2>5. QED
      BY <2>3, <2>4
  <1>8. ASSUME NEW f \in Files, Outside(f)
        PROVE  Types'
    BY <1>8, Distinct DEF Outside, coordinator
  <1>9. CASE PowerLoss
    <2>1. Nothing \in Replies
      BY Distinct DEF Nothing, Answer, Replies
    <2>2. QED
      BY <1>9, <2>1 DEF PowerLoss, Steps
  <1>10. CASE UNCHANGED vars
    BY <1>10 DEF vars, coordinator, files
  <1>11. QED
    BY <1>1, <1>2, <1>3, <1>4, <1>5, <1>6, <1>7, <1>8, <1>9, <1>10 DEF Next, Run

-----------------------------------------------------------------------------
(***************************************************************************)
(* Mutual exclusion through weak references                                *)
(***************************************************************************)

\* What every step of a call leaves alone: the mutexes, and the other calls.
Quiet(w) ==
    /\ UNCHANGED <<request, coordinator>>
    /\ \E s \in Steps : pc' = [pc EXCEPT ![w] = s]

LEMMA ReturnMutex ==
    ASSUME Types, CallInv, MutexInv, NEW w \in Workers, NEW a, Return(w, a)
    PROVE  CallInv' /\ MutexInv'
  <1>1. CallInv'
    BY DEF Types, CallInv, Return, Steps
  <1>2. /\ pc' = [pc EXCEPT ![w] = "idle"]
        /\ guards' = [guards EXCEPT ![w] = {}]
        /\ refs' = [refs EXCEPT ![w] = [k \in Keys |-> NoLock]]
        /\ request' = [request EXCEPT ![w] = NoRequest]
        /\ registry' = registry
    BY DEF Return
  <1>3. MutexInv'
    BY <1>2 DEF Types, MutexInv, Critical
  <1>4. QED
    BY <1>1, <1>3

LEMMA FetchMutex ==
    ASSUME Types, CallInv, MutexInv, NEW w \in Workers, Fetch(w)
    PROVE  MutexInv'
  <1> DEFINE wanted == KeysOf(request[w])
             fresh  == {k \in wanted : Pruned(k) = NoLock}
  <1>1. wanted \subseteq Keys /\ pc[w] = "fetch" /\ pc' = [pc EXCEPT ![w] = "lock"]
        /\ UNCHANGED <<request, guards>>
    BY RequestFields DEF Fetch, CallInv
  <1>2. PICK new \in [fresh -> {id \in LockIds : ~Alive(id)}] :
            /\ \A j, k \in fresh : new[j] = new[k] => j = k
            /\ registry' = [k \in Keys |-> IF k \in fresh THEN new[k] ELSE Pruned(k)]
            /\ refs' = [refs EXCEPT ![w] =
                          [k \in Keys |-> IF k \in wanted THEN registry'[k] ELSE NoLock]]
    BY DEF Fetch
  <1>3. \A k \in fresh : new[k] # NoLock /\ ~Alive(new[k])
    BY <1>2, Distinct
  <1>4. \A k \in Keys : refs'[w][k] = IF k \in wanted THEN registry'[k] ELSE NoLock
    BY <1>2 DEF Types
  <1>5. \A v \in Workers \ {w} : refs'[v] = refs[v]
    BY <1>2 DEF Types
  <1>6. \A k \in Keys : refs[w][k] = NoLock
    BY <1>1 DEF MutexInv
  <1>7. \A k \in wanted : registry'[k] # NoLock
    BY <1>1, <1>2, <1>3
  <1>8. \A v \in Workers, k \in Keys : refs[v][k] # NoLock =>
            Alive(refs[v][k]) /\ Pruned(k) = refs[v][k] /\ registry'[k] = refs[v][k]
    <2> SUFFICES ASSUME NEW v \in Workers, NEW k \in Keys, refs[v][k] # NoLock
                 PROVE  Alive(refs[v][k]) /\ Pruned(k) = refs[v][k] /\ registry'[k] = refs[v][k]
      OBVIOUS
    <2>1. Alive(refs[v][k])
      BY DEF Alive
    <2>2. Pruned(k) = refs[v][k]
      BY <2>1 DEF Pruned, MutexInv
    <2>3. QED
      BY <1>2, <2>1, <2>2
  \* A key's entry either is a mutex that is alive now, or a fresh one.
  <1>9. \A k \in wanted : \/ k \in fresh /\ registry'[k] = new[k]
                          \/ Alive(registry'[k]) /\ registry'[k] = registry[k]
                             /\ registry[k] # NoLock
    BY <1>1, <1>2 DEF Pruned
  \* What survives pruning is still injective, and fresh mutexes are new.
  <1>10. \A j, k \in Keys : registry'[j] = registry'[k] /\ registry'[j] # NoLock => j = k
    <2> SUFFICES ASSUME NEW j \in Keys, NEW k \in Keys,
                        registry'[j] = registry'[k], registry'[j] # NoLock
                 PROVE  j = k
      OBVIOUS
    <2>1. CASE j \in fresh /\ k \in fresh
      BY <2>1, <1>1, <1>2
    <2>2. CASE j \notin fresh /\ k \notin fresh
      BY <2>2, <1>2 DEF Pruned, MutexInv
    <2>3. ASSUME NEW i \in Keys \ fresh, registry'[i] # NoLock
          PROVE  Alive(registry'[i])
      BY <2>3, <1>2 DEF Pruned
    <2>4. \A i \in fresh : ~Alive(registry'[i])
      BY <1>1, <1>2, <1>3
    <2>5. QED
      BY <2>1, <2>2, <2>3, <2>4
  <1>11. \A v \in Workers, k \in Keys : refs'[v][k] # NoLock => registry'[k] = refs'[v][k]
    BY <1>4, <1>5, <1>8
  <1>12. \A v \in Workers : pc'[v] = IF v = w THEN "lock" ELSE pc[v]
    BY <1>1 DEF Types
  <1>13. \A v \in Workers : pc'[v] \in {"idle", "fetch"} =>
             guards'[v] = {} /\ \A k \in Keys : refs'[v][k] = NoLock
    BY <1>1, <1>5, <1>12 DEF MutexInv
  <1>14. \A v \in Workers : pc'[v] \notin {"idle", "fetch"} =>
             \A k \in KeysOf(request'[v]) : refs'[v][k] # NoLock
    BY <1>1, <1>4, <1>5, <1>7, <1>12 DEF MutexInv
  <1>15. \A v \in Workers : \A k \in guards'[v] : refs'[v][k] # NoLock
    BY <1>1, <1>5 DEF MutexInv
  <1>16. /\ \A v, u \in Workers, k \in Keys :
                k \in guards'[v] /\ k \in guards'[u] => v = u
         /\ \A v \in Workers : pc'[v] \in Critical => KeysOf(request'[v]) \subseteq guards'[v]
    BY <1>1, <1>12 DEF MutexInv, Critical
  <1>17. QED
    BY <1>10, <1>11, <1>13, <1>14, <1>15, <1>16 DEF MutexInv

LEMMA LockMutex ==
    ASSUME Types, CallInv, MutexInv, NEW w \in Workers, Lock(w)
    PROVE  CallInv' /\ MutexInv'
  <1>1. request[w] \in Requests /\ KeysOf(request[w]) \subseteq Keys /\ pc[w] = "lock"
    BY RequestFields DEF Lock, CallInv
  <1>2. PICK k \in Keys :
            /\ NextKey(w, k)
            /\ ~Locked(refs[w][k])
            /\ guards' = [guards EXCEPT ![w] = @ \cup {k}]
    BY DEF Lock
  <1>3. /\ pc' = [pc EXCEPT ![w] = IF KeysOf(request[w]) \subseteq guards'[w]
                                   THEN FirstStep(request[w]) ELSE "lock"]
        /\ UNCHANGED <<request, registry, refs>>
    BY DEF Lock
  <1>4. FirstStep(request[w]) =
            IF request[w].kind = "cas" THEN "check"
            ELSE IF request[w].kind = "put" THEN "create" ELSE "apply"
    BY DEF FirstStep
  <1>5. request[w].kind \in {"cas", "put", "delete", "rename"}
    BY <1>1, RequestFields DEF AllKinds
  <1>6. CallInv'
    BY <1>1, <1>3, <1>4, <1>5 DEF Types, CallInv
  \* The mutex of k is the one every other holder of k would hold.
  <1>7. \A v \in Workers : k \notin guards[v]
    <2> SUFFICES ASSUME NEW v \in Workers, k \in guards[v]
                 PROVE  FALSE
      OBVIOUS
    <2>1. k \in KeysOf(request[w])
      BY <1>2 DEF NextKey
    <2>2. refs[v][k] = registry[k] /\ refs[w][k] = registry[k]
      BY <1>1, <2>1 DEF MutexInv
    <2>3. QED
      BY <1>2, <2>2 DEF Locked
  <1>8. \A v \in Workers : guards'[v] = IF v = w THEN guards[w] \cup {k} ELSE guards[v]
    BY <1>2 DEF Types
  <1>9. \A v, u \in Workers, j \in Keys : j \in guards'[v] /\ j \in guards'[u] => v = u
    BY <1>7, <1>8 DEF MutexInv
  <1>10. \A v \in Workers : \A j \in guards'[v] : refs'[v][j] # NoLock
    BY <1>1, <1>2, <1>3, <1>8 DEF MutexInv, NextKey
  <1>11. \A v \in Workers : pc'[v] = IF v # w THEN pc[v]
                ELSE IF KeysOf(request[w]) \subseteq guards'[w]
                     THEN FirstStep(request[w]) ELSE "lock"
    BY <1>3 DEF Types
  <1>12. \A v \in Workers : pc'[v] \in Critical => KeysOf(request'[v]) \subseteq guards'[v]
    BY <1>3, <1>8, <1>11 DEF MutexInv, Critical
  <1>13. \A v \in Workers : (pc'[v] \in {"idle", "fetch"}) <=> (pc[v] \in {"idle", "fetch"})
    BY <1>1, <1>4, <1>11
  <1>14. \A v \in Workers : pc'[v] \in {"idle", "fetch"} => guards'[v] = guards[v]
    BY <1>1, <1>8, <1>13
  <1>15. QED
    BY <1>3, <1>6, <1>9, <1>10, <1>12, <1>13, <1>14 DEF MutexInv

\* A step of the protocol that keeps its guards.
LEMMA GotoMutex ==
    ASSUME Types, CallInv, MutexInv, NEW w \in Workers, pc[w] \in Critical,
           NEW s \in Critical, Goto(w, s),
           s \in {"check", "recheck"} => request[w].kind = "cas",
           s \in {"create", "fill", "flush", "replace", "sync"} => request[w].kind \in {"cas", "put"},
           s = "apply" => request[w].kind \in {"delete", "rename"}
    PROVE  CallInv' /\ MutexInv'
  <1>1. /\ pc' = [pc EXCEPT ![w] = s]
        /\ UNCHANGED <<request, registry, refs, guards>>
    BY DEF Goto, coordinator
  <1>2. \A v \in Workers : pc'[v] = IF v = w THEN s ELSE pc[v]
    BY <1>1 DEF Types
  <1>3. s \notin {"idle", "fetch"} /\ pc[w] \notin {"idle", "fetch"}
    BY DEF Critical
  <1>4. CallInv'
    BY <1>1, <1>2, <1>3 DEF CallInv
  <1>5. MutexInv'
    BY <1>1, <1>2, <1>3 DEF MutexInv
  <1>6. QED
    BY <1>4, <1>5

LEMMA MutexStep ==
    ASSUME IInv, [Next]_vars
    PROVE  CallInv' /\ MutexInv'
  <1> USE DEF IInv
  <1>1. ASSUME NEW w \in Workers, NEW r \in Requests, Start(w, r)
        PROVE  CallInv' /\ MutexInv'
    <2>1. /\ pc[w] = "idle"
          /\ pc' = [pc EXCEPT ![w] = "fetch"]
          /\ request' = [request EXCEPT ![w] = r]
          /\ UNCHANGED <<registry, refs, guards>>
      BY <1>1 DEF Start, coordinator
    <2>2. CallInv'
      BY <2>1 DEF Types, CallInv
    <2>3. MutexInv'
      BY <2>1 DEF Types, MutexInv, Critical
    <2>4. QED
      BY <2>2, <2>3
  <1>2. ASSUME NEW w \in Workers, Fetch(w)
        PROVE  CallInv' /\ MutexInv'
    <2>1. CallInv'
      BY <1>2 DEF Types, CallInv, Fetch
    <2>2. QED
      BY <1>2, <2>1, FetchMutex
  <1>3. ASSUME NEW w \in Workers, Lock(w)
        PROVE  CallInv' /\ MutexInv'
    BY <1>3, LockMutex
  <1>4. ASSUME NEW w \in Workers,
               \/ FirstCheck(w) \/ CreateTemp(w) \/ FillTemp(w) \/ FlushTemp(w)
               \/ FinalCheck(w) \/ Replace(w)
        PROVE  CallInv' /\ MutexInv'
    <2>1. CASE Conflict(w) \/ Fail(w)
      BY <2>1, ReturnMutex DEF Conflict, Fail
    <2>2. CASE FirstCheck(w) /\ Goto(w, "create")
      BY <2>2, GotoMutex DEF FirstCheck, CallInv, Critical
    <2>3. CASE CreateTemp(w) /\ Goto(w, "fill")
      BY <2>3, GotoMutex DEF CreateTemp, CallInv, Critical
    <2>4. CASE FillTemp(w) /\ Goto(w, "flush")
      BY <2>4, GotoMutex DEF FillTemp, CallInv, Critical
    <2>5. CASE FlushTemp(w) /\ Goto(w, AfterStaging(w))
      BY <2>5, GotoMutex DEF FlushTemp, AfterStaging, CallInv, Critical
    <2>6. CASE FinalCheck(w) /\ Goto(w, "replace")
      BY <2>6, GotoMutex DEF FinalCheck, CallInv, Critical
    <2>7. CASE Replace(w) /\ Goto(w, "sync")
      BY <2>7, GotoMutex DEF Replace, CallInv, Critical
    <2>8. QED
      BY <1>4, <2>1, <2>2, <2>3, <2>4, <2>5, <2>6, <2>7
         DEF FirstCheck, CreateTemp, FillTemp, FlushTemp, FinalCheck, Replace
  <1>5. ASSUME NEW w \in Workers, SyncDirectory(w) \/ Delete(w) \/ Rename(w)
        PROVE  CallInv' /\ MutexInv'
    BY <1>5, ReturnMutex DEF SyncDirectory, Acknowledge, Delete, Rename, Fail
  <1>6. CASE \E f \in Files : Outside(f)
    BY <1>6 DEF Outside, coordinator, CallInv, MutexInv, Critical
  <1>7. CASE PowerLoss
    BY <1>7 DEF PowerLoss, CallInv, MutexInv, Critical
  <1>8. CASE UNCHANGED vars
    BY <1>8 DEF vars, coordinator, CallInv, MutexInv, Critical
  <1>9. QED
    BY <1>1, <1>2, <1>3, <1>4, <1>5, <1>6, <1>7, <1>8 DEF Next, Run

LEMMA InitInv ==
    ASSUME Init
    PROVE  IInv
  <1>1. Nothing \in Replies
    BY Distinct DEF Nothing, Answer, Replies
  <1>2. Types
    BY <1>1, Distinct DEF Init, Types, Steps
  <1>3. CallInv /\ MutexInv
    BY DEF Init, CallInv, MutexInv, Critical
  <1>4. QED
    BY <1>2, <1>3 DEF IInv

\* The inductive invariant holds in every behaviour of the commands.
LEMMA InvariantHolds == Spec => []IInv
  <1>1. Init => IInv
    BY InitInv
  <1>2. IInv /\ [Next]_vars => IInv'
    BY TypeStep, MutexStep DEF IInv
  <1>3. QED
    BY <1>1, <1>2, PTL DEF Spec

\* Every variable keeps its type, whatever the threads, other programs and
\* power losses do.
THEOREM TypeCorrect == Spec => []TypeOK
  BY InvariantHolds, PTL DEF IInv, TypeOK

\* with_paths gives each file at most one running command, however its path is
\* spelled, although mutexes come and go through a map of weak references.
THEOREM MutualExclusion == Spec => []OneCallPerFile
  <1>1. IInv => OneCallPerFile
    BY OneKeyPerFile DEF IInv, CallInv, MutexInv, OneCallPerFile, InCritical, Critical
  <1>2. QED
    BY <1>1, InvariantHolds, PTL

-----------------------------------------------------------------------------
(***************************************************************************)
(* What the staged write protects                                          *)
(***************************************************************************)

WriteInv ==
    /\ \A w \in Workers : /\ pc[w] = "flush" => temp[w] = "written"
                         /\ pc[w] \in {"recheck", "replace"} => temp[w] = "synced"
    /\ unflushed = {}
    /\ NoteNeverTorn
    /\ NoInProcessLostUpdate
    /\ \A f \in Files : acked[f] # NoFile => disk[f] = acked[f] /\ durable[f] = acked[f]

\* An answer changes neither the files nor any other call.
LEMMA OthersGoOn ==
    ASSUME Types, NEW w \in Workers, NEW a, Return(w, a), UNCHANGED temp \/ RemoveTemp(w)
    PROVE  /\ \A v \in Workers : v # w => /\ pc'[v] = pc[v] /\ request'[v] = request[v]
                                         /\ temp'[v] = temp[v] /\ raced'[v] = raced[v]
           /\ pc'[w] = "idle"
  BY DEF Types, Return, RemoveTemp

LEMMA ReturnWrite ==
    ASSUME IInv, WriteInv, NEW w \in Workers, NEW a, Return(w, a),
           UNCHANGED temp \/ RemoveTemp(w), UNCHANGED files
    PROVE  WriteInv'
  BY OthersGoOn DEF IInv, WriteInv, NoteNeverTorn, NoInProcessLostUpdate, Matches, Target, files

\* While w runs its protocol on f no other call is about to replace f.
LEMMA Alone ==
    ASSUME IInv, NEW w \in Workers, NEW v \in Workers, NEW f \in Files,
           pc[w] \in Critical, f \in FilesOf(request[w]), pc[v] = "replace", v # w
    PROVE  Target(v) # f
  <1>1. request[v] \in Requests /\ request[w] \in Requests /\ pc[v] \in Critical
    BY DEF IInv, CallInv, Critical
  <1>2. Target(v) \in FilesOf(request[v])
    BY DEF FilesOf, Target
  <1>3. QED
    BY <1>1, <1>2, OneKeyPerFile DEF IInv, MutexInv

LEMMA WriteStep ==
    ASSUME IInv, WriteInv, [Next]_vars
    PROVE  WriteInv'
  <1> USE DEF IInv, Types
  <1>0. ASSUME NEW w \in Workers, pc[w] # "idle"
        PROVE  /\ request[w] \in Requests /\ request[w].content \in Contents
               /\ Target(w) \in Files /\ FileAt[request[w].to] \in Files
               /\ Target(w) \in FilesOf(request[w])
               /\ FileAt[request[w].to] \in FilesOf(request[w])
    BY <1>0, RequestFields DEF CallInv, Target, FilesOf
  <1>1. ASSUME NEW w \in Workers,
               \/ \E r \in Requests : Start(w, r)
               \/ Fetch(w)
               \/ Lock(w)
        PROVE  WriteInv'
    <2>1. /\ UNCHANGED <<files, raced, temp>>
          /\ \A v \in Workers : v # w => pc'[v] = pc[v] /\ request'[v] = request[v]
          /\ pc'[w] \notin {"flush", "recheck", "replace"}
      BY <1>1 DEF Start, Fetch, Lock, coordinator, FirstStep
    <2>2. QED
      BY <2>1 DEF WriteInv, NoteNeverTorn, NoInProcessLostUpdate, Matches, Target, files
  <1>2. ASSUME NEW w \in Workers,
               \/ FirstCheck(w) \/ CreateTemp(w) \/ FillTemp(w) \/ FlushTemp(w)
               \/ FinalCheck(w)
        PROVE  WriteInv'
    <2>1. CASE (Conflict(w) \/ Fail(w)) /\ (UNCHANGED temp \/ RemoveTemp(w))
      BY <2>1, ReturnWrite DEF Conflict, Fail
    <2>2. CASE ~((Conflict(w) \/ Fail(w)) /\ (UNCHANGED temp \/ RemoveTemp(w)))
      <3>1. /\ UNCHANGED <<files, raced, request>>
            /\ \A v \in Workers : v # w => pc'[v] = pc[v] /\ temp'[v] = temp[v]
            /\ pc'[w] = "flush" => temp'[w] = "written"
            /\ pc'[w] \in {"recheck", "replace"} => temp'[w] = "synced"
            /\ pc'[w] = "replace" /\ request[w].kind = "cas" => Matches(w)
        BY <1>2, <2>2 DEF FirstCheck, CreateTemp, FillTemp, FlushTemp, FinalCheck, Goto,
                          AfterStaging, WriteInv
      <3>2. QED
        BY <3>1 DEF WriteInv, NoteNeverTorn, NoInProcessLostUpdate, Matches, Target, files
    <2>3. QED
      BY <2>1, <2>2
  <1>3. ASSUME NEW w \in Workers, Replace(w)
        PROVE  WriteInv'
    <2>1. CASE Fail(w) /\ RemoveTemp(w)
      BY <2>1, ReturnWrite DEF Fail
    <2>2. CASE ~(Fail(w) /\ RemoveTemp(w))
      <3> DEFINE f == Target(w)
      <3>1. /\ f \in Files /\ f \in FilesOf(request[w]) /\ request[w].content \in Contents
            /\ pc[w] = "replace" /\ temp[w] = "synced"
        BY <1>0, <1>3 DEF Replace, WriteInv
      <3>2. /\ disk' = [disk EXCEPT ![f] = request[w].content]
            /\ unflushed' = {}
            /\ acked' = [acked EXCEPT ![f] = NoFile]
            /\ pc' = [pc EXCEPT ![w] = "sync"]
            /\ temp' = [temp EXCEPT ![w] = "none"]
            /\ UNCHANGED <<durable, request, raced>>
        BY <1>3, <2>2, <3>1 DEF Replace, Goto, WriteInv
      <3>3. \A v \in Workers : pc'[v] = "replace" => v # w /\ Target(v) # f
        BY <3>1, <3>2, Alone DEF Critical
      <3>4. \A v \in Workers : pc'[v] = "replace" =>
                Target(v) \in Files /\ disk'[Target(v)] = disk[Target(v)]
        BY <1>0, <3>2, <3>3
      <3>5. NoInProcessLostUpdate'
        BY <3>2, <3>3, <3>4 DEF WriteInv, NoInProcessLostUpdate, Matches, Target
      <3>6. NoteNeverTorn'
        BY <3>1, <3>2, Distinct DEF WriteInv, NoteNeverTorn
      <3>7. \A v \in Workers : /\ pc'[v] = "flush" => temp'[v] = "written"
                              /\ pc'[v] \in {"recheck", "replace"} => temp'[v] = "synced"
        BY <3>2 DEF WriteInv
      <3>8. \A g \in Files : acked'[g] # NoFile => disk'[g] = acked'[g] /\ durable'[g] = acked'[g]
        BY <3>1, <3>2 DEF WriteInv
      <3>9. QED
        BY <3>2, <3>5, <3>6, <3>7, <3>8 DEF WriteInv
    <2>3. QED
      BY <2>1, <2>2
  <1>4. ASSUME NEW w \in Workers, SyncDirectory(w)
        PROVE  WriteInv'
    <2>1. CASE Fail(w) /\ UNCHANGED temp
      BY <2>1, ReturnWrite DEF Fail
    <2>2. CASE ~(Fail(w) /\ UNCHANGED temp)
      <3> DEFINE f == Target(w)
      <3>1. f \in Files /\ request[w].content \in Contents
        BY <1>0, <1>4 DEF SyncDirectory
      <3>2. /\ durable' = [durable EXCEPT ![f] = disk[f]]
            /\ acked' = [acked EXCEPT ![f] = IF disk[f] = request[w].content
                                             THEN disk[f] ELSE NoFile]
            /\ UNCHANGED <<disk, unflushed, temp>>
            /\ Return(w, Answer("saved", request[w].content))
        BY <1>4, <2>2 DEF SyncDirectory, Acknowledge
      <3>3. NoteNeverTorn'
        BY <3>1, <3>2 DEF WriteInv, NoteNeverTorn
      <3>4. \A g \in Files : acked'[g] # NoFile => disk'[g] = acked'[g] /\ durable'[g] = acked'[g]
        BY <3>1, <3>2 DEF WriteInv
      <3>5. NoInProcessLostUpdate'
        BY <3>2, OthersGoOn DEF WriteInv, NoInProcessLostUpdate, Matches, Target
      <3>6. QED
        BY <3>2, <3>3, <3>4, <3>5, OthersGoOn DEF WriteInv
    <2>3. QED
      BY <2>1, <2>2
  <1>5. ASSUME NEW w \in Workers, Delete(w) \/ Rename(w)
        PROVE  WriteInv'
    <2>1. CASE UNCHANGED files
      BY <1>5, <2>1, ReturnWrite DEF Delete, Rename, Fail
    <2>2. CASE ~UNCHANGED files
      <3> DEFINE f == Target(w)
                 t == FileAt[request[w].to]
      <3>1. /\ f \in Files /\ t \in Files /\ f \in FilesOf(request[w])
            /\ t \in FilesOf(request[w]) /\ pc[w] = "apply"
        BY <1>0, <1>5 DEF Delete, Rename
      <3>2. /\ \A g \in Files \ {f, t} : disk'[g] = disk[g] /\ acked'[g] = acked[g]
            /\ disk'[f] \in {NoFile, disk[f]} /\ disk'[t] \in {NoFile, disk[t], disk[f]}
            /\ acked'[f] = NoFile
            /\ acked'[t] = NoFile
            /\ unflushed' = {}
            /\ UNCHANGED <<durable, temp>>
            /\ Return(w, Done)
        <4>1. CASE Delete(w)
          <5>1. /\ disk' = [disk EXCEPT ![f] = NoFile]
                /\ acked' = [acked EXCEPT ![f] = NoFile]
                /\ UNCHANGED <<durable, unflushed, temp>>
                /\ Return(w, Done)
            BY <4>1, <2>2 DEF Delete, Fail
          <5>2. f = t
            BY <4>1 DEF Delete, CallInv, Requests, Target
          <5>3. QED
            BY <5>1, <5>2, <3>1 DEF WriteInv
        <4>2. CASE Rename(w)
          <5>1. Move(f, t) /\ Return(w, Done) /\ UNCHANGED temp
            BY <4>2, <2>2 DEF Rename, Fail
          <5>2. QED
            BY <5>1, <3>1 DEF Move, WriteInv
        <4>3. QED
          BY <1>5, <4>1, <4>2
      <3>3. \A v \in Workers : v # w /\ pc[v] = "replace" =>
                Target(v) \in Files /\ disk'[Target(v)] = disk[Target(v)]
        <4>1. ASSUME NEW v \in Workers, v # w, pc[v] = "replace"
              PROVE  Target(v) \in Files /\ Target(v) \notin {f, t}
          BY <1>0, <4>1, <3>1, Alone DEF Critical
        <4>2. QED
          BY <4>1, <3>2
      <3>4. NoInProcessLostUpdate'
        BY <3>2, <3>3, OthersGoOn DEF WriteInv, NoInProcessLostUpdate, Matches, Target
      <3>5. NoteNeverTorn'
        BY <3>1, <3>2, Distinct DEF WriteInv, NoteNeverTorn
      <3>6. \A g \in Files : acked'[g] # NoFile => disk'[g] = acked'[g] /\ durable'[g] = acked'[g]
        BY <3>1, <3>2 DEF WriteInv
      <3>7. QED
        BY <3>2, <3>4, <3>5, <3>6, OthersGoOn DEF WriteInv
    <2>3. QED
      BY <2>1, <2>2
  <1>6. ASSUME NEW f \in Files, Outside(f)
        PROVE  WriteInv'
    <2>1. PICK c \in Revision : disk' = [disk EXCEPT ![f] = c]
      BY <1>6 DEF Outside
    <2>2. /\ acked' = [acked EXCEPT ![f] = NoFile]
          /\ \A w \in Workers : raced'[w] = (raced[w] \/ (pc[w] = "replace" /\ Target(w) = f))
          /\ UNCHANGED <<durable, request, pc, temp>>
          /\ unflushed' = {}
      BY <1>6 DEF Outside, WriteInv
    <2>3. NoInProcessLostUpdate'
      <3> SUFFICES ASSUME NEW w \in Workers, pc'[w] = "replace", request'[w].kind = "cas",
                          ~Matches(w)'
                   PROVE  raced'[w]
        BY DEF NoInProcessLostUpdate
      <3>1. CASE Target(w) = f
        BY <3>1, <2>2
      <3>2. CASE Target(w) # f
        BY <3>2, <2>1, <2>2 DEF WriteInv, NoInProcessLostUpdate, Matches, Target
      <3>3. QED
        BY <3>1, <3>2
    <2>4. NoteNeverTorn'
      BY <2>1, <2>2, Distinct DEF WriteInv, NoteNeverTorn
    <2>5. QED
      BY <2>1, <2>2, <2>3, <2>4 DEF WriteInv
  <1>7. CASE PowerLoss
    <2>1. PICK lost \in SUBSET {f \in Files : durable[f] # disk[f]},
               torn \in SUBSET {f \in unflushed : disk[f] # NoFile} :
              disk' = [f \in Files |-> IF f \in lost THEN durable[f]
                                       ELSE IF f \in torn THEN Torn ELSE disk[f]]
      BY <1>7 DEF PowerLoss
    <2>2. torn = {}
      BY DEF WriteInv
    <2>3. disk' = [f \in Files |-> IF f \in lost THEN durable[f] ELSE disk[f]]
      BY <2>1, <2>2
    <2>4. /\ durable' = disk' /\ acked' = acked /\ unflushed' = {}
          /\ \A w \in Workers : pc'[w] = "idle"
      BY <1>7 DEF PowerLoss
    <2>5. NoteNeverTorn' /\ NoInProcessLostUpdate'
      BY <2>3, <2>4 DEF WriteInv, NoteNeverTorn, NoInProcessLostUpdate
    <2>6. \A f \in Files : acked'[f] # NoFile => disk'[f] = acked'[f] /\ durable'[f] = acked'[f]
      BY <2>3, <2>4 DEF WriteInv
    <2>7. QED
      BY <2>4, <2>5, <2>6 DEF WriteInv
  <1>8. CASE UNCHANGED vars
    BY <1>8 DEF vars, files, coordinator, WriteInv, NoteNeverTorn, NoInProcessLostUpdate,
                Matches, Target
  <1>9. QED
    BY <1>1, <1>2, <1>3, <1>4, <1>5, <1>6, <1>7, <1>8 DEF Next, Run

LEMMA WriteInvHolds == Spec => []WriteInv
  <1>1. Init => WriteInv
    BY Distinct DEF Init, WriteInv, NoteNeverTorn, NoInProcessLostUpdate
  <1>2. IInv /\ WriteInv /\ [Next]_vars => WriteInv'
    BY WriteStep
  <1>3. QED
    BY <1>1, <1>2, InvariantHolds, PTL DEF Spec

\* A conditional save never replaces what another command of the application
\* wrote after the final check of its revision; only a program outside can be
\* overtaken.
THEOREM NoLostUpdate == Spec => []NoInProcessLostUpdate
  BY WriteInvHolds, PTL DEF WriteInv

\* No crash point of a save leaves a half-written note behind.
THEOREM NeverTorn == Spec => []NoteNeverTorn
  BY WriteInvHolds, PTL DEF WriteInv

\* What was answered with Saved is on the disk, and stays there over a power
\* loss.
THEOREM SavedIsDurable == Spec => []AcknowledgedSaveSurvives
  <1>1. WriteInv => AcknowledgedSaveSurvives
    BY DEF WriteInv, AcknowledgedSaveSurvives
  <1>2. QED
    BY <1>1, WriteInvHolds, PTL
-----------------------------------------------------------------------------
(***************************************************************************)
(* Temporary files                                                         *)
(***************************************************************************)

\* A call that ends removes what it staged, or has staged nothing.
Cleans(w) ==
    /\ Conflict(w) \/ Fail(w)
    /\ \/ RemoveTemp(w)
       \/ UNCHANGED temp /\ pc[w] \notin {"fill", "flush", "recheck", "replace"}

LEMMA CleansTemp ==
    ASSUME Types, NoStrayTemp, NEW w \in Workers, Cleans(w)
    PROVE  NoStrayTemp'
  BY DEF Types, NoStrayTemp, Cleans, Conflict, Fail, Return, RemoveTemp

\* No way out of a command leaves a temporary file that nobody tried to remove:
\* before staging there is none, and each return after it comes with a removal.
LEMMA GotoTemp ==
    ASSUME Types, NoStrayTemp, NEW w \in Workers, NEW s, Goto(w, s),
           UNCHANGED temp \/ \E t : temp' = [temp EXCEPT ![w] = t],
           temp'[w] \in {"partial", "written", "synced"} =>
               s \in {"fill", "flush", "recheck", "replace"}
    PROVE  NoStrayTemp'
  BY DEF Types, NoStrayTemp, Goto

LEMMA TempStep ==
    ASSUME IInv, NoStrayTemp, [Next]_vars
    PROVE  NoStrayTemp'
  <1> USE DEF IInv
  <1>1. ASSUME NEW w \in Workers,
               (\E r \in Requests : Start(w, r)) \/ Fetch(w) \/ Lock(w)
        PROVE  NoStrayTemp'
    BY <1>1 DEF Start, Fetch, Lock, Types, NoStrayTemp
  <1>2. ASSUME NEW w \in Workers, FirstCheck(w)
        PROVE  NoStrayTemp'
    <2>1. CASE Goto(w, "create") /\ UNCHANGED temp
      BY <1>2, <2>1, GotoTemp DEF FirstCheck, NoStrayTemp
    <2>2. CASE Cleans(w)
      BY <2>2, CleansTemp
    <2>3. QED
      BY <1>2, <2>1, <2>2 DEF FirstCheck, Cleans
  <1>3. ASSUME NEW w \in Workers, CreateTemp(w) \/ FillTemp(w) \/ FlushTemp(w)
        PROVE  NoStrayTemp'
    <2>1. CASE /\ \E s \in {"fill", "flush", "recheck", "replace"} : Goto(w, s)
               /\ \E t : temp' = [temp EXCEPT ![w] = t]
      BY <2>1, GotoTemp
    <2>2. CASE Cleans(w)
      BY <2>2, CleansTemp
    <2>3. QED
      BY <1>3, <2>1, <2>2 DEF CreateTemp, FillTemp, FlushTemp, AfterStaging, Cleans
  <1>4. ASSUME NEW w \in Workers, FinalCheck(w)
        PROVE  NoStrayTemp'
    <2>1. CASE Goto(w, "replace") /\ UNCHANGED temp
      BY <2>1, GotoTemp
    <2>2. CASE Cleans(w)
      BY <2>2, CleansTemp
    <2>3. QED
      BY <1>4, <2>1, <2>2 DEF FinalCheck, Cleans
  <1>5. ASSUME NEW w \in Workers, Replace(w)
        PROVE  NoStrayTemp'
    <2>1. CASE Goto(w, "sync") /\ temp' = [temp EXCEPT ![w] = "none"]
      BY <2>1, GotoTemp DEF Types
    <2>2. CASE Cleans(w)
      BY <2>2, CleansTemp
    <2>3. QED
      BY <1>5, <2>1, <2>2 DEF Replace, Cleans
  <1>6. ASSUME NEW w \in Workers, SyncDirectory(w) \/ Delete(w) \/ Rename(w)
        PROVE  NoStrayTemp'
    BY <1>6 DEF SyncDirectory, Acknowledge, Delete, Rename, Fail, Return, Types, NoStrayTemp
  <1>7. CASE (\E f \in Files : Outside(f)) \/ UNCHANGED vars
    BY <1>7 DEF Outside, vars, NoStrayTemp
  <1>8. CASE PowerLoss
    BY <1>8 DEF PowerLoss, NoStrayTemp
  <1>9. QED
    BY <1>1, <1>2, <1>3, <1>4, <1>5, <1>6, <1>7, <1>8 DEF Next, Run

\* No way out of a save forgets its temporary file: the early returns, the I/O
\* errors before and after staging and the conflict each remove it themselves,
\* and what stays behind is what could not be removed or a power loss kept.
THEOREM TempsAreRemoved == Spec => []NoStrayTemp
  <1>1. Init => NoStrayTemp
    BY DEF Init, NoStrayTemp
  <1>2. QED
    BY <1>1, TempStep, InvariantHolds, PTL DEF Spec

-----------------------------------------------------------------------------
(***************************************************************************)
(* Deadlock freedom                                                        *)
(***************************************************************************)

\* A call takes its mutexes in the order of their keys.
TakenInOrder ==
    \A w \in Workers : pc[w] # "idle" =>
        /\ guards[w] \subseteq KeysOf(request[w])
        /\ \A j \in guards[w], k \in KeysOf(request[w]) \ guards[w] : j < k

Busy == {w \in Workers : pc[w] # "idle"}

\* However many threads there are, only those that were started run.
OrderInv == TakenInOrder /\ IsFiniteSet(Busy)

LEMMA OrderStep ==
    ASSUME IInv, OrderInv, [Next]_vars
    PROVE  OrderInv'
  <1> USE DEF IInv, Types
  <1>1. ASSUME Busy' \subseteq Busy PROVE IsFiniteSet(Busy')
    BY <1>1, FS_Subset DEF OrderInv
  <1>2. ASSUME NEW w \in Workers, pc[w] # "idle", UNCHANGED <<request, guards>>,
               \A v \in Workers : v # w => pc'[v] = pc[v]
        PROVE  OrderInv'
    <2>1. Busy' \subseteq Busy
      BY <1>2 DEF Busy
    <2>2. TakenInOrder'
      BY <1>2 DEF OrderInv, TakenInOrder
    <2>3. QED
      BY <1>1, <2>1, <2>2 DEF OrderInv
  <1>3. ASSUME NEW w \in Workers, NEW a, Return(w, a)
        PROVE  OrderInv'
    <2>1. pc'[w] = "idle" /\ \A v \in Workers : v # w =>
              pc'[v] = pc[v] /\ request'[v] = request[v] /\ guards'[v] = guards[v]
      BY <1>3 DEF Return
    <2>2. Busy' \subseteq Busy /\ TakenInOrder'
      BY <2>1 DEF Busy, OrderInv, TakenInOrder
    <2>3. QED
      BY <1>1, <2>2 DEF OrderInv
  <1>4. ASSUME NEW w \in Workers, NEW r \in Requests, Start(w, r)
        PROVE  OrderInv'
    <2>1. /\ \A v \in Workers : v # w => pc'[v] = pc[v] /\ request'[v] = request[v]
          /\ UNCHANGED guards /\ guards[w] = {}
      BY <1>4 DEF Start, coordinator, MutexInv
    <2>2. TakenInOrder'
      BY <2>1 DEF OrderInv, TakenInOrder
    <2>3. Busy' \subseteq Busy \cup {w}
      BY <2>1 DEF Busy
    <2>4. IsFiniteSet(Busy \cup {w})
      BY FS_AddElement DEF OrderInv
    <2>5. IsFiniteSet(Busy')
      BY <2>3, <2>4, FS_Subset
    <2>6. QED
      BY <2>2, <2>5 DEF OrderInv
  <1>5. ASSUME NEW w \in Workers, Fetch(w)
        PROVE  OrderInv'
    BY <1>2, <1>5 DEF Fetch
  <1>6. ASSUME NEW w \in Workers, Lock(w)
        PROVE  OrderInv'
    <2>1. PICK k \in Keys : NextKey(w, k) /\ guards' = [guards EXCEPT ![w] = @ \cup {k}]
      BY <1>6 DEF Lock
    <2>2. /\ pc[w] = "lock" /\ UNCHANGED request
          /\ \A v \in Workers : v # w => pc'[v] = pc[v] /\ guards'[v] = guards[v]
          /\ guards'[w] = guards[w] \cup {k}
      BY <1>6, <2>1 DEF Lock
    <2>3. KeysOf(request[w]) \subseteq Nat
      BY <2>2, RequestFields, KeysAssumption DEF CallInv
    <2>4. ASSUME NEW j \in guards'[w], NEW i \in KeysOf(request[w]) \ guards'[w]
          PROVE  j < i
      <3> HIDE DEF IInv, Types
      <3>1. i \in KeysOf(request[w]) \ guards[w] /\ i # k
        BY <2>2
      <3>2. CASE j = k
        <4>1. k <= i /\ k \in Nat /\ i \in Nat /\ k # i
          BY <2>1, <2>3, <3>1 DEF NextKey
        <4>2. k < i
          BY <4>1
        <4>3. QED
          BY <3>2, <4>2
      <3>3. CASE j # k
        BY <2>2, <3>1, <3>3 DEF OrderInv, TakenInOrder
      <3>4. QED
        BY <3>2, <3>3
    <2>5. TakenInOrder'
      BY <2>1, <2>2, <2>4 DEF NextKey, OrderInv, TakenInOrder
    <2>6. Busy' \subseteq Busy
      BY <2>2 DEF Busy
    <2>7. QED
      BY <1>1, <2>5, <2>6 DEF OrderInv
  <1>7. ASSUME NEW w \in Workers,
               \/ FirstCheck(w) \/ CreateTemp(w) \/ FillTemp(w) \/ FlushTemp(w)
               \/ FinalCheck(w) \/ Replace(w)
        PROVE  OrderInv'
    <2>1. CASE Conflict(w) \/ Fail(w)
      BY <1>3, <2>1 DEF Conflict, Fail
    <2>2. CASE ~(Conflict(w) \/ Fail(w))
      <3>1. pc[w] # "idle" /\ \E s : Goto(w, s)
        BY <1>7, <2>2 DEF FirstCheck, CreateTemp, FillTemp, FlushTemp, FinalCheck, Replace
      <3>2. QED
        BY <1>2, <3>1 DEF Goto, coordinator
    <2>3. QED
      BY <2>1, <2>2
  <1>8. ASSUME NEW w \in Workers, SyncDirectory(w) \/ Delete(w) \/ Rename(w)
        PROVE  OrderInv'
    BY <1>3, <1>8 DEF SyncDirectory, Acknowledge, Delete, Rename, Fail
  <1>9. CASE (\E f \in Files : Outside(f)) \/ UNCHANGED vars
    <2>1. UNCHANGED <<pc, request, guards>>
      BY <1>9 DEF Outside, vars, coordinator
    <2>2. QED
      BY <2>1 DEF OrderInv, TakenInOrder, Busy
  <1>10. CASE PowerLoss
    <2>1. Busy' = {} /\ TakenInOrder'
      BY <1>10 DEF PowerLoss, Busy, TakenInOrder
    <2>2. QED
      BY <2>1, FS_EmptySet DEF OrderInv
  <1>11. QED
    BY <1>4, <1>5, <1>6, <1>7, <1>8, <1>9, <1>10 DEF Next, Run

LEMMA OrderInvHolds == Spec => []OrderInv
  <1>1. Init => OrderInv
    <2>1. Init => Busy = {} /\ TakenInOrder
      BY DEF Init, Busy, TakenInOrder
    <2>2. QED
      BY <2>1, FS_EmptySet DEF OrderInv
  <1>2. QED
    BY <1>1, OrderStep, InvariantHolds, PTL DEF Spec

\* The key whose mutex a call waits for.
Awaited(v) == CHOOSE k \in Keys : NextKey(v, k)

LEMMA AwaitedIsNext ==
    ASSUME IInv, NEW v \in Workers, pc[v] # "idle", NEW k \in Keys, NextKey(v, k)
    PROVE  Awaited(v) = k /\ k \in Nat
  <1>1. \A j \in Keys : NextKey(v, j) => j = k
    BY KeysAssumption DEF NextKey
  <1>2. QED
    BY <1>1, KeysAssumption DEF Awaited

\* Who is waited for waits, if at all, for a later key.
LEMMA LaterKey ==
    ASSUME IInv, OrderInv, NEW v \in Workers, NEW w \in Workers, NEW u \in Workers,
           WaitsFor(v, w), WaitsFor(w, u)
    PROVE  Awaited(v) < Awaited(w)
  <1>1. PICK k \in Keys : NextKey(v, k) /\ \E j \in guards[w] : refs[w][j] = refs[v][k]
    BY DEF WaitsFor
  <1>2. PICK j \in guards[w] : refs[w][j] = refs[v][k]
    BY <1>1
  <1>3. pc[v] = "lock" /\ pc[w] = "lock"
    BY DEF WaitsFor
  <1>4. j = k
    <2>1. j \in Keys /\ k \in KeysOf(request[v])
      BY <1>1 DEF IInv, Types, NextKey
    <2>2. refs[w][j] # NoLock /\ refs[v][k] # NoLock
      BY <1>3, <2>1 DEF IInv, MutexInv
    <2>3. QED
      BY <1>2, <2>1, <2>2 DEF IInv, MutexInv
  <1>5. PICK i \in Keys : NextKey(w, i)
    BY DEF WaitsFor
  <1>6. k < i
    BY <1>3, <1>4, <1>5 DEF OrderInv, TakenInOrder, NextKey
  <1>7. QED
    BY <1>1, <1>3, <1>5, <1>6, AwaitedIsNext

\* In a set of calls that wait for each other the awaited keys would grow
\* without end, but only finitely many calls run.
LEMMA NoCircle ==
    ASSUME IInv, OrderInv
    PROVE  NoCircularWait
  <1> SUFFICES ASSUME NEW S \in SUBSET Workers, S # {},
                      \A v \in S : \E w \in S : WaitsFor(v, w)
               PROVE  FALSE
    BY DEF NoCircularWait
  <1> DEFINE Above(v) == {u \in S : Awaited(v) < Awaited(u)}
             Cuts == {Above(v) : v \in S}
  <1>1. IsFiniteSet(S)
    <2>1. S \subseteq Busy
      BY DEF Busy, WaitsFor
    <2>2. QED
      BY <2>1, FS_Subset DEF OrderInv
  <1>2. Cuts \subseteq FiniteSubsetsOf(S) /\ Cuts # {}
    <2>1. \A v \in S : Above(v) \in SUBSET S /\ IsFiniteSet(Above(v))
      BY <1>1, FS_Subset
    <2>2. QED
      BY <2>1 DEF FiniteSubsetsOf
  <1>3. PICK least \in Cuts : \A c \in Cuts : <<c, least>> \notin StrictSubsetOrdering(S)
    <2> HIDE DEF Cuts
    <2>1. QED
      BY <1>2, FS_StrictSubsetOrderingWellFounded, WFMin
  <1>4. PICK v \in S : least = Above(v)
    OBVIOUS
  <1>5. PICK w \in S : WaitsFor(v, w)
    OBVIOUS
  <1>6. Awaited(v) < Awaited(w)
    BY <1>5, LaterKey
  <1>7. \A u \in S : Awaited(u) \in Nat
    <2> SUFFICES ASSUME NEW u \in S PROVE Awaited(u) \in Nat
      OBVIOUS
    <2>1. PICK k \in Keys : NextKey(u, k) /\ pc[u] = "lock"
      BY DEF WaitsFor
    <2>2. QED
      BY <2>1, AwaitedIsNext
  <1>8. Above(w) \subseteq Above(v) /\ Above(w) # Above(v)
    BY <1>6, <1>7
  <1>9. <<Above(w), Above(v)>> \in StrictSubsetOrdering(S)
    BY <1>8 DEF StrictSubsetOrdering
  <1>10. QED
    BY <1>3, <1>4, <1>9

\* No set of commands ever waits for each other's mutexes, however many run
\* and however their renames cross.
THEOREM NoDeadlock == Spec => []NoCircularWait
  BY NoCircle, InvariantHolds, OrderInvHolds, PTL
=============================================================================
