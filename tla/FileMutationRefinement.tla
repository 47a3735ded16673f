----------------------- MODULE FileMutationRefinement -----------------------
(***************************************************************************)
(* The coordinated, staged commands implement AtomicFiles: every step of   *)
(* FileMutation is a step of the abstract commands or changes nothing they *)
(* can see.                                                                *)
(***************************************************************************)
EXTENDS FileMutationProofs

LEMMA PhaseOf ==
    ASSUME Types, NEW w \in Workers, NEW s, pc' = [pc EXCEPT ![w] = s]
    PROVE  phase' = [phase EXCEPT ![w] = IF s = "idle" THEN "idle"
                                         ELSE IF s = "sync" THEN "written"
                                         ELSE "pending"]
  BY DEF Types, phase

LEMMA ReturnRefines ==
    ASSUME IInv, NEW w \in Workers, NEW a, Return(w, a)
    PROVE  Atomic!Return(w, a)
  <1>1. phase' = [phase EXCEPT ![w] = "idle"]
    BY PhaseOf DEF Return, IInv
  <1>2. QED
    BY <1>1 DEF Return, Atomic!Return

LEMMA FailRefines ==
    ASSUME IInv, NEW w \in Workers, pc[w] # "idle", Fail(w)
    PROVE  Atomic!Fail(w)
  <1>1. Atomic!Return(w, Failed) /\ UNCHANGED <<disk, durable>>
    BY ReturnRefines DEF Fail, files
  <1>2. phase[w] # "idle"
    BY DEF phase
  <1>3. QED
    BY <1>1, <1>2 DEF Atomic!Fail, Atomic!Answer, Failed, Answer

LEMMA ConflictRefines ==
    ASSUME IInv, NEW w \in Workers, pc[w] \in {"check", "recheck"}, Conflict(w)
    PROVE  Atomic!Conflict(w)
  <1>1. Atomic!Return(w, Answer("conflict", disk[Target(w)]))
    BY ReturnRefines DEF Conflict, files
  <1>2. phase[w] = "pending" /\ request[w].kind = "cas"
    BY DEF phase, IInv, CallInv
  <1>3. QED
    BY <1>1, <1>2 DEF Conflict, Matches, Target, files, Atomic!Conflict, Atomic!Target, Atomic!Answer, Answer

\* A step inside the protocol that shows nothing.
LEMMA GotoStutters ==
    ASSUME IInv, NEW w \in Workers, pc[w] \notin {"idle", "sync"},
           NEW s, s \notin {"idle", "sync"}, Goto(w, s), UNCHANGED <<disk, durable>>
    PROVE  UNCHANGED Atomic!vars
  <1>1. pc' = [pc EXCEPT ![w] = s]
    BY DEF Goto
  <1>2. phase' = phase
    BY <1>1 DEF IInv, Types, phase
  <1>3. QED
    BY <1>2 DEF Goto, Atomic!vars

LEMMA StepRefines ==
    ASSUME IInv, WriteInv, [Next]_vars
    PROVE  [Atomic!Next]_(Atomic!vars)
  <1>1. ASSUME NEW w \in Workers, NEW r \in Requests, Start(w, r)
        PROVE  Atomic!Start(w, r)
    <2>1. phase' = [phase EXCEPT ![w] = "pending"] /\ phase[w] = "idle"
      BY <1>1, PhaseOf DEF Start, IInv, phase
    <2>2. QED
      BY <1>1, <2>1 DEF Start, files, Atomic!Start, Atomic!Answer, Nothing, Answer
  <1>2. ASSUME NEW w \in Workers, Fetch(w) \/ Lock(w)
        PROVE  UNCHANGED Atomic!vars
    <2>1. FirstStep(request[w]) \notin {"idle", "sync"}
      BY DEF FirstStep
    <2>2. phase' = phase
      BY <1>2, <2>1 DEF Fetch, Lock, IInv, Types, phase
    <2>3. QED
      BY <1>2, <2>2 DEF Fetch, Lock, files, Atomic!vars
  <1>3. ASSUME NEW w \in Workers, FirstCheck(w) \/ CreateTemp(w) \/ FillTemp(w)
                                  \/ FlushTemp(w) \/ FinalCheck(w)
        PROVE  Atomic!Conflict(w) \/ Atomic!Fail(w) \/ UNCHANGED Atomic!vars
    <2>1. pc[w] \in {"check", "create", "fill", "flush", "recheck"}
      BY <1>3 DEF FirstCheck, CreateTemp, FillTemp, FlushTemp, FinalCheck
    <2>2. CASE Fail(w)
      BY <2>1, <2>2, FailRefines
    <2>3. CASE Conflict(w) /\ pc[w] \in {"check", "recheck"}
      BY <2>3, ConflictRefines
    <2>4. CASE /\ UNCHANGED <<disk, durable>>
               /\ \E s \in {"create", "fill", "flush", "recheck", "replace"} : Goto(w, s)
      BY <2>1, <2>4, GotoStutters
    <2>5. QED
      BY <1>3, <2>2, <2>3, <2>4
         DEF FirstCheck, CreateTemp, FillTemp, FlushTemp, FinalCheck, AfterStaging, files
  <1>4. ASSUME NEW w \in Workers, Replace(w)
        PROVE  Atomic!Fail(w) \/ Atomic!Write(w)
    <2>1. CASE Fail(w)
      BY <1>4, <2>1, FailRefines DEF Replace
    <2>2. CASE ~Fail(w)
      <3>1. pc[w] = "replace" /\ temp[w] = "synced" /\ request[w].kind \in {"cas", "put"}
        BY <1>4 DEF Replace, WriteInv, IInv, CallInv
      <3>2. /\ disk' = [disk EXCEPT ![Target(w)] = request[w].content]
            /\ pc' = [pc EXCEPT ![w] = "sync"]
            /\ UNCHANGED <<durable, request, reply, raced>>
        BY <1>4, <2>2, <3>1 DEF Replace, Goto
      <3>3. phase' = [phase EXCEPT ![w] = "written"] /\ phase[w] = "pending"
        BY <3>1, <3>2, PhaseOf DEF IInv, phase
      <3>4. request[w].kind = "cas" => disk[Target(w)] = request[w].expected \/ raced[w]
        BY <3>1 DEF WriteInv, NoInProcessLostUpdate, Matches
      <3>5. QED
        BY <3>1, <3>2, <3>3, <3>4 DEF Atomic!Write, Atomic!Target, Target
    <2>3. QED
      BY <2>1, <2>2
  <1>5. ASSUME NEW w \in Workers, SyncDirectory(w)
        PROVE  Atomic!Fail(w) \/ Atomic!Acknowledge(w)
    <2>1. CASE Fail(w)
      BY <1>5, <2>1, FailRefines DEF SyncDirectory
    <2>2. CASE ~Fail(w)
      <3>1. /\ durable' = [durable EXCEPT ![Target(w)] = disk[Target(w)]]
            /\ UNCHANGED disk
            /\ Return(w, Answer("saved", request[w].content))
        BY <1>5, <2>2 DEF SyncDirectory, Acknowledge
      <3>2. phase[w] = "written"
        BY <1>5 DEF SyncDirectory, phase
      <3>3. QED
        BY <3>1, <3>2, ReturnRefines
           DEF Atomic!Acknowledge, Atomic!Target, Target, Atomic!Answer, Answer
    <2>3. QED
      BY <2>1, <2>2
  <1>6. ASSUME NEW w \in Workers, Delete(w)
        PROVE  Atomic!Fail(w) \/ Atomic!Delete(w)
    <2>1. CASE Fail(w)
      BY <1>6, <2>1, FailRefines DEF Delete
    <2>2. CASE ~Fail(w)
      <3>1. Atomic!Return(w, Answer("done", NoFile))
        BY <1>6, <2>2, ReturnRefines DEF Delete, Done
      <3>2. QED
        BY <1>6, <2>2, <3>1 DEF Delete, phase, Atomic!Delete, Atomic!Target, Target, Atomic!Answer, Answer
    <2>3. QED
      BY <2>1, <2>2
  <1>7. ASSUME NEW w \in Workers, Rename(w)
        PROVE  Atomic!Fail(w) \/ Atomic!Rename(w)
    <2>1. CASE Fail(w)
      BY <1>7, <2>1, FailRefines DEF Rename
    <2>2. CASE ~Fail(w)
      <3>1. Atomic!Return(w, Answer("done", NoFile))
        BY <1>7, <2>2, ReturnRefines DEF Rename, Done
      <3>2. phase[w] = "pending" /\ request[w].kind = "rename"
        BY <1>7 DEF Rename, phase
      <3> DEFINE f == Target(w)
                 t == FileAt[request[w].to]
      <3>3. /\ disk[f] # NoFile
            /\ f = t \/ disk[t] = NoFile
            /\ disk' = IF f = t THEN disk ELSE [disk EXCEPT ![t] = disk[f], ![f] = NoFile]
            /\ UNCHANGED durable
        <4>1. CASE f = t
          BY <1>7, <2>2, <4>1 DEF Rename, files
        <4>2. CASE f # t
          BY <1>7, <2>2, <4>2 DEF Rename, Move
        <4>3. QED
          BY <4>1, <4>2
      <3>4. QED
        BY <3>1, <3>2, <3>3 DEF Atomic!Rename, Atomic!Target, Target, Atomic!Answer, Answer
    <2>3. QED
      BY <2>1, <2>2
  <1>8. ASSUME NEW f \in Files, Outside(f)
        PROVE  Atomic!Outside(f)
    <2>1. PICK c \in Revision : disk' = [disk EXCEPT ![f] = c]
      BY <1>8 DEF Outside
    <2> DEFINE late == {w \in Workers : pc[w] = "replace"}
    <2>2. late \in SUBSET {w \in Workers : phase[w] = "pending"}
      BY DEF phase
    <2>3. raced' = [w \in Workers |-> raced[w] \/ (w \in late /\ Target(w) = f)]
      BY <1>8 DEF Outside
    <2>4. UNCHANGED <<durable, request, phase, reply>>
      BY <1>8 DEF Outside, phase
    <2>5. QED
      BY <2>1, <2>2, <2>3, <2>4 DEF Atomic!Outside, Atomic!Target, Target, Revision
  <1>9. CASE PowerLoss
    <2>1. phase' = [w \in Workers |-> "idle"]
      BY <1>9 DEF PowerLoss, phase
    <2>2. \E lost \in SUBSET Files :
              disk' = [f \in Files |-> IF f \in lost THEN durable[f] ELSE disk[f]]
      <3>1. PICK lost \in SUBSET {f \in Files : durable[f] # disk[f]},
                 torn \in SUBSET {f \in unflushed : disk[f] # NoFile} :
                disk' = [f \in Files |-> IF f \in lost THEN durable[f]
                                         ELSE IF f \in torn THEN Torn ELSE disk[f]]
        BY <1>9 DEF PowerLoss
      <3>2. torn = {}
        BY DEF WriteInv
      <3>3. disk' = [f \in Files |-> IF f \in lost THEN durable[f] ELSE disk[f]]
        BY <3>1, <3>2
      <3>4. QED
        BY <3>3
    <2>3. Atomic!PowerLoss
      BY <1>9, <2>1, <2>2 DEF PowerLoss, Atomic!PowerLoss, Atomic!Answer, Nothing, Answer
    <2>4. QED
      BY <2>3 DEF Atomic!Next
  <1>10. CASE UNCHANGED vars
    BY <1>10 DEF vars, files, coordinator, phase, Atomic!vars
  <1>11. QED
    BY <1>1, <1>2, <1>3, <1>4, <1>5, <1>6, <1>7, <1>8, <1>9, <1>10
       DEF Next, Run, Atomic!Next

\* Callers may reason as if every file command took effect in one step.
THEOREM AtomicFilesImplemented == Spec => ImplementsAtomicFiles
  <1>1. Init => Atomic!Init
    BY DEF Init, Atomic!Init, Atomic!Answer, Nothing, Answer, phase, Revision
  <1>2. IInv /\ WriteInv /\ [Next]_vars => [Atomic!Next]_(Atomic!vars)
    BY StepRefines
  <1>3. QED
    BY <1>1, <1>2, InvariantHolds, WriteInvHolds, PTL
       DEF Spec, ImplementsAtomicFiles, Atomic!Spec
=============================================================================
