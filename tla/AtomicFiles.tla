---------------------------- MODULE AtomicFiles ----------------------------
(***************************************************************************)
(* What the file commands promise their callers: each one takes effect in  *)
(* a single step between its call and its answer, as if no other command   *)
(* of the application ran.  A conditional write changes the file only if   *)
(* it holds the expected revision at that step, with one exception the     *)
(* operating system forces: a program outside may write in the instant the *)
(* command commits.                                                        *)
(***************************************************************************)
EXTENDS Naturals

CONSTANTS Workers, Files, FileAt, Contents, Requests, NoRequest, NoFile

VARIABLES disk, durable, request, phase, reply, raced

vars == <<disk, durable, request, phase, reply, raced>>

Answer(status, actual) == [status |-> status, actual |-> actual]

Init ==
    /\ disk \in [Files -> Contents \cup {NoFile}]
    /\ durable = disk
    /\ request = [w \in Workers |-> NoRequest]
    /\ phase = [w \in Workers |-> "idle"]
    /\ reply = [w \in Workers |-> Answer("none", NoFile)]
    /\ raced = [w \in Workers |-> FALSE]

Target(w) == FileAt[request[w].file]

Start(w, r) ==
    /\ phase[w] = "idle"
    /\ phase' = [phase EXCEPT ![w] = "pending"]
    /\ request' = [request EXCEPT ![w] = r]
    /\ reply' = [reply EXCEPT ![w] = Answer("none", NoFile)]
    /\ UNCHANGED <<disk, durable, raced>>

Return(w, answer) ==
    /\ phase' = [phase EXCEPT ![w] = "idle"]
    /\ request' = [request EXCEPT ![w] = NoRequest]
    /\ reply' = [reply EXCEPT ![w] = answer]
    /\ raced' = [raced EXCEPT ![w] = FALSE]

\* An error answer: before the effect, or after it when only making it durable
\* failed.
Fail(w) ==
    /\ phase[w] # "idle"
    /\ Return(w, Answer("failed", NoFile))
    /\ UNCHANGED <<disk, durable>>

Conflict(w) ==
    /\ phase[w] = "pending"
    /\ request[w].kind = "cas"
    /\ disk[Target(w)] # request[w].expected
    /\ Return(w, Answer("conflict", disk[Target(w)]))
    /\ UNCHANGED <<disk, durable>>

Write(w) ==
    /\ phase[w] = "pending"
    /\ \/ request[w].kind = "put"
       \/ /\ request[w].kind = "cas"
          /\ disk[Target(w)] = request[w].expected \/ raced[w]
    /\ disk' = [disk EXCEPT ![Target(w)] = request[w].content]
    /\ phase' = [phase EXCEPT ![w] = "written"]
    /\ UNCHANGED <<durable, request, reply, raced>>

Acknowledge(w) ==
    /\ phase[w] = "written"
    /\ durable' = [durable EXCEPT ![Target(w)] = disk[Target(w)]]
    /\ Return(w, Answer("saved", request[w].content))
    /\ UNCHANGED disk

Delete(w) ==
    /\ phase[w] = "pending"
    /\ request[w].kind = "delete"
    /\ disk[Target(w)] # NoFile
    /\ disk' = [disk EXCEPT ![Target(w)] = NoFile]
    /\ Return(w, Answer("done", NoFile))
    /\ UNCHANGED durable

\* Never onto an existing file.
Rename(w) ==
    /\ phase[w] = "pending"
    /\ request[w].kind = "rename"
    /\ LET f == Target(w)
           t == FileAt[request[w].to]
       IN /\ disk[f] # NoFile
          /\ f = t \/ disk[t] = NoFile
          /\ disk' = IF f = t THEN disk
                     ELSE [disk EXCEPT ![t] = disk[f], ![f] = NoFile]
    /\ Return(w, Answer("done", NoFile))
    /\ UNCHANGED durable

Outside(f) ==
    /\ \E c \in Contents \cup {NoFile} : disk' = [disk EXCEPT ![f] = c]
    /\ \E late \in SUBSET {w \in Workers : phase[w] = "pending"} :
         raced' = [w \in Workers |->
                     raced[w] \/ (w \in late /\ Target(w) = f)]
    /\ UNCHANGED <<durable, request, phase, reply>>

PowerLoss ==
    /\ \E lost \in SUBSET Files :
         disk' = [f \in Files |-> IF f \in lost THEN durable[f] ELSE disk[f]]
    /\ durable' = disk'
    /\ request' = [w \in Workers |-> NoRequest]
    /\ phase' = [w \in Workers |-> "idle"]
    /\ reply' = [w \in Workers |-> Answer("none", NoFile)]
    /\ raced' = [w \in Workers |-> FALSE]

Next ==
    \/ \E w \in Workers :
          \/ \E r \in Requests : Start(w, r)
          \/ Fail(w) \/ Conflict(w) \/ Write(w) \/ Acknowledge(w)
          \/ Delete(w) \/ Rename(w)
    \/ \E f \in Files : Outside(f)
    \/ PowerLoss

Spec == Init /\ [][Next]_vars
=============================================================================
