------------------------------- MODULE Family -------------------------------
(***************************************************************************)
(* What process_execute and process_wait promise to the parent, without    *)
(* semaphores, records or descriptors: the first returns when the program  *)
(* has been loaded or could not be, and says which; the second returns     *)
(* when the child has ended, with its exit code, which is told once.       *)
(***************************************************************************)
EXTENDS Sequences

CONSTANTS
  Processes,
  First,      \* the one that is there at the start
  ExitCodes

VARIABLES
  stage,     \* how far each process is
  code,      \* {c} when the process has ended with exit code c, else {}
  offspring, \* the children that a process can wait for
  call,      \* the call a process is in with one child, or Idle
  answers    \* what has been told of each process

family_vars == <<stage, code, offspring, call, answers>>

Idle == <<>>

Init ==
  /\ stage = [p \in Processes |-> IF p = First THEN "running" ELSE "unborn"]
  /\ code = [p \in Processes |-> {}]
  /\ offspring = [p \in Processes |-> {}]
  /\ call = [p \in Processes |-> Idle]
  /\ answers = [p \in Processes |-> <<>>]

Free(p) == stage[p] = "running" /\ call[p] = Idle

Call(p, kind, q) ==
  /\ Free(p)
  /\ call' = [call EXCEPT ![p] = <<kind, q>>]

Return(p) == call' = [call EXCEPT ![p] = Idle]

Parted(p, q) == offspring' = [offspring EXCEPT ![p] = @ \ {q}]

Execute(p, q) ==
  /\ stage[q] = "unborn"
  /\ Call(p, "execute", q)
  /\ stage' = [stage EXCEPT ![q] = "loading"]
  /\ offspring' = [offspring EXCEPT ![p] = @ \cup {q}]
  /\ UNCHANGED <<code, answers>>

Load(q) ==
  /\ stage[q] = "loading"
  /\ \E s \in {"running", "failed"} : stage' = [stage EXCEPT ![q] = s]
  /\ UNCHANGED <<code, offspring, call, answers>>

\* process_execute returns the pid; the child may have ended already.
Started(p, q) ==
  /\ call[p] = <<"execute", q>>
  /\ stage[q] \in {"running", "ended"}
  /\ Return(p)
  /\ UNCHANGED <<stage, code, offspring, answers>>

\* process_execute returns TID_ERROR.
Refused(p, q) ==
  /\ call[p] = <<"execute", q>>
  /\ stage[q] = "failed"
  /\ Return(p) /\ Parted(p, q)
  /\ UNCHANGED <<stage, code, answers>>

Wait(p, q) ==
  /\ q \in offspring[p]
  /\ Call(p, "wait", q)
  /\ UNCHANGED <<stage, code, offspring, answers>>

Collect(p, q) ==
  /\ call[p] = <<"wait", q>>
  /\ stage[q] = "ended"
  /\ \E c \in code[q] : answers' = [answers EXCEPT ![q] = Append(@, c)]
  /\ Return(p) /\ Parted(p, q)
  /\ UNCHANGED <<stage, code>>

\* A process ends when it has waited for all its children.
End(p) ==
  /\ Free(p) /\ offspring[p] = {}
  /\ stage' = [stage EXCEPT ![p] = "ended"]
  /\ \E c \in ExitCodes : code' = [code EXCEPT ![p] = {c}]
  /\ UNCHANGED <<offspring, call, answers>>

Next ==
  \E p \in Processes :
    \/ Load(p) \/ End(p)
    \/ \E q \in Processes : \/ Execute(p, q) \/ Started(p, q) \/ Refused(p, q)
                            \/ Wait(p, q) \/ Collect(p, q)

Spec == Init /\ [][Next]_family_vars
=============================================================================
