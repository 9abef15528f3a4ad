--------------------------- MODULE ProcessProofs ---------------------------
(***************************************************************************)
(* Process: exit codes, the lifetime of struct process, and what a process *)
(* gives back.  The inductive invariant counts, for each record, how often *)
(* its semaphore was raised and how often it is still to be taken.         *)
(***************************************************************************)
EXTENDS Process, FiniteSetTheorems, TLAPS

Labels == {"none", "run", "create", "await", "load", "wait", "lock", "call", "unlock",
           "files", "orphans", "status", "signal", "die", "dead"}

RecSet == [state : {"none", "live", "freed"}, status : {"FAIL", "RUN", "DEAD"},
           exit : Int, sema : Int]

RecTyped == rec \in [Pids -> RecSet]

PlainTyped ==
  /\ pc \in [Pids -> Labels]
  /\ it \in [Pids -> Nat]
  /\ op \in [Pids -> Ops \cup {"none"}]
  /\ children \in [Pids -> SUBSET Pids]
  /\ files \in [Pids -> SUBSET Nat]
  /\ fd \in [Pids -> Nat]
  /\ file_lock \in Nat
  /\ pages \in Nat /\ lost \in Nat /\ next_pid \in Nat \ {0, 1}
  /\ panic \in {"no", "wait", "children", "seek"}
  /\ final \in [Pids -> SUBSET Int]
  /\ told \in [Pids -> Seq(Int)]

ProcessTypeOK == PlainTyped /\ RecTyped

\* A process that does not exist yet.
FreshInv ==
  \A q \in Pids :
    /\ pc[q] = "none" <=> q >= next_pid
    /\ q = 1 \/ q >= next_pid => rec[q].state = "none"

\* A struct process is in the list of one living parent, or gone.
FamilyInv ==
  /\ \A p, q \in Pids : q \in children[p] => q # 1 /\ q # p /\ q < next_pid
  /\ \A p, r, q \in Pids : q \in children[p] /\ q \in children[r] => p = r
  /\ \A q \in Pids : rec[q].state = "live" <=> \E p \in Pids : q \in children[p]
  /\ \A p \in Pids : pc[p] \in {"none", "load", "status", "signal", "die", "dead"} => children[p] = {}

Quiet(q) == pc[q] \in {"die", "dead"}

\* A record goes only after its process has used it for the last time.
LivesInv == \A q \in Pids : pc[q] # "none" /\ ~Quiet(q) /\ q # 1 => rec[q].state = "live"

\* A thread that waits waits for its own child.
WaitsInv == \A p \in Pids : pc[p] \in {"await", "wait"} => it[p] \in children[p]

\* process_execute is still to take the semaphore of q.
Awaited(q) == \E p \in Pids : pc[p] = "await" /\ it[p] = q

Count(b) == IF b THEN 1 ELSE 0

\* The semaphore of a record: raised once for process_execute if the program was
\* loaded, and once when the process ends.
SemaInv ==
  \A q \in Pids : rec[q].state = "live" =>
    /\ pc[q] = "load" => rec[q].sema = 0 /\ Awaited(q) /\ rec[q].status = "RUN"
    /\ pc[q] \notin {"load", "files", "orphans", "status", "signal", "die", "dead"}
         => rec[q].status = "RUN"
    /\ rec[q].status = "FAIL" => Awaited(q)
    /\ pc[q] # "load" =>
         rec[q].sema = Count(Awaited(q) /\ rec[q].status # "FAIL") + Count(Quiet(q))

\* After SetStatus the exit code stays, and it is told once the record goes.
CodeInv ==
  \A q \in Pids :
    /\ pc[q] \in {"signal", "die", "dead"} => final[q] = {rec[q].exit}
    /\ told[q] # <<>> =>
         rec[q].state = "freed" /\ Quiet(q) /\ told[q] = <<rec[q].exit>>

ProcessInv ==
  /\ ProcessTypeOK /\ FreshInv /\ FamilyInv /\ LivesInv
  /\ WaitsInv /\ SemaInv /\ CodeInv

\* The holder of file_lock is inside a call, or has been killed in one.
HolderInv ==
  file_lock # None => file_lock \in Pids /\
    pc[file_lock] \in {"call", "unlock", "files", "orphans", "status", "signal", "die"}
FilesInv == \A p \in Pids : pc[p] \in {"orphans", "status", "signal", "die", "dead"} => files[p] = {}

-----------------------------------------------------------------------------

\* Types.

LEMMA ProcessInitType == Init => ProcessTypeOK
BY ProcessConstants
DEF Init, ProcessTypeOK, PlainTyped, RecTyped, RecSet, Labels, Ops, Pids, None, Absent

LEMMA RecTypes ==
  ASSUME RecTyped, NEW q \in Pids
  PROVE  /\ rec[q] \in RecSet
         /\ rec[q].state \in {"none", "live", "freed"}
         /\ rec[q].status \in {"FAIL", "RUN", "DEAD"}
         /\ rec[q].exit \in Int /\ rec[q].sema \in Int
BY DEF RecTyped, RecSet

\* Updates of one record.
LEMMA RecUpdate ==
  ASSUME RecTyped, NEW q \in Pids, NEW st \in {"none", "live", "freed"}, NEW c \in Int,
         NEW su \in {"FAIL", "RUN", "DEAD"}, NEW n \in Int,
         \/ rec' = [rec EXCEPT ![q].state = st, ![q].sema = n]
         \/ rec' = [rec EXCEPT ![q].sema = n]
         \/ rec' = [rec EXCEPT ![q].exit = c]
         \/ rec' = [rec EXCEPT ![q].status = su]
         \/ rec' = [rec EXCEPT ![q] = NewRecord]
  PROVE  RecTyped'
<1>1. CASE rec' = [rec EXCEPT ![q].state = st, ![q].sema = n]
  <2>1. [rec[q] EXCEPT !.state = st, !.sema = n] \in RecSet
    <3>1. rec[q] \in RecSet
      BY DEF RecTyped
    <3> QED
      BY ONLY <3>1, st \in {"none", "live", "freed"}, n \in Int DEF RecSet
  <2>2. rec' = [rec EXCEPT ![q] = [rec[q] EXCEPT !.state = st, !.sema = n]]
    BY <1>1
  <2> QED
    BY <2>1, <2>2 DEF RecTyped
<1>2. CASE rec' = [rec EXCEPT ![q].sema = n]
  BY <1>2 DEF RecTyped, RecSet
<1>3. CASE rec' = [rec EXCEPT ![q].exit = c]
  BY <1>3 DEF RecTyped, RecSet
<1>4. CASE rec' = [rec EXCEPT ![q].status = su]
  BY <1>4 DEF RecTyped, RecSet
<1>5. CASE rec' = [rec EXCEPT ![q] = NewRecord]
  BY <1>5 DEF RecTyped, RecSet, NewRecord, Absent
<1> QED
  BY <1>1, <1>2, <1>3, <1>4, <1>5

\* Every step keeps every record a record.
LEMMA RecTypedStep ==
  ASSUME ProcessTypeOK, NEW p \in Pids,
         KernelStep(p) \/ AcquireFile(p) \/ SystemCall(p), WaitsInv
  PROVE  RecTyped'
<1> USE DEF ProcessTypeOK
<1>0. /\ it[p] \in Nat /\ rec[p].sema + 1 \in Int /\ -1 \in Int /\ Codes \subseteq Int
      /\ next_pid \in Nat \ {0, 1}
  BY RecTypes, ProcessConstants DEF PlainTyped
<1>1. CASE CreateThread(p)
  <2>1. next_pid \in Pids
    BY <1>1, <1>0, ProcessConstants DEF CreateThread, Pids
  <2>2. rec' = [rec EXCEPT ![next_pid] = NewRecord]
    BY <1>1 DEF CreateThread
  <2> QED
    BY <2>1, <2>2, <1>0, RecUpdate
<1>2. CASE AwaitLoad(p) \/ Reap(p)
  <2>1. it[p] \in Pids
    BY <1>2 DEF AwaitLoad, Reap, At, WaitsInv, PlainTyped
  <2>2. rec[it[p]].sema - 1 \in Int
    BY <2>1, RecTypes
  <2>3. \/ rec' = [rec EXCEPT ![it[p]].state = "freed", ![it[p]].sema = @ - 1]
        \/ rec' = [rec EXCEPT ![it[p]].sema = @ - 1]
    BY <1>2 DEF AwaitLoad, Reap, Removed, Downed
  <2> QED
    BY <2>1, <2>2, <2>3 DEF RecTyped, RecSet
<1>3. CASE Loaded(p)
  BY <1>3, <1>0 DEF Loaded, RecTyped, RecSet
<1>4. CASE SetStatus(p)
  BY <1>4 DEF SetStatus, StatusAtExit, RecTyped, RecSet
<1>5. CASE Signal(p)
  BY <1>5, <1>0, RecUpdate DEF Signal, Raised
<1>6. CASE Exit(p)
  <2>1. PICK code \in Codes \cup {-1} : rec' = [rec EXCEPT ![p].exit = code]
    BY <1>6 DEF Exit, SetExit
  <2> QED
    BY <2>1, <1>0 DEF RecTyped, RecSet
<1>7. CASE FileBody(p)
  <2>1. rec' = rec \/ rec' = [rec EXCEPT ![p].exit = -1]
    BY <1>7 DEF FileBody, Open, Close, Use, Fault, Seek, SetExit
  <2> QED
    BY <2>1, <1>0 DEF RecTyped, RecSet
<1> QED
  BY <1>1, <1>2, <1>3, <1>4, <1>5, <1>6, <1>7
  DEF KernelStep, SystemCall, RecTyped, own_vars, RefuseArguments, CreateFails,
      CloseFiles, Orphans, Die, ReleaseFile, AcquireFile, Execute, Wait, FileCall

\* A file that is opened, or not.
LEMMA DescriptorTypes ==
  ASSUME PlainTyped, NEW p \in Pids, NewDescriptor(p) \/ UNCHANGED <<files, fd>>
  PROVE  files' \in [Pids -> SUBSET Nat] /\ fd' \in [Pids -> Nat]
<1>1. files \in [Pids -> SUBSET Nat] /\ fd \in [Pids -> Nat]
  BY DEF PlainTyped
<1>2. CASE UNCHANGED <<files, fd>>
  BY <1>1, <1>2
<1>3. CASE NewDescriptor(p)
  <2>1. fd[p] \in Nat /\ files[p] \cup {fd[p]} \subseteq Nat
    BY <1>1
  <2> QED
    BY <1>1, <1>3, <2>1 DEF NewDescriptor
<1> QED
  BY <1>2, <1>3

\* Every step keeps the other variables in their types.
LEMMA PlainTypedStep ==
  ASSUME PlainTyped, RecTyped, WaitsInv, NEW p \in Pids,
         KernelStep(p) \/ AcquireFile(p) \/ SystemCall(p)
  PROVE  PlainTyped'
<1> USE ProcessConstants DEF PlainTyped, Labels, Ops, Goto, At, None, own_vars, file_vars
<1>0. Pids \subseteq Nat
  BY DEF Pids
<1>r. \A q \in Pids : rec[q].exit \in Int
  BY RecTypes
<1>1. CASE RefuseArguments(p)
  BY <1>1, <1>0 DEF RefuseArguments
<1>2. CASE CreateFails(p)
  BY <1>2, <1>0 DEF CreateFails
<1>3. CASE CreateThread(p)
  <2>1. next_pid \in Pids /\ next_pid + 1 \in Nat \ {0, 1} /\ pages - 1 \in Nat
    BY <1>3 DEF CreateThread, Pids
  <2>2. pc' \in [Pids -> Labels]
    BY <1>3 DEF CreateThread
  <2>3. children' \in [Pids -> SUBSET Pids] /\ it' \in [Pids -> Nat]
    BY <1>3, <2>1 DEF CreateThread
  <2>4. /\ pages' = pages - 1 /\ next_pid' = next_pid + 1
        /\ UNCHANGED <<op, lost, file_vars, panic, final, told>>
    BY <1>3 DEF CreateThread
  <2>5. op' \in [Pids -> Ops \cup {"none"}] /\ files' \in [Pids -> SUBSET Nat]
    BY <2>4
  <2>6. fd' \in [Pids -> Nat] /\ file_lock' \in Nat /\ lost' \in Nat
    BY <2>4
  <2>7. /\ panic' \in {"no", "wait", "children", "seek"}
        /\ final' \in [Pids -> SUBSET Int] /\ told' \in [Pids -> Seq(Int)]
    BY <2>4
  <2>8. pages' \in Nat /\ next_pid' \in Nat \ {0, 1}
    BY <2>1, <2>4
  <2> QED
    BY ONLY <2>2, <2>3, <2>5, <2>6, <2>7, <2>8 DEF PlainTyped, Labels, Ops
<1>4. CASE AwaitLoad(p)
  <2>1. children' = children \/ children' = [children EXCEPT ![p] = @ \ {it[p]}]
    BY <1>4 DEF AwaitLoad, Removed
  <2>c. children \in [Pids -> SUBSET Pids]
    OBVIOUS
  <2>2. children' \in [Pids -> SUBSET Pids]
    BY ONLY <2>c, <2>1
  <2>3. it' \in [Pids -> Nat] /\ pc' \in [Pids -> Labels]
    BY <1>4 DEF AwaitLoad
  <2>4. UNCHANGED <<op, next_pid, pages, lost, file_vars, panic, final, told>>
    BY <1>4 DEF AwaitLoad
  <2> QED
    BY ONLY <2>2, <2>3, <2>4, PlainTyped DEF PlainTyped, Labels, Ops, file_vars
<1>5. CASE Loaded(p)
  <2>1. pc' = [pc EXCEPT ![p] = "run"] \/ pc' = [pc EXCEPT ![p] = "files"]
    BY <1>5 DEF Loaded
  <2>2. pc' \in [Pids -> Labels]
    BY <2>1
  <2>3. files' \in [Pids -> SUBSET Nat] /\ fd' \in [Pids -> Nat]
    <3>1. NewDescriptor(p) \/ UNCHANGED <<files, fd>>
      BY <1>5 DEF Loaded
    <3> QED
      BY <3>1, DescriptorTypes
  <2>4. /\ pages' = pages + 1
        /\ UNCHANGED <<it, op, children, next_pid, lost, file_lock, panic, final, told>>
    BY <1>5 DEF Loaded
  <2> QED
    BY <2>2, <2>3, <2>4
<1>6. CASE Reap(p)
  <2>1. told' \in [Pids -> Seq(Int)]
    <3>1. it[p] \in Pids
      BY <1>6 DEF Reap, WaitsInv
    <3>2. told[it[p]] \in Seq(Int) /\ rec[it[p]].exit \in Int
      BY <3>1, <1>r
    <3>3. Append(told[it[p]], rec[it[p]].exit) \in Seq(Int)
      BY <3>2
    <3>4. told' = [told EXCEPT ![it[p]] = Append(told[it[p]], rec[it[p]].exit)]
      BY <1>6 DEF Reap
    <3> QED
      BY ONLY <3>1, <3>3, <3>4, told \in [Pids -> Seq(Int)]
  <2>2. children' \in [Pids -> SUBSET Pids]
    BY <1>6 DEF Reap, Removed
  <2> QED
    BY <1>6, <2>1, <2>2 DEF Reap
<1>7. CASE CloseFiles(p)
  BY <1>7, <1>0 DEF CloseFiles, Closed
<1>8. CASE Orphans(p)
  BY <1>8, <1>0 DEF Orphans
<1>9. CASE SetStatus(p)
  <2>1. final' \in [Pids -> SUBSET Int]
    BY <1>9, <1>r DEF SetStatus
  <2> QED
    BY <1>9, <2>1 DEF SetStatus
<1>10. CASE Signal(p)
  BY <1>10, <1>0 DEF Signal, Raised
<1>11. CASE Die(p)
  BY <1>11, <1>0 DEF Die, ReleasedLock
<1>12. CASE FileBody(p)
  <2>0. UNCHANGED <<it, op, children, next_pid, pages, lost, file_lock, final, told>>
    BY <1>12 DEF FileBody
  <2>1. CASE Open(p)
    <3>1. files' \in [Pids -> SUBSET Nat] /\ fd' \in [Pids -> Nat]
      BY <2>1, DescriptorTypes DEF Open
    <3> QED
      BY <2>0, <2>1, <3>1 DEF Open
  <2>2. CASE Close(p)
    BY <2>0, <2>2 DEF Close
  <2>3. CASE Use(p)
    BY <2>0, <2>3 DEF Use
  <2>4. CASE Fault(p)
    BY <2>0, <2>4 DEF Fault
  <2>5. CASE Seek(p)
    <3>1. /\ pc' = pc \/ pc' = [pc EXCEPT ![p] = "files"] \/ pc' = [pc EXCEPT ![p] = "unlock"]
          /\ panic' = panic \/ panic' = "seek"
          /\ UNCHANGED <<files, fd>>
      BY <2>5 DEF Seek, SetExit
    <3>2. pc' \in [Pids -> Labels]
      BY <3>1
    <3> QED
      BY <2>0, <3>1, <3>2
  <2> QED
    BY <1>12, <2>1, <2>2, <2>3, <2>4, <2>5 DEF FileBody
<1>13. CASE ReleaseFile(p)
  BY <1>13, <1>0 DEF ReleaseFile
<1>14. CASE AcquireFile(p)
  BY <1>14, <1>0 DEF AcquireFile
<1>15. CASE Execute(p)
  BY <1>15, <1>0 DEF Execute
<1>16. CASE Wait(p)
  <2>1. PICK q \in {None} \cup children[p] :
          IF q = None THEN panic' = "wait" /\ UNCHANGED <<pc, it>>
          ELSE Goto(p, "wait") /\ it' = [it EXCEPT ![p] = q] /\ UNCHANGED panic
    BY <1>16 DEF Wait
  <2>2. q \in Nat
    BY <2>1, <1>0
  <2>3. UNCHANGED <<op, own_vars, file_vars, final, told>>
    BY <1>16 DEF Wait
  <2>4. CASE q = None
    BY <2>1, <2>3, <2>4
  <2>5. CASE q # None
    BY <2>1, <2>2, <2>3, <2>5
  <2> QED
    BY <2>4, <2>5
<1>17. CASE Exit(p)
  BY <1>17, <1>0 DEF Exit, SetExit
<1>18. CASE FileCall(p)
  BY <1>18, <1>0 DEF FileCall
<1> QED
  BY <1>1, <1>2, <1>3, <1>4, <1>5, <1>6, <1>7, <1>8, <1>9, <1>10, <1>11, <1>12, <1>13, <1>14, <1>15, <1>16, <1>17, <1>18
  DEF KernelStep, SystemCall

-----------------------------------------------------------------------------

\* Steps of a thread that is not waiting and has not ended: they touch no record
\* but its own exit code, and nobody's children.

Own == {"run", "create", "lock", "call", "unlock", "files", "orphans"}

PlainMove(p, l) ==
  /\ pc[p] \in Own
  /\ pc' = [pc EXCEPT ![p] = l]
  /\ l \in Own \cup {"status"}
  /\ pc[p] \in {"files", "orphans"} => l \in {"files", "orphans", "status"}
  /\ l = "status" => children[p] = {}

PlainStep(p) ==
  /\ \E l \in Labels : PlainMove(p, l)
  /\ rec' = rec \/ \E c \in Int : rec' = [rec EXCEPT ![p].exit = c]
  /\ UNCHANGED <<children, next_pid, final, told>>
  /\ \A q \in Pids \ {p} : it'[q] = it[q]

LEMMA PlainActions ==
  ASSUME ProcessTypeOK, panic = "no", NEW p \in Pids,
         \/ RefuseArguments(p) \/ CreateFails(p) \/ CloseFiles(p) \/ Orphans(p) \/ FileBody(p)
         \/ ReleaseFile(p) \/ AcquireFile(p) \/ Execute(p) \/ Exit(p) \/ FileCall(p)
         \/ Wait(p) /\ panic' = "wait"
  PROVE  PlainStep(p)
<1> USE DEF ProcessTypeOK, PlainTyped, PlainStep, PlainMove, Own, Labels, Goto, At, own_vars, file_vars
<1>1. CASE RefuseArguments(p)
  BY <1>1 DEF RefuseArguments
<1>2. CASE CreateFails(p)
  BY <1>2 DEF CreateFails
<1>3. CASE CloseFiles(p)
  BY <1>3 DEF CloseFiles
<1>4. CASE Orphans(p)
  BY <1>4 DEF Orphans
<1>5. CASE FileBody(p)
  <2>0. pc[p] = "call" /\ UNCHANGED <<it, children, next_pid, final, told>>
    BY <1>5 DEF FileBody
  <2>1. CASE Open(p) \/ Close(p) \/ Use(p)
    <3>1. PlainMove(p, "unlock") /\ rec' = rec /\ panic' = panic
      BY <2>0, <2>1 DEF Open, Close, Use
    <3> QED
      BY <2>0, <3>1
  <2>2. CASE Fault(p)
    <3>1. PlainMove(p, "files") /\ rec' = rec /\ panic' = panic
      BY <2>0, <2>2 DEF Fault
    <3> QED
      BY <2>0, <3>1
  <2>3. CASE Seek(p)
    <3>1. /\ PlainMove(p, "files") \/ PlainMove(p, "unlock") \/ PlainMove(p, "call")
          /\ rec' = rec \/ rec' = [rec EXCEPT ![p].exit = -1]
          /\ panic' = panic \/ panic' = "seek"
      BY <2>0, <2>3 DEF Seek, SetExit
    <3>2. -1 \in Int
      OBVIOUS
    <3> QED
      BY <2>0, <3>1, <3>2
  <2> QED
    BY <1>5, <2>1, <2>2, <2>3 DEF FileBody
<1>6. CASE ReleaseFile(p)
  BY <1>6 DEF ReleaseFile
<1>7. CASE AcquireFile(p)
  BY <1>7 DEF AcquireFile
<1>8. CASE Execute(p)
  BY <1>8 DEF Execute
<1>9. CASE Exit(p)
  <2>1. PICK code \in Codes \cup {-1} : SetExit(p, code)
    BY <1>9 DEF Exit
  <2>2. code \in Int
    BY ProcessConstants
  <2>3. PlainMove(p, "files") /\ rec' = [rec EXCEPT ![p].exit = code]
    BY <1>9, <2>1 DEF Exit, InUser, SetExit
  <2> QED
    BY <1>9, <2>2, <2>3 DEF Exit
<1>10. CASE FileCall(p)
  BY <1>10 DEF FileCall, InUser
<1>11. CASE Wait(p) /\ panic' = "wait"
  <2>1. PlainMove(p, "run") /\ UNCHANGED <<it, rec, children, next_pid, final, told>>
    BY <1>11 DEF Wait
  <2> QED
    BY <1>11, <2>1
<1> QED
  BY <1>1, <1>2, <1>3, <1>4, <1>5, <1>6, <1>7, <1>8, <1>9, <1>10, <1>11

\* A plain step keeps the invariant.
LEMMA PlainKeeps ==
  ASSUME ProcessInv, panic = "no", NEW p \in Pids, PlainStep(p)
  PROVE  /\ FreshInv' /\ FamilyInv' /\ LivesInv' /\ WaitsInv'
         /\ SemaInv' /\ CodeInv'
<1>1. PICK l \in Labels : PlainMove(p, l)
  BY DEF PlainStep
<1>2. pc[p] \in Own /\ l \in Own \cup {"status"}
  BY <1>1 DEF PlainMove
<1>3. /\ pc'[p] = l
      /\ \A q \in Pids : q # p => pc'[q] = pc[q]
  BY <1>1 DEF PlainMove, ProcessInv, ProcessTypeOK, PlainTyped
<1>4. \A q \in Pids : /\ rec'[q].state = rec[q].state
                      /\ rec'[q].status = rec[q].status
                      /\ rec'[q].sema = rec[q].sema
                      /\ q # p => rec'[q].exit = rec[q].exit
  BY DEF PlainStep, ProcessInv, ProcessTypeOK, RecTyped, RecSet
<1>5. UNCHANGED <<children, next_pid, final, told>>
  BY DEF PlainStep
<1>6. \A q \in Pids : (pc'[q] = "await") = (pc[q] = "await")
  BY <1>2, <1>3 DEF Own
<1>7. \A q \in Pids : (pc'[q] = "wait") = (pc[q] = "wait")
  BY <1>2, <1>3 DEF Own
<1>8. \A q \in Pids : q # p => it'[q] = it[q]
  BY DEF PlainStep
<1>9. \A q \in Pids : Awaited(q)' <=> Awaited(q)
  BY <1>2, <1>3, <1>6, <1>8 DEF Awaited, Own
<1>10. FreshInv'
  BY <1>2, <1>3, <1>4, <1>5 DEF ProcessInv, FreshInv, Own
<1>11. FamilyInv'
  <2>1. \A r \in Pids : pc'[r] \in {"none", "load", "status", "signal", "die", "dead"} => children'[r] = {}
    BY <1>1, <1>2, <1>3, <1>5 DEF ProcessInv, FamilyInv, Own, PlainMove
  <2> QED
    BY <2>1, <1>4, <1>5 DEF ProcessInv, FamilyInv
<1>12. LivesInv'
  BY <1>2, <1>3, <1>4 DEF ProcessInv, LivesInv, Quiet, Own
<1>13. WaitsInv'
  BY <1>2, <1>3, <1>5, <1>8 DEF ProcessInv, WaitsInv, Own
<1>14. SemaInv'
  <2> SUFFICES ASSUME NEW q \in Pids, rec'[q].state = "live"
               PROVE  /\ pc'[q] = "load" => rec'[q].sema = 0 /\ Awaited(q)' /\ rec'[q].status = "RUN"
                      /\ pc'[q] \notin {"load", "files", "orphans", "status", "signal", "die", "dead"}
                           => rec'[q].status = "RUN"
                      /\ rec'[q].status = "FAIL" => Awaited(q)'
                      /\ pc'[q] # "load" => rec'[q].sema =
                           Count(Awaited(q)' /\ rec'[q].status # "FAIL") + Count(Quiet(q)')
    BY DEF SemaInv, Count, Awaited, Quiet
  <2>1. /\ pc[q] = "load" => rec[q].sema = 0 /\ Awaited(q) /\ rec[q].status = "RUN"
        /\ pc[q] \notin {"load", "files", "orphans", "status", "signal", "die", "dead"}
             => rec[q].status = "RUN"
        /\ rec[q].status = "FAIL" => Awaited(q)
        /\ pc[q] # "load" =>
             rec[q].sema = Count(Awaited(q) /\ rec[q].status # "FAIL") + Count(Quiet(q))
    BY <1>4 DEF ProcessInv, SemaInv
  <2>2. Quiet(q)' <=> Quiet(q)
    BY <1>2, <1>3 DEF Quiet, Own
  <2>3. (pc'[q] = "load") <=> (pc[q] = "load")
    BY <1>2, <1>3 DEF Own
  <2>4. pc'[q] \notin {"load", "files", "orphans", "status", "signal", "die", "dead"}
          => pc[q] \notin {"load", "files", "orphans", "status", "signal", "die", "dead"}
    BY <1>1, <1>2, <1>3 DEF Own, PlainMove
  <2> QED
    BY <2>1, <2>2, <2>3, <2>4, <1>4, <1>9 DEF Count
<1>15. CodeInv'
  BY <1>2, <1>3, <1>4, <1>5 DEF ProcessInv, CodeInv, Quiet, Own
<1> QED
  BY <1>10, <1>11, <1>12, <1>13, <1>14, <1>15

-----------------------------------------------------------------------------

\* The steps that begin a process, tell of it, and end it.  SafeInv is the
\* invariant without the types.

SafeInv == FreshInv /\ FamilyInv /\ LivesInv /\ WaitsInv /\ SemaInv /\ CodeInv

\* The invariant for the semaphore of q.
SemaOf(q) ==
  /\ pc[q] = "load" => rec[q].sema = 0 /\ Awaited(q) /\ rec[q].status = "RUN"
  /\ pc[q] \notin {"load", "files", "orphans", "status", "signal", "die", "dead"}
       => rec[q].status = "RUN"
  /\ rec[q].status = "FAIL" => Awaited(q)
  /\ pc[q] # "load" =>
       rec[q].sema = Count(Awaited(q) /\ rec[q].status # "FAIL") + Count(Quiet(q))

\* It depends on the record, the label and the parent of q only.
LEMMA SemaKept ==
  ASSUME NEW q \in Pids, SemaOf(q), rec'[q] = rec[q], Awaited(q)' <=> Awaited(q),
         \/ pc'[q] = pc[q]
         \/ rec[q].status = "RUN" /\ pc[q] \notin {"load", "die", "dead"}
              /\ pc'[q] \notin {"load", "die", "dead"}
  PROVE  SemaOf(q)'
<1>1. Quiet(q)' <=> Quiet(q)
  BY DEF Quiet
<1> QED
  BY <1>1 DEF SemaOf, Count

LEMMA CreateKeeps ==
  ASSUME ProcessInv, panic = "no", NEW p \in Pids, CreateThread(p)
  PROVE  SafeInv'
<1>0. PICK c \in Pids : c = next_pid
  BY ProcessConstants DEF CreateThread, Pids, ProcessInv, ProcessTypeOK, PlainTyped
<1>1. /\ c # 1 /\ pc[p] = "create" /\ next_pid = c /\ next_pid' = c + 1
      /\ rec' = [rec EXCEPT ![c] = NewRecord]
      /\ children' = [children EXCEPT ![p] = @ \cup {c}]
      /\ it' = [it EXCEPT ![p] = c]
      /\ pc' = [pc EXCEPT ![p] = "await", ![c] = "load"]
      /\ UNCHANGED <<panic, final, told>>
  BY <1>0 DEF CreateThread, At, Pids, ProcessInv, ProcessTypeOK, PlainTyped
<1>2. pc[c] = "none" /\ rec[c].state = "none" /\ c # p
  BY <1>1 DEF ProcessInv, FreshInv, Pids
<1>3. /\ pc'[p] = "await" /\ pc'[c] = "load"
      /\ \A q \in Pids : q \notin {p, c} => pc'[q] = pc[q]
  BY <1>1, <1>2 DEF ProcessInv, ProcessTypeOK, PlainTyped
<1>4. /\ rec'[c] = NewRecord
      /\ \A q \in Pids : q # c => rec'[q] = rec[q]
  BY <1>1 DEF ProcessInv, ProcessTypeOK, RecTyped
<1>5. /\ children'[p] = children[p] \cup {c}
      /\ \A q \in Pids : q # p => children'[q] = children[q]
  BY <1>1 DEF ProcessInv, ProcessTypeOK, PlainTyped
<1>6. /\ it'[p] = c
      /\ \A q \in Pids : q # p => it'[q] = it[q]
  BY <1>1 DEF ProcessInv, ProcessTypeOK, PlainTyped
<1>7. NewRecord.state = "live" /\ NewRecord.sema = 0 /\ NewRecord.status = "RUN"
  BY DEF NewRecord, Absent
<1>8. \A q \in Pids : c \notin children[q]
  BY <1>1 DEF ProcessInv, FamilyInv, ProcessTypeOK, PlainTyped
<1>9. Awaited(c)'
  BY <1>3, <1>6 DEF Awaited
<1>10. \A q \in Pids : q # c => (Awaited(q)' <=> Awaited(q))
  <2>1. pc[p] # "await" /\ pc[c] # "await" /\ pc'[c] # "await" /\ it'[p] = c
    BY <1>1, <1>2, <1>3, <1>6
  <2>2. \A r \in Pids : r \notin {p, c} => pc'[r] = pc[r] /\ it'[r] = it[r]
    BY <1>3, <1>6
  <2> QED
    BY <2>1, <2>2 DEF Awaited
<1>11. FreshInv'
  BY <1>1, <1>2, <1>3, <1>4 DEF ProcessInv, FreshInv, Pids, ProcessTypeOK, PlainTyped
<1>12. FamilyInv'
  <2>1. \A r, q \in Pids : q \in children'[r] => q # 1 /\ q # r /\ q < c + 1
    BY <1>0, <1>1, <1>2, <1>5 DEF ProcessInv, FamilyInv, Pids, ProcessTypeOK, PlainTyped
  <2>2. \A r, t, q \in Pids : q \in children'[r] /\ q \in children'[t] => r = t
    BY <1>5, <1>8 DEF ProcessInv, FamilyInv
  <2>3. \A q \in Pids : rec'[q].state = "live" <=> \E r \in Pids : q \in children'[r]
    BY <1>4, <1>5, <1>7 DEF ProcessInv, FamilyInv
  <2>4. \A r \in Pids : pc'[r] \in {"none", "load", "status", "signal", "die", "dead"} => children'[r] = {}
    BY <1>2, <1>3, <1>5 DEF ProcessInv, FamilyInv
  <2> QED
    BY <1>1, <2>1, <2>2, <2>3, <2>4 DEF FamilyInv
<1>13. LivesInv'
  BY <1>1, <1>3, <1>4, <1>7 DEF ProcessInv, LivesInv, Quiet
<1>14. WaitsInv'
  BY <1>2, <1>3, <1>5, <1>6 DEF ProcessInv, WaitsInv
<1>15. SemaInv'
  <2> SUFFICES ASSUME NEW q \in Pids, rec'[q].state = "live" PROVE SemaOf(q)'
    BY DEF SemaInv, SemaOf
  <2>1. CASE q = c
    BY <2>1, <1>3, <1>4, <1>7, <1>9 DEF SemaOf
  <2>2. CASE q # c
    <3>1. SemaOf(q) /\ rec'[q] = rec[q]
      BY <2>2, <1>4 DEF ProcessInv, SemaInv, SemaOf
    <3>2. pc'[q] = pc[q] \/ (q = p /\ rec[q].status = "RUN")
      BY <2>2, <3>1, <1>1, <1>3 DEF SemaOf
    <3>3. Awaited(q)' <=> Awaited(q)
      BY <2>2, <1>10
    <3> QED
      BY <2>2, <3>1, <3>2, <3>3, <1>1, <1>3, SemaKept
  <2> QED
    BY <2>1, <2>2
<1>16. CodeInv'
  <2>1. told' = told /\ final' = final /\ told[c] = <<>>
    BY <1>1, <1>2 DEF ProcessInv, CodeInv
  <2>2. \A q \in Pids : q # c => rec'[q] = rec[q]
    BY <1>4
  <2>3. \A q \in Pids \ {p, c} : pc'[q] = pc[q]
    BY <1>3
  <2>4. pc[p] \notin {"signal", "die", "dead"} /\ pc'[p] = "await" /\ pc'[c] = "load"
    BY <1>1, <1>3
  <2>5. CodeInv
    BY DEF ProcessInv
  <2> QED
    BY ONLY <2>1, <2>2, <2>3, <2>4, <2>5 DEF CodeInv, Quiet
<1> QED
  BY <1>11, <1>12, <1>13, <1>14, <1>15, <1>16 DEF SafeInv

\* The child that a thread waits for.
LEMMA ChildFacts ==
  ASSUME ProcessInv, NEW p \in Pids, pc[p] \in {"await", "wait"}
  PROVE  /\ it[p] \in Pids /\ it[p] # p /\ it[p] # 1 /\ it[p] \in children[p]
         /\ rec[it[p]].state = "live" /\ SemaOf(it[p]) /\ told[it[p]] = <<>>
         /\ Awaited(it[p]) <=> pc[p] = "await"
         /\ \A r \in Pids : r # p => it[p] \notin children[r]
<1>1. it[p] \in children[p] /\ it[p] \in Pids
  BY DEF ProcessInv, WaitsInv, ProcessTypeOK, PlainTyped
<1>2. it[p] # p /\ it[p] # 1 /\ rec[it[p]].state = "live"
  BY <1>1 DEF ProcessInv, FamilyInv
<1>3. SemaOf(it[p])
  BY <1>1, <1>2 DEF ProcessInv, SemaInv, SemaOf
<1>4. told[it[p]] = <<>>
  BY <1>1, <1>2 DEF ProcessInv, CodeInv
<1>5. \A r \in Pids : r # p => it[p] \notin children[r]
  BY <1>1 DEF ProcessInv, FamilyInv
<1>6. Awaited(it[p]) <=> pc[p] = "await"
  BY <1>5 DEF Awaited, ProcessInv, WaitsInv
<1> QED
  BY <1>1, <1>2, <1>3, <1>4, <1>5, <1>6

\* The record of a child that has ended is freed.
LEMMA FreeKeeps ==
  ASSUME ProcessInv, panic = "no", NEW p \in Pids, pc[p] \in {"await", "wait"},
         Quiet(it[p]), Removed(p, it[p]), Goto(p, "run"), it' = [it EXCEPT ![p] = None],
         \/ told' = told
         \/ told' = [told EXCEPT ![it[p]] = Append(@, rec[it[p]].exit)],
         UNCHANGED <<next_pid, panic, final>>
  PROVE  SafeInv'
<1>0. PICK c \in Pids : c = it[p]
  BY ChildFacts
<1>1. /\ c # p /\ c # 1 /\ c \in children[p] /\ rec[c].state = "live" /\ told[c] = <<>> /\ Quiet(c)
      /\ \A r \in Pids : r # p => c \notin children[r]
  BY <1>0, ChildFacts
<1>2. /\ pc'[p] = "run"
      /\ \A q \in Pids : q # p => pc'[q] = pc[q]
  BY DEF Goto, ProcessInv, ProcessTypeOK, PlainTyped
<1>3. /\ rec'[c].state = "freed" /\ rec'[c].exit = rec[c].exit
      /\ \A q \in Pids : q # c => rec'[q] = rec[q]
  BY <1>0 DEF Removed, ProcessInv, ProcessTypeOK, RecTyped, RecSet
<1>4. /\ children'[p] = children[p] \ {c}
      /\ \A q \in Pids : q # p => children'[q] = children[q]
  BY <1>0 DEF Removed, ProcessInv, ProcessTypeOK, PlainTyped
<1>5. \A q \in Pids : q # p => it'[q] = it[q]
  BY DEF ProcessInv, ProcessTypeOK, PlainTyped
<1>6. \A q \in Pids : q # c => told'[q] = told[q]
  BY <1>0 DEF ProcessInv, ProcessTypeOK, PlainTyped
<1>7. told'[c] = told[c] \/ told'[c] = <<rec[c].exit>>
  <2>1. told[c] = <<>> => Append(told[c], rec[c].exit) = <<rec[c].exit>>
    BY RecTypes DEF ProcessInv, ProcessTypeOK
  <2> QED
    BY <1>0, <1>1, <2>1 DEF ProcessInv, ProcessTypeOK, PlainTyped
<1>8. \A q \in Pids : q # c => (Awaited(q)' <=> Awaited(q))
  BY <1>0, <1>2, <1>5 DEF Awaited
<1>11. FreshInv'
  BY <1>1, <1>2, <1>3 DEF ProcessInv, FreshInv, Quiet
<1>12. FamilyInv'
  <2>1. \A r \in Pids : children'[r] \subseteq children[r]
    BY <1>4
  <2>2. \A q \in Pids : rec'[q].state = "live" <=> \E r \in Pids : q \in children'[r]
    BY <1>1, <1>3, <1>4 DEF ProcessInv, FamilyInv
  <2>3. \A r \in Pids : pc'[r] \in {"none", "load", "status", "signal", "die", "dead"} => children'[r] = {}
    BY <1>2, <1>4 DEF ProcessInv, FamilyInv
  <2> QED
    BY <2>1, <2>2, <2>3 DEF ProcessInv, FamilyInv
<1>13. LivesInv'
  BY <1>1, <1>2, <1>3 DEF ProcessInv, LivesInv, Quiet
<1>14. WaitsInv'
  BY <1>1, <1>2, <1>4, <1>5 DEF ProcessInv, WaitsInv
<1>15. SemaInv'
  <2> SUFFICES ASSUME NEW q \in Pids, rec'[q].state = "live" PROVE SemaOf(q)'
    BY DEF SemaInv, SemaOf
  <2>1. q # c /\ rec'[q] = rec[q] /\ (Awaited(q)' <=> Awaited(q))
    BY <1>3, <1>8
  <2>2. SemaOf(q)
    BY <2>1 DEF ProcessInv, SemaInv, SemaOf
  <2>3. pc'[q] = pc[q] \/ (q = p /\ rec[q].status = "RUN")
    BY <1>2, <2>2 DEF SemaOf
  <2> QED
    BY <2>1, <2>2, <2>3, <1>2, SemaKept
<1>16. CodeInv'
  BY <1>1, <1>2, <1>3, <1>6, <1>7 DEF ProcessInv, CodeInv, Quiet
<1> QED
  BY <1>11, <1>12, <1>13, <1>14, <1>15, <1>16 DEF SafeInv

LEMMA AwaitLoadKeeps ==
  ASSUME ProcessInv, panic = "no", NEW p \in Pids, AwaitLoad(p)
  PROVE  SafeInv'
<1>0. pc[p] = "await" /\ rec[it[p]].sema > 0
  BY DEF AwaitLoad, At
<1>1. CASE rec[it[p]].status = "FAIL"
  <2>1. Quiet(it[p])
    <3>1. SemaOf(it[p])
      BY <1>0, ChildFacts
    <3> QED
      BY <3>1, <1>0, <1>1 DEF SemaOf, Count
  <2> QED
    BY <1>0, <1>1, <2>1, FreeKeeps DEF AwaitLoad
<1>2. CASE rec[it[p]].status # "FAIL"
  <2>0. PICK c \in Pids : c = it[p]
    BY <1>0, ChildFacts
  <2>1. /\ c # p /\ Awaited(c) /\ SemaOf(c) /\ rec[c].state = "live"
        /\ \A r \in Pids : r # p => c \notin children[r]
    BY <1>0, <2>0, ChildFacts
  <2>2. /\ rec'[c].state = rec[c].state /\ rec'[c].status = rec[c].status
        /\ rec'[c].exit = rec[c].exit /\ rec'[c].sema = rec[c].sema - 1
        /\ \A q \in Pids : q # c => rec'[q] = rec[q]
    BY <1>2, <2>0 DEF AwaitLoad, Downed, ProcessInv, ProcessTypeOK, RecTyped, RecSet
  <2>3. /\ pc'[p] = "run" /\ \A q \in Pids : q # p => pc'[q] = pc[q]
        /\ \A q \in Pids : q # p => it'[q] = it[q]
        /\ UNCHANGED <<children, next_pid, panic, final, told>>
    BY <1>2 DEF AwaitLoad, Goto, ProcessInv, ProcessTypeOK, PlainTyped
  <2>4. \A q \in Pids : q # c => (Awaited(q)' <=> Awaited(q))
    BY <1>0, <2>0, <2>3 DEF Awaited
  <2>5. ~Awaited(c)'
    BY <2>1, <2>3 DEF Awaited, ProcessInv, WaitsInv
  <2>11. FreshInv'
    BY <1>0, <2>2, <2>3 DEF ProcessInv, FreshInv
  <2>12. FamilyInv'
    BY <1>0, <2>2, <2>3 DEF ProcessInv, FamilyInv
  <2>13. LivesInv'
    BY <1>0, <2>2, <2>3 DEF ProcessInv, LivesInv, Quiet
  <2>14. WaitsInv'
    BY <2>3 DEF ProcessInv, WaitsInv
  <2>15. SemaInv'
    <3> SUFFICES ASSUME NEW q \in Pids, rec'[q].state = "live" PROVE SemaOf(q)'
      BY DEF SemaInv, SemaOf
    <3>1. CASE q = c
      <4>1. rec[c].sema = 1 + Count(Quiet(c)) /\ pc[c] # "load" /\ pc'[c] = pc[c]
        BY <1>0, <1>2, <2>0, <2>1, <2>3 DEF SemaOf, Count
      <4>2. Quiet(c)' <=> Quiet(c)
        BY <4>1 DEF Quiet
      <4>3. rec'[c].sema = Count(Quiet(c)')
        BY <2>2, <4>1, <4>2 DEF Count
      <4>4. rec'[c].status # "FAIL"
        BY <1>2, <2>0, <2>2
      <4> QED
        BY <3>1, <2>1, <2>2, <2>5, <4>1, <4>3, <4>4 DEF SemaOf, Count
    <3>2. CASE q # c
      <4>1. SemaOf(q) /\ rec'[q] = rec[q] /\ (Awaited(q)' <=> Awaited(q))
        BY <3>2, <2>2, <2>4 DEF ProcessInv, SemaInv, SemaOf
      <4>2. pc'[q] = pc[q] \/ (q = p /\ rec[q].status = "RUN")
        BY <1>0, <2>3, <4>1 DEF SemaOf
      <4> QED
        BY <4>1, <4>2, <1>0, <2>3, SemaKept
    <3> QED
      BY <3>1, <3>2
  <2>16. CodeInv'
    BY <1>0, <2>2, <2>3 DEF ProcessInv, CodeInv, Quiet
  <2> QED
    BY <2>11, <2>12, <2>13, <2>14, <2>15, <2>16 DEF SafeInv
<1> QED
  BY <1>1, <1>2

LEMMA ReapKeeps ==
  ASSUME ProcessInv, panic = "no", NEW p \in Pids, Reap(p)
  PROVE  SafeInv'
<1>0. pc[p] = "wait" /\ rec[it[p]].sema > 0
  BY DEF Reap, At
<1>1. SemaOf(it[p]) /\ ~Awaited(it[p])
  BY <1>0, ChildFacts
<1>2. Quiet(it[p])
  BY <1>0, <1>1 DEF SemaOf, Count
<1> QED
  BY <1>0, <1>2, FreeKeeps DEF Reap

LEMMA WaitKeeps ==
  ASSUME ProcessInv, panic = "no", NEW p \in Pids, Wait(p), panic' = panic
  PROVE  SafeInv'
<1>1. PICK c \in children[p] : Goto(p, "wait") /\ it' = [it EXCEPT ![p] = c]
  BY DEF Wait
<1>2. /\ pc[p] = "run" /\ pc'[p] = "wait" /\ it'[p] = c
      /\ \A q \in Pids : q # p => pc'[q] = pc[q] /\ it'[q] = it[q]
      /\ UNCHANGED <<rec, children, next_pid, final, told>>
  BY <1>1 DEF Wait, At, Goto, own_vars, ProcessInv, ProcessTypeOK, PlainTyped
<1>3. \A q \in Pids : Awaited(q)' <=> Awaited(q)
  BY <1>2 DEF Awaited
<1>11. FreshInv'
  BY <1>2 DEF ProcessInv, FreshInv
<1>12. FamilyInv'
  BY <1>2 DEF ProcessInv, FamilyInv
<1>13. LivesInv'
  BY <1>2 DEF ProcessInv, LivesInv, Quiet
<1>14. WaitsInv'
  BY <1>1, <1>2 DEF ProcessInv, WaitsInv
<1>15. SemaInv'
  <2> SUFFICES ASSUME NEW q \in Pids, rec'[q].state = "live" PROVE SemaOf(q)'
    BY DEF SemaInv, SemaOf
  <2>1. SemaOf(q) /\ rec'[q] = rec[q] /\ (Awaited(q)' <=> Awaited(q))
    BY <1>2, <1>3 DEF ProcessInv, SemaInv, SemaOf
  <2>2. pc'[q] = pc[q] \/ (q = p /\ rec[q].status = "RUN")
    BY <1>2, <2>1 DEF SemaOf
  <2> QED
    BY <2>1, <2>2, <1>2, SemaKept
<1>16. CodeInv'
  BY <1>2 DEF ProcessInv, CodeInv, Quiet
<1> QED
  BY <1>11, <1>12, <1>13, <1>14, <1>15, <1>16 DEF SafeInv

\* A thread that has no children moves on and updates its own record.
LEMMA SelfKeeps ==
  ASSUME ProcessInv, panic = "no", NEW p \in Pids, NEW l \in Labels,
         pc' = [pc EXCEPT ![p] = l],
         pc[p] \in {"load", "status", "signal", "die"},
         l \in {"run", "files", "signal", "die", "dead"},
         Quiet(p) => l = "dead",
         rec'[p].state = rec[p].state, rec'[p].exit = rec[p].exit,
         \A q \in Pids : q # p => rec'[q] = rec[q] /\ final'[q] = final[q],
         rec[p].state = "live" => SemaOf(p)',
         l \in {"signal", "die", "dead"} => final'[p] = {rec[p].exit},
         UNCHANGED <<it, children, next_pid, panic, told>>
  PROVE  SafeInv'
<1>2. pc'[p] = l /\ \A q \in Pids : q # p => pc'[q] = pc[q]
  BY DEF ProcessInv, ProcessTypeOK, PlainTyped
<1>3. \A q \in Pids : Awaited(q)' <=> Awaited(q)
  BY <1>2 DEF Awaited
<1>4. children[p] = {}
  BY DEF ProcessInv, FamilyInv
<1>11. FreshInv'
  BY <1>2 DEF ProcessInv, FreshInv
<1>12. FamilyInv'
  BY <1>2, <1>4 DEF ProcessInv, FamilyInv
<1>13. LivesInv'
  BY <1>2 DEF ProcessInv, LivesInv, Quiet
<1>14. WaitsInv'
  BY <1>2 DEF ProcessInv, WaitsInv
<1>15. SemaInv'
  <2> SUFFICES ASSUME NEW q \in Pids, rec'[q].state = "live" PROVE SemaOf(q)'
    BY DEF SemaInv, SemaOf
  <2>1. CASE q = p
    BY <2>1
  <2>2. CASE q # p
    <3>1. SemaOf(q) /\ rec'[q] = rec[q] /\ (Awaited(q)' <=> Awaited(q)) /\ pc'[q] = pc[q]
      BY <2>2, <1>2, <1>3 DEF ProcessInv, SemaInv, SemaOf
    <3> QED
      BY <3>1, SemaKept
  <2> QED
    BY <2>1, <2>2
<1>16. CodeInv'
  <2>1. told[p] # <<>> => Quiet(p)
    BY DEF ProcessInv, CodeInv
  <2> QED
    BY <2>1, <1>2 DEF ProcessInv, CodeInv, Quiet
<1> QED
  BY <1>11, <1>12, <1>13, <1>14, <1>15, <1>16 DEF SafeInv

LEMMA EndKeeps ==
  ASSUME ProcessInv, panic = "no", NEW p \in Pids,
         Loaded(p) \/ SetStatus(p) \/ Signal(p) \/ Die(p)
  PROVE  SafeInv'
<1> USE DEF At, Goto, Labels
<1>0. rec[p].state = "live" => SemaOf(p)
  BY DEF ProcessInv, SemaInv, SemaOf
<1>t. rec \in [Pids -> RecSet] /\ final \in [Pids -> SUBSET Int] /\ rec[p] \in RecSet
  BY RecTypes DEF ProcessInv, ProcessTypeOK, PlainTyped, RecTyped
<1>1. ASSUME UNCHANGED it, NEW l, pc' = [pc EXCEPT ![p] = l], pc[p] # "await", l # "await"
      PROVE  Awaited(p)' <=> Awaited(p)
  BY <1>1 DEF Awaited, ProcessInv, ProcessTypeOK, PlainTyped
<1>2. CASE Loaded(p) /\ pc' = [pc EXCEPT ![p] = "run"]
  <2>1. /\ rec'[p].sema = rec[p].sema + 1 /\ rec'[p].status = rec[p].status
        /\ rec'[p].state = rec[p].state /\ rec'[p].exit = rec[p].exit
        /\ \A q \in Pids : q # p => rec'[q] = rec[q]
        /\ UNCHANGED <<it, children, next_pid, panic, told, final>>
        /\ pc[p] = "load" /\ pc'[p] = "run"
    <3>1. pc[p] = "load" /\ pc'[p] = "run"
      BY <1>2 DEF Loaded, ProcessInv, ProcessTypeOK, PlainTyped
    <3>2. UNCHANGED <<it, children, next_pid, panic, told, final>>
      BY <1>2 DEF Loaded
    <3>3. pc' # [pc EXCEPT ![p] = "files"]
      BY <3>1 DEF ProcessInv, ProcessTypeOK, PlainTyped
    <3>4. rec' = [rec EXCEPT ![p].sema = @ + 1]
      BY <1>2, <3>3 DEF Loaded
    <3> QED
      BY <1>t, <3>1, <3>2, <3>4 DEF RecSet
  <2>2. Awaited(p)' <=> Awaited(p)
    BY <1>1, <1>2, <2>1
  <2>3. rec[p].state = "live" => SemaOf(p)'
    BY <1>0, <2>1, <2>2 DEF SemaOf, Count, Quiet
  <2> QED
    BY <1>2, <2>1, <2>3, SelfKeeps DEF Quiet
<1>3. CASE Loaded(p) /\ pc' = [pc EXCEPT ![p] = "files"]
  <2>1. /\ rec'[p].sema = rec[p].sema /\ rec'[p].status = "FAIL"
        /\ rec'[p].state = rec[p].state /\ rec'[p].exit = rec[p].exit
        /\ \A q \in Pids : q # p => rec'[q] = rec[q]
        /\ UNCHANGED <<it, children, next_pid, panic, told, final>>
        /\ pc[p] = "load" /\ pc'[p] = "files"
    <3>1. pc[p] = "load" /\ pc'[p] = "files"
      BY <1>3 DEF Loaded, ProcessInv, ProcessTypeOK, PlainTyped
    <3>2. UNCHANGED <<it, children, next_pid, panic, told, final>>
      BY <1>3 DEF Loaded
    <3>3. pc' # [pc EXCEPT ![p] = "run"]
      BY <3>1 DEF ProcessInv, ProcessTypeOK, PlainTyped
    <3>4. rec' = [rec EXCEPT ![p].status = "FAIL"]
      BY <1>3, <3>3 DEF Loaded
    <3> QED
      BY <1>t, <3>1, <3>2, <3>4 DEF RecSet
  <2>2. Awaited(p)' <=> Awaited(p)
    BY <1>1, <1>3, <2>1
  <2>3. rec[p].state = "live" => SemaOf(p)'
    BY <1>0, <2>1, <2>2 DEF SemaOf, Count, Quiet
  <2> QED
    BY <1>3, <2>1, <2>3, SelfKeeps DEF Quiet
<1>4. CASE SetStatus(p)
  <2>1. /\ rec'[p].sema = rec[p].sema
        /\ rec'[p].status = IF rec[p].status = "RUN" THEN "DEAD" ELSE rec[p].status
        /\ rec'[p].state = rec[p].state /\ rec'[p].exit = rec[p].exit
        /\ \A q \in Pids : q # p => rec'[q] = rec[q] /\ final'[q] = final[q]
        /\ final'[p] = {rec[p].exit}
        /\ UNCHANGED <<it, children, next_pid, panic, told>>
        /\ pc[p] = "status" /\ pc'[p] = "signal" /\ pc' = [pc EXCEPT ![p] = "signal"]
    BY <1>4, <1>t DEF SetStatus, StatusAtExit, RecSet, ProcessInv, ProcessTypeOK, PlainTyped
  <2>2. Awaited(p)' <=> Awaited(p)
    BY <1>1, <2>1
  <2>3. rec[p].state = "live" => SemaOf(p)'
    BY <1>0, <2>1, <2>2 DEF SemaOf, Count, Quiet
  <2> QED
    BY <2>1, <2>3, SelfKeeps DEF Quiet
<1>5. CASE Signal(p)
  <2>1. /\ rec'[p].sema = rec[p].sema + 1 /\ rec'[p].status = rec[p].status
        /\ rec'[p].state = rec[p].state /\ rec'[p].exit = rec[p].exit
        /\ \A q \in Pids : q # p => rec'[q] = rec[q]
        /\ UNCHANGED <<it, children, next_pid, panic, told, final>>
        /\ pc[p] = "signal" /\ pc'[p] = "die" /\ pc' = [pc EXCEPT ![p] = "die"]
    BY <1>5, <1>t DEF Signal, Raised, RecSet, ProcessInv, ProcessTypeOK, PlainTyped
  <2>2. Awaited(p)' <=> Awaited(p)
    BY <1>1, <2>1
  <2>3. rec[p].state = "live" => SemaOf(p)'
    BY <1>0, <2>1, <2>2 DEF SemaOf, Count, Quiet
  <2>4. final[p] = {rec[p].exit}
    BY <2>1 DEF ProcessInv, CodeInv
  <2> QED
    BY <2>1, <2>3, <2>4, SelfKeeps DEF Quiet
<1>6. CASE Die(p)
  <2>1. /\ UNCHANGED <<rec, it, children, next_pid, panic, told, final>>
        /\ pc[p] = "die" /\ pc'[p] = "dead" /\ pc' = [pc EXCEPT ![p] = "dead"]
    BY <1>6 DEF Die, ProcessInv, ProcessTypeOK, PlainTyped
  <2>2. Awaited(p)' <=> Awaited(p)
    BY <1>1, <2>1
  <2>3. rec[p].state = "live" => SemaOf(p)'
    BY <1>0, <2>1, <2>2 DEF SemaOf, Count, Quiet
  <2>4. final[p] = {rec[p].exit}
    BY <2>1 DEF ProcessInv, CodeInv
  <2> QED
    BY <2>1, <2>3, <2>4, SelfKeeps DEF Quiet
<1> QED
  BY <1>2, <1>3, <1>4, <1>5, <1>6 DEF Loaded

-----------------------------------------------------------------------------

\* The parts together.

LEMMA ProcessInitInv == Init => ProcessInv
<1> SUFFICES ASSUME Init PROVE ProcessInv
  OBVIOUS
<1>0. ProcessTypeOK
  BY ProcessInitType
<1>1. /\ \A q \in Pids : pc[q] = IF q = 1 THEN "run" ELSE "none"
      /\ \A q \in Pids : rec[q].state = "none" /\ children[q] = {} /\ told[q] = <<>>
      /\ next_pid = 2 /\ panic = "no"
  BY DEF Init, Absent
<1>2. \A q \in Pids : q \in Nat \ {0}
  BY ProcessConstants DEF Pids
<1>3. FreshInv
  BY <1>1, <1>2 DEF FreshInv
<1>4. FamilyInv
  BY <1>1 DEF FamilyInv
<1>5. LivesInv /\ WaitsInv /\ SemaInv /\ CodeInv
  BY <1>1 DEF LivesInv, WaitsInv, SemaInv, CodeInv, Quiet
<1> QED
  BY <1>0, <1>3, <1>4, <1>5 DEF ProcessInv

LEMMA ProcessStepInv == ProcessInv /\ [Next]_vars => ProcessInv'
<1> SUFFICES ASSUME ProcessInv, [Next]_vars PROVE ProcessInv'
  OBVIOUS
<1>1. CASE UNCHANGED vars
  BY <1>1 DEF vars, own_vars, file_vars, ProcessInv, ProcessTypeOK, PlainTyped, RecTyped,
     FreshInv, FamilyInv, LivesInv, Quiet, WaitsInv, SemaInv, Awaited, Count, CodeInv
<1>2. CASE Next
  <2>0. panic = "no" /\ WaitsInv /\ PlainTyped /\ RecTyped /\ ProcessTypeOK
    BY <1>2 DEF Next, ProcessInv, ProcessTypeOK
  <2>1. PICK p \in Pids : KernelStep(p) \/ AcquireFile(p) \/ SystemCall(p)
    BY <1>2 DEF Next
  <2>2. ProcessTypeOK'
    BY <2>0, <2>1, RecTypedStep, PlainTypedStep DEF ProcessTypeOK
  <2>3. SafeInv'
    <3>1. CASE \/ RefuseArguments(p) \/ CreateFails(p) \/ CloseFiles(p) \/ Orphans(p)
               \/ FileBody(p) \/ ReleaseFile(p) \/ AcquireFile(p) \/ Execute(p) \/ Exit(p)
               \/ FileCall(p) \/ (Wait(p) /\ panic' = "wait")
      BY <2>0, <3>1, PlainActions, PlainKeeps DEF SafeInv
    <3>2. CASE Wait(p) /\ panic' = panic
      BY <2>0, <3>2, WaitKeeps
    <3>3. CASE CreateThread(p)
      BY <2>0, <3>3, CreateKeeps
    <3>4. CASE AwaitLoad(p)
      BY <2>0, <3>4, AwaitLoadKeeps
    <3>5. CASE Reap(p)
      BY <2>0, <3>5, ReapKeeps
    <3>6. CASE Loaded(p) \/ SetStatus(p) \/ Signal(p) \/ Die(p)
      BY <2>0, <3>6, EndKeeps
    <3>7. Wait(p) => panic' = "wait" \/ panic' = panic
      BY DEF Wait
    <3> QED
      BY <2>1, <3>1, <3>2, <3>3, <3>4, <3>5, <3>6, <3>7 DEF KernelStep, SystemCall
  <2> QED
    BY <2>2, <2>3 DEF SafeInv, ProcessInv
<1> QED
  BY <1>1, <1>2

LEMMA ProcessAlways == Spec => []ProcessInv
BY ProcessInitInv, ProcessStepInv, PTL DEF Spec

\* Every variable of Process keeps its type, whatever programs do.
THEOREM ProcessTypes == Spec => []ProcessTypeOK
<1>1. ProcessInv => ProcessTypeOK
  BY DEF ProcessInv
<1> QED
  BY <1>1, ProcessAlways, PTL

\* process_wait tells a child's exit code, the one it exited with, once, for any
\* number of processes.
THEOREM ExitCodesOnce == Spec => []ExitCodeOnce
<1>1. ProcessInv => ExitCodeOnce
  BY DEF ProcessInv, CodeInv, Quiet, ExitCodeOnce
<1> QED
  BY <1>1, ProcessAlways, PTL

LEMMA OneParent ==
  ASSUME ProcessInv, NEW q \in Pids
  PROVE  rec[q].state = "live" <=> Cardinality(Parents(q)) = 1
<1>1. ASSUME NEW p \in Pids, q \in children[p] PROVE Parents(q) = {p}
  BY <1>1 DEF ProcessInv, FamilyInv, Parents
<1>2. (\A p \in Pids : q \notin children[p]) => Parents(q) = {}
  BY DEF Parents
<1>3. Cardinality({}) = 0 /\ \A p : Cardinality({p}) = 1
  BY FS_EmptySet, FS_Singleton
<1>4. rec[q].state = "live" <=> \E p \in Pids : q \in children[p]
  BY DEF ProcessInv, FamilyInv
<1>5. CASE \E p \in Pids : q \in children[p]
  BY <1>1, <1>3, <1>4, <1>5
<1>6. CASE \A p \in Pids : q \notin children[p]
  <2>1. Cardinality(Parents(q)) = 0
    BY <1>2, <1>3, <1>6
  <2> QED
    BY <2>1, <1>4, <1>6
<1> QED
  BY <1>5, <1>6

\* A struct process is there as long as its process or its parent uses it, has
\* one parent, and is freed once, for any number of processes.
THEOREM RecordsInUse == Spec => []RecordInUse
<1>1. ASSUME ProcessInv PROVE RecordInUse
  <2>1. \A q \in Pids : pc[q] \notin {"none", "die", "dead"} /\ q # 1 => rec[q].state = "live"
    BY <1>1 DEF ProcessInv, LivesInv, Quiet
  <2>2. \A q \in Pids : rec[q].state = "live" <=> Cardinality(Parents(q)) = 1
    BY <1>1, OneParent
  <2>3. \A p \in Pids : pc[p] \in {"await", "wait"} => it[p] \in children[p]
    BY <1>1 DEF ProcessInv, WaitsInv
  <2> QED
    BY <2>1, <2>2, <2>3 DEF RecordInUse
<1> QED
  BY <1>1, ProcessAlways, PTL

-----------------------------------------------------------------------------

\* What processes hold: pages, arguments, files and file_lock.

Others == Threads \ {1}
Arguments == {p \in Pids : Argument(p)}

\* The initial thread never ends and calls no file.
MainInv == pc[1] \in {"run", "create", "await", "wait"}

\* Who is inside a file call holds file_lock.
InsideInv == \A p \in Pids : pc[p] \in {"call", "unlock"} => file_lock = p

PagesInv == pages + lost + Cardinality(Others) + Cardinality(Arguments) = Pool

HeldInv == MainInv /\ InsideInv /\ HolderInv /\ FilesInv /\ PagesInv

LEMMA Sizes ==
  /\ IsFiniteSet(Others) /\ Cardinality(Others) \in Nat
  /\ IsFiniteSet(Arguments) /\ Cardinality(Arguments) \in Nat
  /\ 1 \in Pids
<1>1. IsFiniteSet(Pids) /\ 1 \in Pids
  BY ProcessConstants, FS_Interval DEF Pids
<1>2. Others \in SUBSET Pids /\ Arguments \in SUBSET Pids
  BY DEF Others, Threads, Arguments
<1> QED
  BY <1>1, <1>2, FS_Subset, FS_CardinalityType

LEMMA HeldInit == Init => HeldInv
<1> SUFFICES ASSUME Init PROVE HeldInv
  OBVIOUS
<1>1. /\ \A q \in Pids : pc[q] = IF q = 1 THEN "run" ELSE "none"
      /\ file_lock = None /\ pages = Pool /\ lost = 0 /\ 1 \in Pids
  BY Sizes DEF Init
<1>2. Others = {} /\ Arguments = {}
  BY <1>1 DEF Others, Threads, Arguments, Argument
<1>3. Cardinality({}) = 0
  BY FS_EmptySet
<1>4. PagesInv
  BY <1>1, <1>2, <1>3, ProcessConstants DEF PagesInv
<1> QED
  BY <1>1, <1>4 DEF HeldInv, MainInv, InsideInv, HolderInv, FilesInv

\* A step that moves p only, and neither begins nor ends a thread or arguments.
LEMMA SameSizes ==
  ASSUME NEW p \in Pids, NEW l \in Labels, pc \in [Pids -> Labels],
         pc' = [pc EXCEPT ![p] = l],
         pc[p] \notin {"none", "dead", "create", "load"},
         l \notin {"none", "dead", "create", "load"}
  PROVE  Others' = Others /\ Arguments' = Arguments
<1>1. pc'[p] = l /\ \A q \in Pids : q # p => pc'[q] = pc[q]
  OBVIOUS
<1>2. Others' = Others
  BY <1>1 DEF Others, Threads
<1>3. Arguments' = Arguments
  BY <1>1 DEF Arguments, Argument
<1> QED
  BY <1>2, <1>3

LEMMA PagesKept ==
  ASSUME ProcessInv, HeldInv, panic = "no", NEW p \in Pids,
         KernelStep(p) \/ AcquireFile(p) \/ SystemCall(p)
  PROVE  PagesInv'
<1> USE DEF Goto, At, Labels, own_vars
<1>0. pc \in [Pids -> Labels] /\ pages \in Nat /\ lost \in Nat
  BY DEF ProcessInv, ProcessTypeOK, PlainTyped
<1>s. /\ PagesInv /\ Pool \in Nat
      /\ IsFiniteSet(Others) /\ Cardinality(Others) \in Nat
      /\ IsFiniteSet(Arguments) /\ Cardinality(Arguments) \in Nat
  BY Sizes, ProcessConstants DEF HeldInv
<1>m. pc[1] \in {"run", "create", "await", "wait"} /\ 1 \in Pids
  BY Sizes DEF HeldInv, MainInv
<1>1. CASE Execute(p)
  <2>1. Others' = Others
    BY <1>0, <1>1 DEF Execute, Others, Threads
  <2>2. Arguments' = Arguments \cup {p} /\ p \notin Arguments
    BY <1>0, <1>1 DEF Execute, Arguments, Argument
  <2>3. Cardinality(Arguments') = Cardinality(Arguments) + 1
    BY <2>2, <1>s, FS_AddElement
  <2>4. pages' = pages - 1 /\ lost' = lost
    BY <1>1 DEF Execute
  <2> QED
    BY <2>1, <2>3, <2>4, <1>s, <1>0 DEF PagesInv
<1>2. CASE RefuseArguments(p) \/ CreateFails(p) \/ Loaded(p)
  <2>0. PICK l \in {"run", "files"} : pc' = [pc EXCEPT ![p] = l]
    BY <1>2 DEF RefuseArguments, CreateFails, Loaded
  <2>00. pc[p] \in {"create", "load"}
    BY <1>2 DEF RefuseArguments, CreateFails, Loaded
  <2>1. Others' = Others
    BY <1>0, <2>0, <2>00 DEF Others, Threads
  <2>2. Arguments' = Arguments \ {p} /\ p \in Arguments
    BY <1>0, <2>0, <2>00 DEF Arguments, Argument
  <2>3. Cardinality(Arguments') = Cardinality(Arguments) - 1
    BY <2>2, <1>s, FS_RemoveElement
  <2>4. CASE pages' = pages + 1 /\ lost' = lost
    BY <2>1, <2>3, <2>4, <1>s, <1>0 DEF PagesInv
  <2>5. CASE pages' = pages /\ lost' = lost + 1
    BY <2>1, <2>3, <2>5, <1>s, <1>0 DEF PagesInv
  <2> QED
    BY <2>4, <2>5, <1>2 DEF RefuseArguments, CreateFails, Loaded
<1>3. CASE CreateThread(p)
  <2>0. PICK c \in Pids : c = next_pid
    BY <1>3, ProcessConstants DEF CreateThread, Pids, ProcessInv, ProcessTypeOK, PlainTyped
  <2>1. pc[p] = "create" /\ pc[c] = "none" /\ c # 1
    BY <1>3, <2>0, <1>m DEF CreateThread, ProcessInv, FreshInv, ProcessTypeOK, PlainTyped
  <2>2. pc' = [pc EXCEPT ![p] = "await", ![c] = "load"]
    BY <1>3, <2>0 DEF CreateThread
  <2>3. Others' = Others \cup {c} /\ c \notin Others
    BY <1>0, <2>1, <2>2 DEF Others, Threads
  <2>4. Arguments' = (Arguments \ {p}) \cup {c} /\ p \in Arguments /\ c \notin Arguments
    BY <1>0, <2>1, <2>2 DEF Arguments, Argument
  <2>5. Cardinality(Others') = Cardinality(Others) + 1
    BY <2>3, <1>s, FS_AddElement
  <2>6. IsFiniteSet(Arguments \ {p}) /\ Cardinality(Arguments \ {p}) = Cardinality(Arguments) - 1
    BY <2>4, <1>s, FS_RemoveElement
  <2>7. Cardinality((Arguments \ {p}) \cup {c}) = Cardinality(Arguments \ {p}) + 1
    BY <2>4, <2>6, FS_AddElement
  <2>8. pages' = pages - 1 /\ lost' = lost
    BY <1>3 DEF CreateThread
  <2> QED
    BY <2>4, <2>5, <2>6, <2>7, <2>8, <1>s, <1>0 DEF PagesInv
<1>4. CASE Die(p)
  <2>1. pc[p] = "die" /\ p # 1 /\ pc' = [pc EXCEPT ![p] = "dead"]
    BY <1>4, <1>m DEF Die
  <2>2. Others' = Others \ {p} /\ p \in Others
    BY <1>0, <2>1 DEF Others, Threads
  <2>3. Arguments' = Arguments
    BY <1>0, <2>1 DEF Arguments, Argument
  <2>4. Cardinality(Others') = Cardinality(Others) - 1
    BY <2>2, <1>s, FS_RemoveElement
  <2>5. pages' = pages + 1 /\ lost' = lost
    BY <1>4 DEF Die
  <2> QED
    BY <2>3, <2>4, <2>5, <1>s, <1>0 DEF PagesInv
<1>5. CASE \/ AwaitLoad(p) \/ Reap(p) \/ CloseFiles(p) \/ Orphans(p) \/ SetStatus(p) \/ Signal(p)
           \/ FileBody(p) \/ ReleaseFile(p) \/ AcquireFile(p) \/ Wait(p) \/ Exit(p) \/ FileCall(p)
  <2>1. pages' = pages /\ lost' = lost
    BY <1>5 DEF AwaitLoad, Reap, CloseFiles, Orphans, SetStatus, Signal, FileBody, ReleaseFile,
       AcquireFile, Wait, Exit, FileCall
  <2>2. pc[p] \notin {"none", "dead", "create", "load"}
    BY <1>5 DEF AwaitLoad, Reap, CloseFiles, Orphans, SetStatus, Signal, FileBody, ReleaseFile,
       AcquireFile, Wait, Exit, FileCall, InUser
  <2>3. \E l \in Labels : /\ pc' = [pc EXCEPT ![p] = l]
                          /\ l \notin {"none", "dead", "create", "load"}
    <3>1. CASE \/ AwaitLoad(p) \/ Reap(p) \/ CloseFiles(p) \/ SetStatus(p) \/ Signal(p)
               \/ ReleaseFile(p) \/ AcquireFile(p) \/ Exit(p) \/ FileCall(p)
      BY <3>1 DEF AwaitLoad, Reap, CloseFiles, SetStatus, Signal, ReleaseFile, AcquireFile,
         Exit, SetExit, FileCall
    <3>2. CASE Orphans(p)
      <4>1. pc' = [pc EXCEPT ![p] = "status"] \/ pc' = [pc EXCEPT ![p] = pc[p]]
        BY <3>2, <1>0 DEF Orphans
      <4> QED
        BY <4>1, <2>2, <1>0
    <3>3. CASE Wait(p)
      <4>1. pc' = [pc EXCEPT ![p] = "wait"] \/ pc' = [pc EXCEPT ![p] = pc[p]]
        BY <3>3, <1>0 DEF Wait
      <4> QED
        BY <4>1, <2>2, <1>0
    <3>4. CASE FileBody(p)
      <4>1. \/ pc' = [pc EXCEPT ![p] = "unlock"] \/ pc' = [pc EXCEPT ![p] = "files"]
            \/ pc' = [pc EXCEPT ![p] = pc[p]]
        BY <3>4, <1>0 DEF FileBody, Open, Close, Use, Fault, Seek, SetExit
      <4> QED
        BY <4>1, <2>2, <1>0
    <3> QED
      BY <1>5, <3>1, <3>2, <3>3, <3>4
  <2>4. Others' = Others /\ Arguments' = Arguments
    BY <2>2, <2>3, <1>0, SameSizes
  <2> QED
    BY <2>1, <2>4, <1>s DEF PagesInv
<1> QED
  BY <1>1, <1>2, <1>3, <1>4, <1>5 DEF KernelStep, SystemCall

LEMMA HoldersKept ==
  ASSUME ProcessInv, HeldInv, panic = "no", NEW p \in Pids,
         KernelStep(p) \/ AcquireFile(p) \/ SystemCall(p)
  PROVE  MainInv' /\ InsideInv' /\ HolderInv' /\ FilesInv'
<1> USE DEF Goto, At, Labels, own_vars, file_vars
<1>0. pc \in [Pids -> Labels] /\ file_lock \in Nat /\ files \in [Pids -> SUBSET Nat]
  BY DEF ProcessInv, ProcessTypeOK, PlainTyped
<1>i. /\ MainInv /\ InsideInv /\ HolderInv /\ FilesInv /\ 1 \in Pids
      /\ \A q \in Pids : q # None
  BY Sizes, ProcessConstants DEF HeldInv, Pids, None
<1> DEFINE Inside == {"call", "unlock"}
           Held == {"call", "unlock", "files", "orphans", "status", "signal", "die"}
           Closing == {"orphans", "status", "signal", "die", "dead"}
           Main == {"run", "create", "await", "wait"}
\* A step of p that leaves file_lock alone.
<1>k. ASSUME NEW l \in Labels, pc' = [pc EXCEPT ![p] = l],
             pc[p] \in Held => l \in Held, l \in Inside => pc[p] \in Inside,
             l \in Closing => files'[p] = {} \/ (pc[p] \in Closing /\ files'[p] = files[p]),
             \A q \in Pids : q # p => files'[q] = files[q],
             pc[p] \in Main /\ p = 1 => l \in Main, file_lock' = file_lock
      PROVE  MainInv' /\ InsideInv' /\ HolderInv' /\ FilesInv'
  <2>1. pc'[p] = l /\ \A q \in Pids : q # p => pc'[q] = pc[q]
    BY <1>k, <1>0
  <2>2. MainInv'
    BY <2>1, <1>k, <1>i DEF MainInv
  <2>3. InsideInv'
    BY <2>1, <1>k, <1>i DEF InsideInv
  <2>4. HolderInv'
    BY <2>1, <1>k, <1>i DEF HolderInv
  <2>5. FilesInv'
    BY <2>1, <1>k, <1>i DEF FilesInv
  <2> QED
    BY <2>2, <2>3, <2>4, <2>5
<1>1. CASE \/ RefuseArguments(p) \/ CreateFails(p) \/ AwaitLoad(p) \/ Reap(p) \/ SetStatus(p)
           \/ Signal(p) \/ Execute(p) \/ Exit(p) \/ FileCall(p)
  <2>1. UNCHANGED <<files, file_lock>>
    BY <1>1 DEF RefuseArguments, CreateFails, AwaitLoad, Reap, SetStatus, Signal, Execute, Exit,
       FileCall
  <2>2. \E l \in Labels :
          /\ pc' = [pc EXCEPT ![p] = l]
          /\ pc[p] \in Held => l \in Held
          /\ l \notin Inside
          /\ l \in Closing => pc[p] \in Closing
          /\ p = 1 => l \in Main
    BY <1>1, <1>i DEF RefuseArguments, CreateFails, AwaitLoad, Reap, SetStatus, Signal, Execute,
       Exit, SetExit, InUser, FileCall, MainInv
  <2> QED
    BY <2>1, <2>2, <1>k
<1>2. CASE CloseFiles(p)
  <2>1. /\ pc[p] = "files" /\ pc' = [pc EXCEPT ![p] = "orphans"] /\ file_lock' = file_lock
        /\ files'[p] = {} /\ \A q \in Pids : q # p => files'[q] = files[q]
    BY <1>2, <1>0 DEF CloseFiles, Closed
  <2> QED
    BY <2>1, <1>k
<1>3. CASE Orphans(p) \/ Wait(p)
  <2>1. UNCHANGED <<files, file_lock>>
    BY <1>3 DEF Orphans, Wait
  <2>2. CASE pc' = pc
    BY <2>1, <2>2, <1>i DEF MainInv, InsideInv, HolderInv, FilesInv
  <2>3. CASE pc[p] = "orphans" /\ pc' = [pc EXCEPT ![p] = "status"]
    BY <2>1, <2>3, <1>k
  <2>4. CASE pc[p] = "run" /\ pc' = [pc EXCEPT ![p] = "wait"]
    BY <2>1, <2>4, <1>k
  <2> QED
    BY <1>3, <2>2, <2>3, <2>4 DEF Orphans, Wait
<1>4. CASE FileBody(p)
  <2>0. pc[p] = "call" /\ p # 1 /\ file_lock' = file_lock
    BY <1>4, <1>i DEF FileBody, MainInv
  <2>1. /\ \A q \in Pids : q # p => files'[q] = files[q]
        /\ \/ pc' = [pc EXCEPT ![p] = "unlock"] \/ pc' = [pc EXCEPT ![p] = "files"]
           \/ pc' = [pc EXCEPT ![p] = "call"]
    <3>1. CASE Open(p)
      BY <3>1, <1>0 DEF Open, NewDescriptor
    <3>2. CASE Close(p) \/ Use(p) \/ Fault(p)
      BY <3>2, <1>0 DEF Close, Use, Fault
    <3>3. CASE Seek(p)
      <4>1. pc = [pc EXCEPT ![p] = "call"]
        BY <2>0, <1>0
      <4> QED
        BY <3>3, <4>1 DEF Seek, SetExit
    <3> QED
      BY <1>4, <3>1, <3>2, <3>3 DEF FileBody
  <2> QED
    BY <2>0, <2>1, <1>k
<1>5. CASE CreateThread(p)
  <2>0. PICK c \in Pids : c = next_pid
    BY <1>5, ProcessConstants DEF CreateThread, Pids, ProcessInv, ProcessTypeOK, PlainTyped
  <2>1. pc[p] = "create" /\ pc[c] = "none" /\ c # 1
    BY <1>5, <2>0, <1>i DEF CreateThread, MainInv, ProcessInv, FreshInv, ProcessTypeOK, PlainTyped
  <2>2. /\ pc' = [pc EXCEPT ![p] = "await", ![c] = "load"]
        /\ UNCHANGED <<files, file_lock>>
    BY <1>5, <2>0 DEF CreateThread
  <2>3. pc'[p] = "await" /\ pc'[c] = "load" /\ \A q \in Pids \ {p, c} : pc'[q] = pc[q]
    BY <2>1, <2>2, <1>0
  <2>4. MainInv'
    BY <2>1, <2>3, <1>i DEF MainInv
  <2>5. InsideInv'
    BY <2>1, <2>2, <2>3, <1>i DEF InsideInv
  <2>6. HolderInv'
    BY <2>1, <2>2, <2>3, <1>i DEF HolderInv
  <2>7. FilesInv'
    BY <2>1, <2>2, <2>3, <1>i DEF FilesInv
  <2> QED
    BY <2>4, <2>5, <2>6, <2>7
<1>6. CASE Die(p)
  <2>1. /\ pc[p] = "die" /\ p # 1 /\ files' = files
        /\ file_lock' = IF file_lock = p THEN None ELSE file_lock
        /\ pc'[p] = "dead" /\ \A q \in Pids : q # p => pc'[q] = pc[q]
    BY <1>6, <1>0, <1>i DEF Die, ReleasedLock, MainInv
  <2>2. MainInv' /\ FilesInv'
    BY <2>1, <1>i DEF MainInv, FilesInv
  <2>3. InsideInv'
    BY <2>1, <1>i DEF InsideInv
  <2>4. HolderInv'
    BY <2>1, <1>i DEF HolderInv
  <2> QED
    BY <2>2, <2>3, <2>4
<1>7. CASE AcquireFile(p)
  <2>1. /\ pc[p] = "lock" /\ p # 1 /\ files' = files /\ file_lock = None /\ file_lock' = p
        /\ pc'[p] = "call" /\ \A q \in Pids : q # p => pc'[q] = pc[q]
    BY <1>7, <1>0, <1>i DEF AcquireFile, MainInv
  <2>2. MainInv' /\ FilesInv'
    BY <2>1, <1>i DEF MainInv, FilesInv
  <2>3. InsideInv'
    BY <2>1, <1>i DEF InsideInv
  <2>4. HolderInv'
    BY <2>1 DEF HolderInv
  <2> QED
    BY <2>2, <2>3, <2>4
<1>8. CASE ReleaseFile(p)
  <2>1. /\ pc[p] = "unlock" /\ p # 1 /\ files' = files /\ file_lock' = None
        /\ pc'[p] = "run" /\ \A q \in Pids : q # p => pc'[q] = pc[q]
    BY <1>8, <1>0, <1>i DEF ReleaseFile, MainInv
  <2>2. MainInv' /\ FilesInv'
    BY <2>1, <1>i DEF MainInv, FilesInv
  <2>3. InsideInv' /\ HolderInv'
    BY <2>1, <1>i DEF InsideInv, HolderInv
  <2> QED
    BY <2>2, <2>3
<1>9. CASE Loaded(p)
  <2>1. pc[p] = "load" /\ p # 1 /\ file_lock' = file_lock
    BY <1>9, <1>i DEF Loaded, MainInv
  <2>2. \A q \in Pids : q # p => files'[q] = files[q]
    BY <1>9, <1>0 DEF Loaded, NewDescriptor
  <2>3. pc' = [pc EXCEPT ![p] = "run"] \/ pc' = [pc EXCEPT ![p] = "files"]
    BY <1>9 DEF Loaded
  <2> QED
    BY <2>1, <2>2, <2>3, <1>k
<1> QED
  BY <1>1, <1>2, <1>3, <1>4, <1>5, <1>6, <1>7, <1>8, <1>9 DEF KernelStep, SystemCall

LEMMA HeldStep == ProcessInv /\ HeldInv /\ [Next]_vars => HeldInv'
<1> SUFFICES ASSUME ProcessInv, HeldInv, [Next]_vars PROVE HeldInv'
  OBVIOUS
<1>1. CASE UNCHANGED vars
  BY <1>1 DEF vars, own_vars, file_vars, HeldInv, MainInv, InsideInv, HolderInv, FilesInv,
     PagesInv, Others, Threads, Arguments, Argument
<1>2. CASE Next
  <2>1. PICK p \in Pids : KernelStep(p) \/ AcquireFile(p) \/ SystemCall(p)
    BY <1>2 DEF Next
  <2>2. panic = "no"
    BY <1>2 DEF Next
  <2> QED
    BY <2>1, <2>2, PagesKept, HoldersKept DEF HeldInv
<1> QED
  BY <1>1, <1>2

\* However processes end, their pages, arguments, files and file_lock come back,
\* for any number of processes and pages, and so does the executable that load
\* has opened before it failed; only a failing thread_create loses a page.
THEOREM ProcessesLoseNothing == Spec => []NothingLost
<1>1. ASSUME ProcessInv, HeldInv PROVE NothingLost
  <2>1. file_lock # None => file_lock \in Threads
    BY <1>1 DEF HeldInv, HolderInv, Threads
  <2>2. \A p \in Pids : pc[p] = "dead" => files[p] = {}
    BY <1>1 DEF HeldInv, FilesInv
  <2> QED
    BY <1>1, <2>1, <2>2 DEF HeldInv, PagesInv, Others, Arguments, NothingLost
<1> QED
  BY <1>1, ProcessAlways, HeldInit, HeldStep, PTL DEF Spec

-----------------------------------------------------------------------------

\* Process implements Family.

\* By the time its parent is woken a process is DEAD, or FAIL if it could not load,
\* and it is not DEAD before.  The initial thread never ends.
KinInv ==
  /\ \A q \in Pids :
       /\ pc[q] \in {"signal", "die", "dead"} => rec[q].status # "RUN"
       /\ rec[q].status = "DEAD" => pc[q] \in {"signal", "die", "dead"}
       /\ rec[q].exit \in Codes \cup {-1}
  /\ 1 \in Pids /\ rec[1].status = "RUN" /\ pc[1] \in {"run", "create", "await", "wait"}

\* A process in user mode or in a call has been loaded and has not ended.
LEMMA Running ==
  ASSUME ProcessInv, KinInv, NEW p \in Pids,
         pc[p] \in {"run", "create", "await", "wait", "lock", "call", "unlock"}
  PROVE  rec[p].status = "RUN" /\ Stage(p) = "running"
<1>1. CASE p = 1
  BY <1>1 DEF KinInv, Stage
<1>2. CASE p # 1
  <2>1. rec[p].state = "live"
    BY <1>2 DEF ProcessInv, LivesInv, Quiet
  <2>2. rec[p].status = "RUN"
    BY <2>1 DEF ProcessInv, SemaInv
  <2> QED
    BY <2>2 DEF Stage
<1> QED
  BY <1>1, <1>2

\* A plain step sets at most the exit code of a process that runs.
LEMMA PlainKin ==
  ASSUME ProcessInv, KinInv, panic = "no", NEW p \in Pids,
         \/ RefuseArguments(p) \/ CreateFails(p) \/ CloseFiles(p) \/ Orphans(p) \/ FileBody(p)
         \/ ReleaseFile(p) \/ AcquireFile(p) \/ Execute(p) \/ Exit(p) \/ FileCall(p)
         \/ Wait(p) /\ panic' = "wait"
  PROVE  /\ PlainStep(p)
         /\ p # 1 \/ pc'[1] \in {"run", "create"}
         /\ \/ rec' = rec
            \/ \E c \in Codes \cup {-1} :
                 rec' = [rec EXCEPT ![p].exit = c] /\ rec[p].status = "RUN"
<1>t. ProcessTypeOK /\ PlainTyped
  BY DEF ProcessInv, ProcessTypeOK
<1>0. PlainStep(p)
  BY <1>t, PlainActions
<1>1. p # 1 \/ pc'[1] \in {"run", "create"}
  <2> SUFFICES ASSUME p = 1 PROVE pc'[1] \in {"run", "create"}
    OBVIOUS
  <2>1. pc[1] \in {"run", "create", "await", "wait"}
    BY DEF KinInv
  <2>2. \/ RefuseArguments(p) \/ CreateFails(p) \/ Execute(p) \/ (Wait(p) /\ panic' = "wait")
    BY <2>1 DEF CloseFiles, Orphans, FileBody, ReleaseFile, AcquireFile, Exit, FileCall, InUser, At
  <2>3. pc'[p] \in {"run", "create"}
    BY <2>2, <1>t DEF RefuseArguments, CreateFails, Execute, Wait, Goto, At, PlainTyped
  <2> QED
    BY <2>3
<1>2. CASE Exit(p)
  <2>1. PICK c \in Codes \cup {-1} : rec' = [rec EXCEPT ![p].exit = c]
    BY <1>2 DEF Exit, SetExit
  <2>2. rec[p].status = "RUN"
    BY <1>2, Running DEF Exit, InUser, At
  <2> QED
    BY <1>0, <1>1, <2>1, <2>2
<1>3. CASE FileBody(p)
  <2>1. rec' = rec \/ rec' = [rec EXCEPT ![p].exit = -1]
    BY <1>3 DEF FileBody, Open, Close, Use, Fault, Seek, SetExit
  <2>2. rec[p].status = "RUN"
    BY <1>3, Running DEF FileBody, At
  <2> QED
    BY <1>0, <1>1, <2>1, <2>2
<1>4. CASE \/ RefuseArguments(p) \/ CreateFails(p) \/ CloseFiles(p) \/ Orphans(p)
           \/ ReleaseFile(p) \/ AcquireFile(p) \/ Execute(p) \/ FileCall(p)
           \/ (Wait(p) /\ panic' = "wait")
  <2>1. rec' = rec
    BY <1>4 DEF RefuseArguments, CreateFails, CloseFiles, Orphans, ReleaseFile, AcquireFile,
                Execute, FileCall, Wait, own_vars
  <2> QED
    BY <1>0, <1>1, <2>1
<1> QED
  BY <1>2, <1>3, <1>4

\* What is seen of a process depends on its label, its child and its record.
LEMMA SameView ==
  ASSUME NEW q \in Pids, pc'[q] = pc[q], it'[q] = it[q], rec'[q] = rec[q]
  PROVE  Stage(q)' = Stage(q) /\ Ending(q)' = Ending(q) /\ CallOf(q)' = CallOf(q)
BY DEF Stage, Ending, CallOf

Stages == [q \in Pids |-> Stage(q)]
Endings == [q \in Pids |-> Ending(q)]
Calls == [q \in Pids |-> CallOf(q)]
View == <<Stages, Endings, children, Calls, told>>

\* A plain step is not seen.
LEMMA PlainUnseen ==
  ASSUME ProcessInv, KinInv, NEW p \in Pids, PlainStep(p),
         p # 1 \/ pc'[1] \in {"run", "create"},
         \/ rec' = rec
         \/ \E c \in Codes \cup {-1} :
              rec' = [rec EXCEPT ![p].exit = c] /\ rec[p].status = "RUN"
  PROVE  KinInv' /\ View' = View
<1>1. PICK l \in Labels : PlainMove(p, l)
  BY DEF PlainStep
<1>2. /\ pc[p] \in Own /\ l \in Own \cup {"status"}
      /\ pc'[p] = l /\ \A q \in Pids : q # p => pc'[q] = pc[q]
      /\ \A q \in Pids : q # p => it'[q] = it[q]
  BY <1>1 DEF PlainStep, PlainMove, ProcessInv, ProcessTypeOK, PlainTyped
<1>3. /\ \A q \in Pids : rec'[q].status = rec[q].status
      /\ \A q \in Pids : q # p => rec'[q] = rec[q]
      /\ rec'[p] = rec[p] \/ rec[p].status = "RUN"
      /\ rec'[p].exit \in Codes \cup {-1}
  BY DEF ProcessInv, ProcessTypeOK, RecTyped, RecSet, KinInv
<1>4. ASSUME NEW q \in Pids
      PROVE  Stage(q)' = Stage(q) /\ Ending(q)' = Ending(q) /\ CallOf(q)' = CallOf(q)
  <2>1. CASE q # p
    BY <2>1, <1>2, <1>3, SameView
  <2>2. CASE q = p
    <3>1. CallOf(q) = <<>> /\ CallOf(q)' = <<>>
      BY <2>2, <1>2 DEF CallOf, Own
    <3>2. /\ pc[q] \notin {"none", "load"} /\ pc'[q] \notin {"none", "load"}
          /\ rec'[q].status = rec[q].status
      BY <2>2, <1>2, <1>3 DEF Own
    <3>3. Stage(q)' = Stage(q)
      BY <3>2 DEF Stage
    <3>4. rec[q].status = "RUN" => Stage(q) # "ended"
      BY <3>2 DEF Stage
    <3> QED
      BY <2>2, <1>3, <3>1, <3>3, <3>4 DEF Ending
  <2> QED
    BY <2>1, <2>2
<1>5. KinInv'
  <2>1. \A q \in Pids : pc'[q] \in {"signal", "die", "dead"} <=> pc[q] \in {"signal", "die", "dead"}
    BY <1>2 DEF Own
  <2>2. \A q \in Pids : rec'[q].exit \in Codes \cup {-1}
    BY <1>3 DEF KinInv
  <2>3. rec'[1].status = "RUN" /\ pc'[1] \in {"run", "create", "await", "wait"}
    BY <1>2, <1>3 DEF KinInv
  <2> QED
    BY <1>3, <2>1, <2>2, <2>3 DEF KinInv
<1> QED
  BY <1>4, <1>5 DEF View, Stages, Endings, Calls, PlainStep

\* thread_create is Execute.
LEMMA CreateSeen ==
  ASSUME ProcessInv, KinInv, panic = "no", NEW p \in Pids, CreateThread(p)
  PROVE  KinInv' /\ \E c \in Pids : Kin!Execute(p, c)
<1>0. PICK c \in Pids : c = next_pid
  BY ProcessConstants DEF CreateThread, Pids, ProcessInv, ProcessTypeOK, PlainTyped
<1>1. /\ pc[p] = "create" /\ pc[c] = "none" /\ c # p /\ c # 1
  BY <1>0 DEF CreateThread, At, ProcessInv, FreshInv, ProcessTypeOK, PlainTyped
<1>2. /\ pc'[p] = "await" /\ pc'[c] = "load" /\ it'[p] = c
      /\ \A q \in Pids \ {p, c} : pc'[q] = pc[q] /\ it'[q] = it[q]
  BY <1>0, <1>1 DEF CreateThread, ProcessInv, ProcessTypeOK, PlainTyped
<1>3. rec'[c] = NewRecord /\ \A q \in Pids \ {c} : rec'[q] = rec[q]
  BY <1>0 DEF CreateThread, ProcessInv, ProcessTypeOK, RecTyped
<1>4. children' = [children EXCEPT ![p] = @ \cup {c}] /\ told' = told
  BY <1>0 DEF CreateThread
<1>5. NewRecord.status = "RUN" /\ NewRecord.exit = -1
  BY DEF NewRecord, Absent
<1>6. Stage(p) = "running" /\ rec[p].status = "RUN"
  BY <1>1, Running
<1>7. /\ Stage(p)' = "running" /\ Ending(p)' = {} /\ Ending(p) = {}
      /\ CallOf(p) = <<>> /\ CallOf(p)' = <<"execute", c>>
  BY <1>1, <1>2, <1>3, <1>6 DEF Stage, Ending, CallOf
<1>8. /\ Stage(c) = "unborn" /\ Stage(c)' = "loading" /\ Ending(c)' = {} /\ Ending(c) = {}
      /\ CallOf(c) = <<>> /\ CallOf(c)' = <<>>
  <2>0. pc[c] = "none" /\ pc'[c] = "load"
    BY <1>1, <1>2
  <2>1. Stage(c) = "unborn" /\ Stage(c)' = "loading"
    BY <2>0 DEF Stage
  <2>2. Ending(c)' = {} /\ Ending(c) = {}
    BY <2>1 DEF Ending
  <2>3. CallOf(c) = <<>> /\ CallOf(c)' = <<>>
    BY <1>1, <1>2 DEF CallOf
  <2> QED
    BY <2>1, <2>2, <2>3
<1>9. \A q \in Pids \ {p, c} :
        Stage(q)' = Stage(q) /\ Ending(q)' = Ending(q) /\ CallOf(q)' = CallOf(q)
  BY <1>2, <1>3, SameView
<1>10. /\ Stages' = [Stages EXCEPT ![c] = "loading"]
       /\ Endings' = Endings
       /\ Calls' = [Calls EXCEPT ![p] = <<"execute", c>>]
       /\ Stages[p] = "running" /\ Stages[c] = "unborn" /\ Calls[p] = <<>>
  <2>1. Stages' = [Stages EXCEPT ![c] = "loading"]
    BY <1>6, <1>7, <1>8, <1>9 DEF Stages
  <2>2. Endings' = Endings
    BY <1>7, <1>8, <1>9 DEF Endings
  <2>3. Calls' = [Calls EXCEPT ![p] = <<"execute", c>>]
    BY <1>7, <1>8, <1>9 DEF Calls
  <2>4. Stages[p] = "running" /\ Stages[c] = "unborn" /\ Calls[p] = <<>>
    BY <1>6, <1>7, <1>8 DEF Stages, Calls
  <2> QED
    BY <2>1, <2>2, <2>3, <2>4
<1>11. Kin!Execute(p, c)
  BY <1>4, <1>10 DEF Kin!Execute, Kin!Call, Kin!Free, Kin!Idle, Stages, Endings, Calls
<1>12. KinInv'
  <2>1. \A q \in Pids \ {p, c} : pc'[q] = pc[q] /\ rec'[q] = rec[q]
    BY <1>2, <1>3
  <2> QED
    BY <2>1, <1>1, <1>2, <1>3, <1>5, <1>6 DEF KinInv
<1> QED
  BY <1>11, <1>12

\* The end of load, the end of a process, and what follows it.
LEMMA EndSeen ==
  ASSUME ProcessInv, KinInv, panic = "no", NEW p \in Pids,
         Loaded(p) \/ SetStatus(p) \/ Signal(p) \/ Die(p)
  PROVE  KinInv' /\ (Kin!Load(p) \/ Kin!End(p) \/ View' = View)
<1>0. /\ pc \in [Pids -> Labels] /\ rec \in [Pids -> RecSet] /\ rec[p] \in RecSet
      /\ children \in [Pids -> SUBSET Pids]
  BY RecTypes DEF ProcessInv, ProcessTypeOK, PlainTyped, RecTyped
<1>1. /\ UNCHANGED <<it, children, told>> /\ p # 1
      /\ \A q \in Pids \ {p} : pc'[q] = pc[q] /\ it'[q] = it[q] /\ rec'[q] = rec[q]
      /\ rec'[p].exit = rec[p].exit
  <2>1. UNCHANGED <<it, children, told>>
    BY DEF Loaded, SetStatus, Signal, Die
  <2>2. p # 1
    BY DEF Loaded, SetStatus, Signal, Die, At, KinInv
  <2>3. \A q \in Pids \ {p} : pc'[q] = pc[q]
    BY <1>0 DEF Loaded, SetStatus, Signal, Die, Goto
  <2>4. rec'[p].exit = rec[p].exit /\ \A q \in Pids \ {p} : rec'[q] = rec[q]
    BY <1>0 DEF Loaded, SetStatus, Signal, Die, RecSet
  <2> QED
    BY <2>1, <2>2, <2>3, <2>4
<1>2. \A q \in Pids \ {p} :
        Stage(q)' = Stage(q) /\ Ending(q)' = Ending(q) /\ CallOf(q)' = CallOf(q)
  BY <1>1, SameView
<1>v. ASSUME Stage(p)' = Stage(p), Ending(p)' = Ending(p), CallOf(p)' = CallOf(p)
      PROVE  View' = View
  <2>1. \A q \in Pids :
          Stage(q)' = Stage(q) /\ Ending(q)' = Ending(q) /\ CallOf(q)' = CallOf(q)
    BY <1>2, <1>v
  <2>2. Stages' = Stages /\ Endings' = Endings /\ Calls' = Calls
    BY <2>1 DEF Stages, Endings, Calls
  <2> QED
    BY <1>1, <2>2 DEF View
<1>3. ASSUME /\ pc'[p] \in {"signal", "die", "dead"} => rec'[p].status # "RUN"
             /\ rec'[p].status = "DEAD" => pc'[p] \in {"signal", "die", "dead"}
      PROVE  KinInv'
  BY <1>1, <1>3 DEF KinInv
<1>4. CASE Loaded(p)
  <2>1. /\ pc[p] = "load" /\ rec[p].status # "DEAD"
        /\ \/ pc'[p] = "run" /\ rec'[p].status = rec[p].status
           \/ pc'[p] = "files" /\ rec'[p].status = "FAIL"
    BY <1>0, <1>4 DEF Loaded, Goto, At, RecSet, KinInv
  <2>2. rec[p].status = "RUN"
    BY <2>1, <1>1 DEF ProcessInv, LivesInv, SemaInv, Quiet
  <2>3. /\ Stage(p) = "loading" /\ Stage(p)' \in {"running", "failed"}
        /\ Ending(p) = {} /\ Ending(p)' = {} /\ CallOf(p) = <<>> /\ CallOf(p)' = <<>>
    BY <2>1, <2>2 DEF Stage, Ending, CallOf
  <2>4. /\ Stages[p] = "loading" /\ \E s \in {"running", "failed"} : Stages' = [Stages EXCEPT ![p] = s]
        /\ Endings' = Endings /\ Calls' = Calls
    BY <1>2, <2>3 DEF Stages, Endings, Calls
  <2>5. Kin!Load(p)
    BY <1>1, <2>4 DEF Kin!Load, Stages, Endings, Calls
  <2> QED
    BY <1>3, <2>1, <2>2, <2>5
<1>5. CASE SetStatus(p)
  <2>1. /\ pc[p] = "status" /\ pc'[p] = "signal" /\ rec[p].status # "DEAD"
        /\ rec'[p].status = IF rec[p].status = "RUN" THEN "DEAD" ELSE rec[p].status
    BY <1>0, <1>5 DEF SetStatus, StatusAtExit, Goto, At, RecSet, KinInv
  <2>2. children[p] = {}
    BY <2>1 DEF ProcessInv, FamilyInv
  <2>3. CallOf(p) = <<>> /\ CallOf(p)' = <<>> /\ Ending(p) = {}
    BY <2>1 DEF CallOf, Ending, Stage
  <2>4. CASE rec[p].status = "RUN"
    <3>1. /\ Stage(p) = "running" /\ Stage(p)' = "ended"
          /\ Ending(p)' = {rec[p].exit} /\ rec[p].exit \in Codes \cup {-1}
      BY <2>1, <2>4, <1>1 DEF Stage, Ending, KinInv
    <3>2. /\ Stages[p] = "running" /\ Calls[p] = <<>> /\ Calls' = Calls
          /\ Stages' = [Stages EXCEPT ![p] = "ended"]
          /\ \E c \in Codes \cup {-1} : Endings' = [Endings EXCEPT ![p] = {c}]
      BY <1>2, <2>3, <3>1 DEF Stages, Endings, Calls
    <3>3. Kin!End(p)
      BY <1>1, <2>2, <3>2 DEF Kin!End, Kin!Free, Kin!Idle, Stages, Endings, Calls
    <3> QED
      BY <1>3, <2>1, <2>4, <3>3
  <2>5. CASE rec[p].status # "RUN"
    <3>1. Stage(p) = Stage(p)' /\ Ending(p)' = {}
      BY <2>1, <2>5 DEF Stage, Ending
    <3>2. View' = View
      BY <1>v, <2>3, <3>1
    <3> QED
      BY <1>3, <2>1, <2>5, <3>2
  <2> QED
    BY <2>4, <2>5
<1>6. CASE Signal(p) \/ Die(p)
  <2>1. /\ pc[p] \in {"signal", "die"} /\ pc'[p] \in {"die", "dead"}
        /\ rec'[p].status = rec[p].status
    BY <1>0, <1>6 DEF Signal, Die, Goto, At, RecSet
  <2>2. Stage(p)' = Stage(p) /\ CallOf(p) = <<>> /\ CallOf(p)' = <<>>
    BY <2>1 DEF Stage, CallOf
  <2>3. Ending(p)' = Ending(p)
    BY <1>1, <2>2 DEF Ending
  <2>4. View' = View
    BY <1>v, <2>2, <2>3
  <2>5. rec[p].status # "RUN"
    BY <2>1 DEF KinInv
  <2> QED
    BY <1>3, <2>1, <2>4, <2>5
<1> QED
  BY <1>4, <1>5, <1>6

\* process_execute returns.
LEMMA AwaitSeen ==
  ASSUME ProcessInv, KinInv, panic = "no", NEW p \in Pids, AwaitLoad(p)
  PROVE  KinInv' /\ (Kin!Started(p, it[p]) \/ Kin!Refused(p, it[p]))
<1>0. PICK c \in Pids : c = it[p]
  BY ChildFacts DEF AwaitLoad, At
<1>1. /\ pc[p] = "await" /\ rec[c].sema > 0 /\ c # p /\ c # 1 /\ c \in children[p]
      /\ rec[c].state = "live" /\ SemaOf(c)
  BY <1>0, ChildFacts DEF AwaitLoad, At
<1>2. pc[c] \notin {"none", "load"}
  <2>1. pc[c] # "load"
    BY <1>1 DEF SemaOf
  <2>2. pc[c] # "none"
    BY <1>1 DEF ProcessInv, FreshInv
  <2> QED
    BY <2>1, <2>2
<1>3. /\ pc'[p] = "run" /\ it'[p] = None
      /\ \A q \in Pids \ {p} : pc'[q] = pc[q] /\ it'[q] = it[q]
      /\ told' = told
  BY DEF AwaitLoad, Goto, ProcessInv, ProcessTypeOK, PlainTyped
<1>4. /\ rec'[c].status = rec[c].status /\ rec'[c].exit = rec[c].exit
      /\ \A q \in Pids \ {c} : rec'[q] = rec[q]
  BY <1>0 DEF AwaitLoad, Removed, Downed, ProcessInv, ProcessTypeOK, RecTyped, RecSet
<1>5. Stage(p) = "running" /\ rec[p].status = "RUN"
  BY <1>1, Running
<1>6. /\ Stage(p)' = "running" /\ Ending(p)' = {} /\ Ending(p) = {}
      /\ CallOf(p) = <<"execute", c>> /\ CallOf(p)' = <<>>
  BY <1>0, <1>1, <1>3, <1>4, <1>5 DEF Stage, Ending, CallOf
<1>7. Stage(c)' = Stage(c) /\ Ending(c)' = Ending(c) /\ CallOf(c)' = CallOf(c)
  <2>1. pc'[c] = pc[c] /\ it'[c] = it[c]
    BY <1>1, <1>3
  <2> QED
    BY <2>1, <1>4 DEF Stage, Ending, CallOf
<1>8. \A q \in Pids \ {p, c} :
        Stage(q)' = Stage(q) /\ Ending(q)' = Ending(q) /\ CallOf(q)' = CallOf(q)
  BY <1>3, <1>4, SameView
<1>9. /\ Stages' = Stages /\ Endings' = Endings
      /\ Calls[p] = <<"execute", c>> /\ Calls' = [Calls EXCEPT ![p] = <<>>]
      /\ Stages[c] = Stage(c)
  <2>1. Stages' = Stages /\ Stages[c] = Stage(c)
    BY <1>5, <1>6, <1>7, <1>8 DEF Stages
  <2>2. Endings' = Endings
    BY <1>6, <1>7, <1>8 DEF Endings
  <2>3. Calls[p] = <<"execute", c>> /\ Calls' = [Calls EXCEPT ![p] = <<>>]
    BY <1>6, <1>7, <1>8 DEF Calls
  <2> QED
    BY <2>1, <2>2, <2>3
<1>10. KinInv'
  <2>1. \A q \in Pids \ {p} : pc'[q] = pc[q]
    BY <1>3
  <2>2. \A q \in Pids : rec'[q].status = rec[q].status /\ rec'[q].exit = rec[q].exit
    BY <1>4
  <2> QED
    BY <2>1, <2>2, <1>1, <1>3, <1>5 DEF KinInv
<1>11. CASE rec[c].status = "FAIL"
  <2>1. Stage(c) = "failed"
    BY <1>2, <1>11 DEF Stage
  <2>2. children' = [children EXCEPT ![p] = @ \ {c}]
    BY <1>0, <1>11 DEF AwaitLoad, Removed
  <2>3. Kin!Refused(p, c)
    BY <1>3, <1>9, <2>1, <2>2
    DEF Kin!Refused, Kin!Return, Kin!Parted, Kin!Idle, Stages, Endings, Calls
  <2> QED
    BY <1>0, <1>10, <2>3
<1>12. CASE rec[c].status # "FAIL"
  <2>1. Stage(c) \in {"running", "ended"}
    BY <1>2, <1>12 DEF Stage
  <2>2. children' = children
    BY <1>0, <1>12 DEF AwaitLoad
  <2>3. Kin!Started(p, c)
    BY <1>3, <1>9, <2>1, <2>2 DEF Kin!Started, Kin!Return, Kin!Idle, Stages, Endings, Calls
  <2> QED
    BY <1>0, <1>10, <2>3
<1> QED
  BY <1>11, <1>12

\* process_wait finds a child.
LEMMA WaitSeen ==
  ASSUME ProcessInv, KinInv, panic = "no", NEW p \in Pids, Wait(p), panic' = panic
  PROVE  KinInv' /\ \E c \in Pids : Kin!Wait(p, c)
<1>1. PICK c \in children[p] : Goto(p, "wait") /\ it' = [it EXCEPT ![p] = c]
  BY DEF Wait
<1>2. /\ pc[p] = "run" /\ pc'[p] = "wait" /\ it'[p] = c /\ c \in Pids
      /\ \A q \in Pids \ {p} : pc'[q] = pc[q] /\ it'[q] = it[q]
      /\ UNCHANGED <<rec, children, told>>
  BY <1>1 DEF Wait, At, Goto, own_vars, ProcessInv, ProcessTypeOK, PlainTyped
<1>3. Stage(p) = "running" /\ rec[p].status = "RUN"
  BY <1>2, Running
<1>4. /\ Stage(p)' = "running" /\ Ending(p)' = {} /\ Ending(p) = {}
      /\ CallOf(p) = <<>> /\ CallOf(p)' = <<"wait", c>>
  BY <1>2, <1>3 DEF Stage, Ending, CallOf
<1>5. \A q \in Pids \ {p} :
        Stage(q)' = Stage(q) /\ Ending(q)' = Ending(q) /\ CallOf(q)' = CallOf(q)
  BY <1>2, SameView
<1>6. Stages' = Stages /\ Stages[p] = "running"
  BY <1>3, <1>4, <1>5 DEF Stages
<1>7. Endings' = Endings
  BY <1>4, <1>5 DEF Endings
<1>8. Calls[p] = <<>> /\ Calls' = [Calls EXCEPT ![p] = <<"wait", c>>]
  BY <1>4, <1>5 DEF Calls
<1>9. Kin!Wait(p, c)
  BY <1>1, <1>2, <1>6, <1>7, <1>8
  DEF Kin!Wait, Kin!Call, Kin!Free, Kin!Idle, Stages, Endings, Calls
<1>10. KinInv'
  BY <1>2, <1>3 DEF KinInv
<1> QED
  BY <1>2, <1>9, <1>10

\* process_wait returns.
LEMMA ReapSeen ==
  ASSUME ProcessInv, KinInv, panic = "no", NEW p \in Pids, Reap(p)
  PROVE  KinInv' /\ Kin!Collect(p, it[p])
<1>0. PICK c \in Pids : c = it[p]
  BY ChildFacts DEF Reap, At
<1>1. /\ pc[p] = "wait" /\ rec[c].sema > 0 /\ c # p /\ c # 1
      /\ SemaOf(c) /\ ~Awaited(c)
  BY <1>0, ChildFacts DEF Reap, At
<1>2. pc[c] \in {"die", "dead"} /\ rec[c].status = "DEAD"
  <2>1. Quiet(c)
    BY <1>1 DEF SemaOf, Count
  <2>2. rec[c].status \notin {"FAIL", "RUN"}
    BY <1>1, <2>1 DEF SemaOf, KinInv, Quiet
  <2> QED
    BY <2>1, <2>2, RecTypes DEF Quiet, ProcessInv, ProcessTypeOK
<1>3. /\ pc'[p] = "run" /\ it'[p] = None
      /\ \A q \in Pids \ {p} : pc'[q] = pc[q] /\ it'[q] = it[q]
  BY DEF Reap, Goto, ProcessInv, ProcessTypeOK, PlainTyped
<1>4. /\ rec'[c].status = rec[c].status /\ rec'[c].exit = rec[c].exit
      /\ \A q \in Pids \ {c} : rec'[q] = rec[q]
  BY <1>0 DEF Reap, Removed, ProcessInv, ProcessTypeOK, RecTyped, RecSet
<1>5. Stage(p) = "running" /\ rec[p].status = "RUN"
  BY <1>1, Running
<1>6. /\ Stage(p)' = "running" /\ Ending(p)' = {} /\ Ending(p) = {}
      /\ CallOf(p) = <<"wait", c>> /\ CallOf(p)' = <<>>
  BY <1>0, <1>1, <1>3, <1>4, <1>5 DEF Stage, Ending, CallOf
<1>7. /\ Stage(c)' = Stage(c) /\ Ending(c)' = Ending(c) /\ CallOf(c)' = CallOf(c)
      /\ Stage(c) = "ended" /\ Ending(c) = {rec[c].exit}
  <2>1. pc'[c] = pc[c] /\ it'[c] = it[c]
    BY <1>1, <1>3
  <2>2. Stage(c) = "ended" /\ Stage(c)' = "ended"
    BY <1>2, <1>4, <2>1 DEF Stage
  <2>3. Ending(c) = {rec[c].exit} /\ Ending(c)' = {rec[c].exit}
    BY <1>4, <2>2 DEF Ending
  <2> QED
    BY <2>1, <2>2, <2>3 DEF CallOf
<1>8. \A q \in Pids \ {p, c} :
        Stage(q)' = Stage(q) /\ Ending(q)' = Ending(q) /\ CallOf(q)' = CallOf(q)
  BY <1>3, <1>4, SameView
<1>9. Stages' = Stages /\ Stages[c] = "ended"
  BY <1>5, <1>6, <1>7, <1>8 DEF Stages
<1>10. Endings' = Endings /\ Endings[c] = {rec[c].exit}
  BY <1>6, <1>7, <1>8 DEF Endings
<1>11. Calls[p] = <<"wait", c>> /\ Calls' = [Calls EXCEPT ![p] = <<>>]
  BY <1>6, <1>7, <1>8 DEF Calls
<1>12. /\ children' = [children EXCEPT ![p] = @ \ {c}]
       /\ told' = [told EXCEPT ![c] = Append(@, rec[c].exit)]
  BY <1>0 DEF Reap, Removed
<1>13. Kin!Collect(p, c)
  BY <1>9, <1>10, <1>11, <1>12
  DEF Kin!Collect, Kin!Return, Kin!Parted, Kin!Idle, Stages, Endings, Calls
<1>14. KinInv'
  <2>1. \A q \in Pids \ {p} : pc'[q] = pc[q]
    BY <1>3
  <2>2. \A q \in Pids : rec'[q].status = rec[q].status /\ rec'[q].exit = rec[q].exit
    BY <1>4
  <2> QED
    BY <2>1, <2>2, <1>1, <1>3, <1>5 DEF KinInv
<1> QED
  BY <1>0, <1>13, <1>14

LEMMA KinInit == Init => KinInv /\ Kin!Init
<1> SUFFICES ASSUME Init PROVE KinInv /\ Kin!Init
  OBVIOUS
<1>1. /\ \A q \in Pids : pc[q] = (IF q = 1 THEN "run" ELSE "none") /\ it[q] = None
      /\ \A q \in Pids : rec[q].status = "RUN" /\ rec[q].exit = -1
      /\ children = [q \in Pids |-> {}] /\ told = [q \in Pids |-> <<>>]
  BY DEF Init, Absent
<1>2. 1 \in Pids
  BY ProcessConstants DEF Pids
<1>3. KinInv
  BY <1>1, <1>2 DEF KinInv
<1>4. \A q \in Pids : /\ Stage(q) = IF q = 1 THEN "running" ELSE "unborn"
                      /\ CallOf(q) = <<>>
  BY <1>1 DEF Stage, CallOf
<1>5. \A q \in Pids : Ending(q) = {}
  BY <1>4 DEF Ending
<1>6. Kin!Init
  BY <1>1, <1>4, <1>5 DEF Kin!Init, Kin!Idle
<1> QED
  BY <1>3, <1>6

LEMMA KinStep == ProcessInv /\ KinInv /\ [Next]_vars => KinInv' /\ [Kin!Next]_(Kin!family_vars)
<1> SUFFICES ASSUME ProcessInv, KinInv, [Next]_vars
             PROVE  KinInv' /\ [Kin!Next]_(Kin!family_vars)
  OBVIOUS
<1>0. View' = View => [Kin!Next]_(Kin!family_vars)
  BY DEF View, Stages, Endings, Calls, Kin!family_vars
<1>1. CASE UNCHANGED vars
  <2>1. UNCHANGED <<pc, it, rec, children, told>>
    BY <1>1 DEF vars, own_vars
  <2>2. KinInv'
    BY <2>1 DEF KinInv
  <2>3. View' = View
    BY <2>1 DEF View, Stages, Endings, Calls, Stage, Ending, CallOf
  <2> QED
    BY <1>0, <2>2, <2>3
<1>2. CASE Next
  <2>0. panic = "no"
    BY <1>2 DEF Next
  <2>1. PICK p \in Pids : KernelStep(p) \/ AcquireFile(p) \/ SystemCall(p)
    BY <1>2 DEF Next
  <2>2. CASE \/ RefuseArguments(p) \/ CreateFails(p) \/ CloseFiles(p) \/ Orphans(p)
             \/ FileBody(p) \/ ReleaseFile(p) \/ AcquireFile(p) \/ Execute(p) \/ Exit(p)
             \/ FileCall(p) \/ (Wait(p) /\ panic' = "wait")
    BY <1>0, <2>0, <2>2, PlainKin, PlainUnseen
  <2>3. CASE Wait(p) /\ panic' = panic
    <3>1. KinInv' /\ \E c \in Pids : Kin!Wait(p, c)
      BY <2>0, <2>3, WaitSeen
    <3> QED
      BY <3>1 DEF Kin!Next
  <2>4. CASE CreateThread(p)
    <3>1. KinInv' /\ \E c \in Pids : Kin!Execute(p, c)
      BY <2>0, <2>4, CreateSeen
    <3> QED
      BY <3>1 DEF Kin!Next
  <2>5. CASE AwaitLoad(p)
    <3>1. KinInv' /\ (Kin!Started(p, it[p]) \/ Kin!Refused(p, it[p]))
      BY <2>0, <2>5, AwaitSeen
    <3>2. it[p] \in Pids
      BY <2>5, ChildFacts DEF AwaitLoad, At
    <3> QED
      BY <3>1, <3>2 DEF Kin!Next
  <2>6. CASE Reap(p)
    <3>1. KinInv' /\ Kin!Collect(p, it[p])
      BY <2>0, <2>6, ReapSeen
    <3>2. it[p] \in Pids
      BY <2>6, ChildFacts DEF Reap, At
    <3> QED
      BY <3>1, <3>2 DEF Kin!Next
  <2>7. CASE Loaded(p) \/ SetStatus(p) \/ Signal(p) \/ Die(p)
    <3>1. KinInv' /\ (Kin!Load(p) \/ Kin!End(p) \/ View' = View)
      BY <2>0, <2>7, EndSeen
    <3> QED
      BY <1>0, <3>1 DEF Kin!Next
  <2>8. Wait(p) => panic' = "wait" \/ panic' = panic
    BY DEF Wait
  <2> QED
    BY <2>1, <2>2, <2>3, <2>4, <2>5, <2>6, <2>7, <2>8 DEF KernelStep, SystemCall
<1> QED
  BY <1>1, <1>2

\* process_execute and process_wait keep what Family promises, for any number of
\* processes: the first returns after the load and says whether it failed, the
\* second returns after the end with the exit code.
THEOREM ProcessesKeepContract == Spec => FamilyContract
<1>1. Init => KinInv /\ Kin!Init
  BY KinInit
<1>2. ProcessInv /\ KinInv /\ [Next]_vars => KinInv' /\ [Kin!Next]_(Kin!family_vars)
  BY KinStep
<1> QED
  BY <1>1, <1>2, ProcessAlways, PTL DEF Spec, FamilyContract, Kin!Spec

=============================================================================
