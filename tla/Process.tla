------------------------------ MODULE Process ------------------------------
(***************************************************************************)
(* Processes with struct process (Project 3/Original Files/process.c) and  *)
(* the system calls on them and on files (Project 3/userprog/syscall.c).   *)
(* Semaphores and file_lock are what Synch shows them to be.  A struct     *)
(* process and its thread have the name of its pid; status_lock is never   *)
(* contended, because only the process itself ever gets to it.             *)
(***************************************************************************)
EXTENDS Integers, Sequences, FiniteSets

CONSTANTS
  MaxPid,  \* bound: pids are given out up to this one; 1 is the initial thread
  MaxFd,   \* bound: a process opens files up to this descriptor
  Pool,    \* pages of the kernel pool
  Codes    \* arguments of exit

ASSUME ProcessConstants ==
  MaxPid \in Nat \ {0} /\ MaxFd \in Nat /\ Pool \in Nat /\ Codes \subseteq Int

Pids == 1 .. MaxPid
None == 0

VARIABLES
  pc,         \* where the thread is
  it,         \* the child, or the descriptor, that the thread deals with
  op,         \* the file call the thread is in
  rec,        \* struct process
  children,   \* of the thread; their order is never used
  files,      \* open descriptors of the thread
  fd,         \* the next descriptor of the thread
  file_lock,  \* its holder
  pages,      \* free pages of the pool
  next_pid,
  panic,      \* why the kernel has stopped, or "no"
  final,      \* history: the code that the process has exited with
  told,       \* history: what process_wait has returned of the process
  lost        \* history: argument pages that process_execute has lost

own_vars == <<rec, children, next_pid, pages, lost>>
file_vars == <<files, fd, file_lock>>
vars == <<pc, it, op, own_vars, file_vars, panic, final, told>>

Record == [state : {"none", "live", "freed"}, status : {"FAIL", "RUN", "DEAD"},
           exit : Codes \cup {-1}, sema : Nat]

Absent == [state |-> "none", status |-> "RUN", exit |-> -1, sema |-> 0]

\* thread_create's struct process.
NewRecord == [Absent EXCEPT !.state = "live"]

Init ==
  /\ pc = [p \in Pids |-> IF p = 1 THEN "run" ELSE "none"]
  /\ it = [p \in Pids |-> None]
  /\ op = [p \in Pids |-> "none"]
  /\ rec = [p \in Pids |-> Absent]
  /\ children = [p \in Pids |-> {}]
  /\ files = [p \in Pids |-> {}]
  /\ fd = [p \in Pids |-> 2]
  /\ file_lock = None
  /\ pages = Pool
  /\ next_pid = 2
  /\ panic = "no"
  /\ final = [p \in Pids |-> {}]
  /\ told = [p \in Pids |-> <<>>]
  /\ lost = 0

At(p, label) == pc[p] = label
Goto(p, label) == pc' = [pc EXCEPT ![p] = label]

\* A user process in user mode; the initial thread only executes and waits.
InUser(p) == At(p, "run") /\ p # 1

Parents(q) == {p \in Pids : q \in children[p]}

-----------------------------------------------------------------------------

\* process_execute gets a page for the arguments; argument_tokenize may refuse
\* them.
Execute(p) ==
  /\ At(p, "run") /\ next_pid <= MaxPid /\ pages > 0
  /\ pages' = pages - 1
  /\ Goto(p, "create")
  /\ UNCHANGED <<it, op, rec, children, next_pid, lost, file_vars, panic, final, told>>

RefuseArguments(p) ==
  /\ At(p, "create")
  /\ pages' = pages + 1
  /\ Goto(p, "run")
  /\ UNCHANGED <<it, op, rec, children, next_pid, lost, file_vars, panic, final, told>>

\* thread_create has no page, or no memory for the struct process: the page
\* with the arguments is not given back.
CreateFails(p) ==
  /\ At(p, "create")
  /\ lost' = lost + 1
  /\ Goto(p, "run")
  /\ UNCHANGED <<it, op, rec, children, next_pid, pages, file_vars, panic, final, told>>

\* thread_create succeeds; from now on the argument page is the child's.
CreateThread(p) ==
  /\ At(p, "create") /\ pages > 0 /\ next_pid <= MaxPid
  /\ pages' = pages - 1
  /\ next_pid' = next_pid + 1
  /\ rec' = [rec EXCEPT ![next_pid] = NewRecord]
  /\ children' = [children EXCEPT ![p] = @ \cup {next_pid}]
  /\ it' = [it EXCEPT ![p] = next_pid]
  /\ pc' = [pc EXCEPT ![p] = "await", ![next_pid] = "load"]
  /\ UNCHANGED <<op, lost, file_vars, panic, final, told>>

\* bug: the record of the child stays in the list of children.
FreedOnly(p, q) ==
  /\ rec' = [rec EXCEPT ![q].state = "freed", ![q].sema = @ - 1]
  /\ UNCHANGED children

\* list_remove and free of child q after its semaphore was raised.
Removed(p, q) ==
  /\ rec' = [rec EXCEPT ![q].state = "freed", ![q].sema = @ - 1]
  /\ children' = [children EXCEPT ![p] = @ \ {q}]

\* sema_down of child q's semaphore.
Downed(q) == rec' = [rec EXCEPT ![q].sema = @ - 1]

\* process_execute is woken by start_process, or by process_exit of a child that
\* could not load.
AwaitLoad(p) ==
  /\ At(p, "await") /\ rec[it[p]].sema > 0
  /\ IF rec[it[p]].status = "FAIL"
     THEN Removed(p, it[p])
     ELSE Downed(it[p]) /\ UNCHANGED children
  /\ it' = [it EXCEPT ![p] = None]
  /\ Goto(p, "run")
  /\ UNCHANGED <<op, next_pid, pages, lost, file_vars, panic, final, told>>

\* The next descriptor of the thread, for a file that was opened.
NewDescriptor(p) ==
  /\ files' = [files EXCEPT ![p] = @ \cup {fd[p]}]
  /\ fd' = [fd EXCEPT ![p] = @ + 1]

\* load opens the executable, which becomes the first descriptor of the process
\* and stays open, and fails before or after that or not at all.  start_process
\* gives the arguments back to the pool and tells the parent, or ends.
Loaded(p) ==
  /\ At(p, "load")
  /\ pages' = pages + 1
  /\ \/ /\ NewDescriptor(p)
        /\ rec' = [rec EXCEPT ![p].sema = @ + 1]
        /\ Goto(p, "run")
     \/ /\ NewDescriptor(p) \/ UNCHANGED <<files, fd>>
        /\ rec' = [rec EXCEPT ![p].status = "FAIL"]
        /\ Goto(p, "files")
  /\ UNCHANGED <<it, op, children, next_pid, lost, file_lock, panic, final, told>>

\* process_wait.  get_child starts at the list's tail, which it takes for a
\* process: the word at its pid is NULL, so pid 0 finds it, and what follows is
\* done to the thread's own memory.
Wait(p) ==
  /\ At(p, "run")
  /\ \E q \in {None} \cup children[p] :
       IF q = None
       THEN panic' = "wait" /\ UNCHANGED <<pc, it>>
       ELSE Goto(p, "wait") /\ it' = [it EXCEPT ![p] = q] /\ UNCHANGED panic
  /\ UNCHANGED <<op, own_vars, file_vars, final, told>>

Reap(p) ==
  /\ At(p, "wait") /\ rec[it[p]].sema > 0
  /\ told' = [told EXCEPT ![it[p]] = Append(@, rec[it[p]].exit)]
  /\ Removed(p, it[p])
  /\ it' = [it EXCEPT ![p] = None]
  /\ Goto(p, "run")
  /\ UNCHANGED <<op, next_pid, pages, lost, file_vars, panic, final>>

-----------------------------------------------------------------------------

\* The system call exit, or the kernel's exit (-1), with p where it is.
SetExit(p, code) ==
  /\ rec' = [rec EXCEPT ![p].exit = code]
  /\ Goto(p, "files")

\* A system call exit, an invalid pointer, an unknown system call or a fault.
Exit(p) ==
  /\ InUser(p)
  /\ \E code \in Codes \cup {-1} : SetExit(p, code)
  /\ UNCHANGED <<it, op, children, next_pid, pages, lost, file_vars, panic, final, told>>

\* bug: a process that could not load is taken to have no open file.
ClosedIfLoaded(p) == IF rec[p].status = "FAIL" THEN files ELSE [files EXCEPT ![p] = {}]

\* process_exit closes all files, without file_lock, and its page directory goes.
Closed(p) == [files EXCEPT ![p] = {}]

CloseFiles(p) ==
  /\ At(p, "files")
  /\ files' = Closed(p)
  /\ Goto(p, "orphans")
  /\ UNCHANGED <<it, op, own_vars, fd, file_lock, panic, final, told>>

\* The loop over the orphans starts at the list's tail.  It is not entered when
\* the list is empty.  Otherwise the tail is taken for a process: acquiring what
\* stands at its status_lock, or freeing it, fails an assertion.
Orphans(p) ==
  /\ At(p, "orphans")
  /\ IF children[p] = {}
     THEN Goto(p, "status") /\ UNCHANGED panic
     ELSE panic' = "children" /\ UNCHANGED pc
  /\ UNCHANGED <<it, op, own_vars, file_vars, final, told>>

\* bug: nobody sees any more that the process could not load.
DeadAnyway(status) == "DEAD"

\* A process that could not load stays FAIL.
StatusAtExit(status) == IF status = "RUN" THEN "DEAD" ELSE status

\* Under status_lock.
SetStatus(p) ==
  /\ At(p, "status")
  /\ rec' = [rec EXCEPT ![p].status = StatusAtExit(@)]
  /\ final' = [final EXCEPT ![p] = {rec[p].exit}]
  /\ Goto(p, "signal")
  /\ UNCHANGED <<it, op, children, next_pid, pages, lost, file_vars, panic, told>>

\* bug: only a process that has run wakes its parent.
RaisedIfDead(p) == IF rec[p].status = "DEAD" THEN rec[p].sema + 1 ELSE rec[p].sema

\* sema_up of the process's semaphore.
Raised(p) == rec[p].sema + 1

Signal(p) ==
  /\ At(p, "signal")
  /\ rec' = [rec EXCEPT ![p].sema = Raised(p)]
  /\ Goto(p, "die")
  /\ UNCHANGED <<it, op, children, next_pid, pages, lost, file_vars, panic, final, told>>

\* release_locks in thread_exit.
ReleasedLock(p) == IF file_lock = p THEN None ELSE file_lock

\* thread_exit after process_exit, and the thread's page goes back.
Die(p) ==
  /\ At(p, "die")
  /\ file_lock' = ReleasedLock(p)
  /\ pages' = pages + 1
  /\ Goto(p, "dead")
  /\ UNCHANGED <<it, op, rec, children, next_pid, lost, files, fd, panic, final, told>>

-----------------------------------------------------------------------------

Ops == {"open", "close", "use", "seek", "copy"}

\* A file system call up to lock_acquire of file_lock.  "use" stands for
\* filesize, tell, create and remove, "copy" for read and write: what becomes of
\* the process is the same for every descriptor that they are given.
FileCall(p) ==
  /\ InUser(p)
  /\ \E o \in Ops, f \in {0} \cup 2 .. MaxFd :
       /\ o = "open" => fd[p] <= MaxFd
       /\ o \notin {"close", "seek"} => f = 2
       /\ op' = [op EXCEPT ![p] = o]
       /\ it' = [it EXCEPT ![p] = f]
  /\ Goto(p, "lock")
  /\ UNCHANGED <<own_vars, file_vars, panic, final, told>>

AcquireFile(p) ==
  /\ At(p, "lock") /\ file_lock = None
  /\ file_lock' = p
  /\ Goto(p, "call")
  /\ UNCHANGED <<it, op, own_vars, files, fd, panic, final, told>>

\* get_file.  It starts at the list's tail like get_child, and finds descriptor 0
\* there.
Found(p) == it[p] \in files[p] \cup {0}

\* open: filesys_open succeeds or not.
Open(p) ==
  /\ op[p] = "open"
  /\ NewDescriptor(p) \/ UNCHANGED <<files, fd>>
  /\ Goto(p, "unlock")
  /\ UNCHANGED <<rec, panic>>

\* close walks from list_begin and finds the process's descriptors only.
Close(p) ==
  /\ op[p] = "close"
  /\ files' = [files EXCEPT ![p] = @ \ {it[p]}]
  /\ Goto(p, "unlock")
  /\ UNCHANGED <<rec, fd, panic>>

\* Calls that leave descriptors alone, whether get_file finds the file or not.
Use(p) ==
  /\ op[p] \in {"use", "copy"}
  /\ Goto(p, "unlock")
  /\ UNCHANGED <<rec, files, fd, panic>>

\* read or write meets a page of the buffer that is not there; the process is
\* killed with file_lock held.
Fault(p) ==
  /\ op[p] = "copy"
  /\ Goto(p, "files")
  /\ UNCHANGED <<rec, files, fd, panic>>

\* seek without an open file exits with file_lock held.  With descriptor 0 it
\* stores the position into the list of files, which the next walk follows.
Seek(p) ==
  /\ op[p] = "seek"
  /\ \/ ~Found(p) /\ SetExit(p, -1) /\ UNCHANGED panic
     \/ Found(p) /\ Goto(p, "unlock") /\ UNCHANGED <<rec, panic>>
     \/ it[p] = 0 /\ panic' = "seek" /\ UNCHANGED <<rec, pc>>
  /\ UNCHANGED <<files, fd>>

FileBody(p) ==
  /\ At(p, "call")
  /\ Open(p) \/ Close(p) \/ Use(p) \/ Fault(p) \/ Seek(p)
  /\ UNCHANGED <<it, op, children, next_pid, pages, lost, file_lock, final, told>>

ReleaseFile(p) ==
  /\ At(p, "unlock")
  /\ file_lock' = None
  /\ Goto(p, "run")
  /\ it' = [it EXCEPT ![p] = None]
  /\ op' = [op EXCEPT ![p] = "none"]
  /\ UNCHANGED <<own_vars, files, fd, panic, final, told>>

-----------------------------------------------------------------------------

\* What the kernel does without a choice of the program.
KernelStep(p) ==
  \/ RefuseArguments(p) \/ CreateFails(p) \/ CreateThread(p)
  \/ AwaitLoad(p) \/ Loaded(p) \/ Reap(p)
  \/ CloseFiles(p) \/ Orphans(p) \/ SetStatus(p) \/ Signal(p) \/ Die(p)
  \/ FileBody(p) \/ ReleaseFile(p)

SystemCall(p) == Execute(p) \/ Wait(p) \/ Exit(p) \/ FileCall(p)

Next ==
  /\ panic = "no"
  /\ \E p \in Pids : KernelStep(p) \/ AcquireFile(p) \/ SystemCall(p)

Spec == Init /\ [][Next]_vars

\* Every thread gets the CPU again and again (Threads).  A thread that asks for
\* file_lock gets it if it stays free, and may be overtaken for ever if not:
\* sema_down tests again after it was woken, and waits behind the others.
FairSpec ==
  /\ Spec
  /\ \A p \in Pids :
       /\ WF_vars(panic = "no" /\ KernelStep(p))
       /\ WF_vars(panic = "no" /\ AcquireFile(p))

-----------------------------------------------------------------------------

Exiting(p) == pc[p] \in {"files", "orphans", "status", "signal", "die"}
Threads == {p \in Pids : pc[p] \notin {"none", "dead"}}

\* process_wait returns the exit code of a child that has exited, and returns it
\* once, although one semaphore serves process_execute and process_wait.
ExitCodeOnce ==
  \A q \in Pids : told[q] # <<>> => \E code \in final[q] : told[q] = <<code>>

\* A struct process lives as long as someone uses it: until its process has
\* raised the semaphore, and until its parent has taken the exit code.  It has
\* one parent, and it is freed once.
RecordInUse ==
  \A q \in Pids :
    /\ pc[q] \notin {"none", "die", "dead"} /\ q # 1 => rec[q].state = "live"
    /\ rec[q].state = "live" <=> Cardinality(Parents(q)) = 1
    /\ \A p \in Pids : pc[p] \in {"await", "wait"} => it[p] \in children[p]

\* A process that ends before its children leaves them as orphans and goes on
\* (process_exit: "Let the children of the process that they're now orphaned so
\* they will clean up when they exit").
ChildrenOrphaned == panic # "children"

Argument(p) == pc[p] \in {"create", "load"}

\* Whatever way a process ends, its page, its arguments, its files and file_lock
\* come back; process_execute loses the arguments if there is no thread.
NothingLost ==
  /\ pages + lost + Cardinality(Threads \ {1}) + Cardinality({p \in Pids : Argument(p)}) = Pool
  /\ file_lock # None => file_lock \in Threads
  /\ \A p \in Pids : pc[p] = "dead" => files[p] = {}

\* What a parent may know of its child, from the record.
Stage(q) ==
  IF pc[q] = "none" THEN "unborn"
  ELSE IF pc[q] = "load" THEN "loading"
  ELSE CASE rec[q].status = "FAIL" -> "failed"
         [] rec[q].status = "DEAD" -> "ended"
         [] OTHER -> "running"

Ending(q) == IF Stage(q) = "ended" THEN {rec[q].exit} ELSE {}

CallOf(p) ==
  CASE pc[p] = "await" -> <<"execute", it[p]>>
    [] pc[p] = "wait" -> <<"wait", it[p]>>
    [] OTHER -> <<>>

Kin == INSTANCE Family WITH
  Processes <- Pids,
  First     <- 1,
  ExitCodes <- Codes \cup {-1},
  stage     <- [q \in Pids |-> Stage(q)],
  code      <- [q \in Pids |-> Ending(q)],
  offspring <- children,
  call      <- [p \in Pids |-> CallOf(p)],
  answers   <- told

\* process_execute returns after the load of its child, not before, and without
\* a child if the load failed, although that child has passed through process_exit
\* by then; process_wait returns after the child's end with the child's code.
FamilyContract == Kin!Spec

\* A process that executes another, or waits for a child that exits, goes on.  One
\* that asks for file_lock gets it, unless others take it and give it back for
\* ever: no process that was killed in a file call keeps it.
CallsReturn ==
  \A p \in Pids :
    /\ (\/ pc[p] = "await"
        \/ pc[p] = "wait" /\ (Exiting(it[p]) \/ pc[it[p]] = "dead"))
         ~> pc[p] = "run" \/ panic # "no"
    /\ \/ pc[p] = "lock" ~> pc[p] = "call" \/ panic # "no"
       \/ []<>(file_lock = None) /\ []<>(file_lock \notin {p, None})
=============================================================================
