------------------------------ MODULE VMState ------------------------------
(***************************************************************************)
(* State of the Project 3 virtual memory system: the frame table and its   *)
(* lock (vm/frame.c), the supplemental page tables (vm/page.c), the swap   *)
(* partition (vm/swap.c), the global file_lock of userprog/syscall.c, and  *)
(* the program counter and locals of each process's kernel thread.         *)
(*                                                                         *)
(* A page is a (process, user page) pair, so Owner gives the thread whose  *)
(* page directory and supplemental page table it lives in.  Threads are    *)
(* preempted anywhere; a step stands for the code between two points at    *)
(* which another thread could see or change what the code uses.            *)
(***************************************************************************)
EXTENDS Integers, Sequences, FiniteSets, SequencesExt

CONSTANTS
  Proc,      \* user processes, one kernel thread each
  Page,      \* user pages of all the processes
  Frame,     \* pages of palloc's user pool
  Slot,      \* page-sized slots of the swap partition
  None,      \* NULL
  Owner,     \* Owner[pg]: the process page pg belongs to
  Kind,      \* Kind[pg]: how the page comes into being
  Region     \* Region[p]: pages of the file p can map, in address order

\* FILE: executable page with file data; ZERO: executable page with
\* read_bytes == 0; MMAP: page of a mapped file; STACK: page of the stack.
Kinds == {"FILE", "ZERO", "MMAP", "STACK"}

ASSUME VMConstants ==
  /\ None \notin Proc \cup Page \cup Frame \cup Slot
  /\ Owner \in [Page -> Proc]
  /\ Kind \in [Page -> Kinds]
  /\ Region \in [Proc -> Seq(Page)]
  /\ \A p \in Proc : /\ ToSet(Region[p]) = {pg \in Page : Owner[pg] = p /\ Kind[pg] = "MMAP"}
                     /\ IsInjective(Region[p])

VARIABLES
  pc,              \* where each process's thread is
  mode,            \* the kernel path the thread is on
  cur,             \* page a fault, a load or a teardown is about
  frame,           \* the local frame of frame_alloc, load_*, free_frame
  hand,            \* evict_frame's e: position in frame_tbl_list
  fte,             \* evict_frame's fte: the entry at e
  frame_tbl_list,  \* sequence of frame table entries
  frame_tbl_lock,  \* holder or None
  file_lock,       \* holder or None
  user_pool,       \* frames palloc_get_page can hand out
  pagedir,         \* the page-directory entry of each page
  spte,            \* the supplemental page table entry of each page
  spt,             \* pages whose entry is in their owner's hash table
  mmap_list,       \* per process, pages in thread.mmap_list
  swap_map,        \* slots marked SWAP_IN_USE
  mem, disk, file, \* contents of frames, of swap slots, of backing files
  want,            \* history: what the program last saw or stored in a page
  panic            \* "none", or why the kernel stopped

locals   == <<cur, frame, hand, fte>>
locks    == <<frame_tbl_lock, file_lock>>
frames   == <<frame_tbl_list, user_pool>>
pages    == <<pagedir, spte, spt, mmap_list>>
contents == <<mem, disk, file, want>>
vars     == <<pc, mode, locals, locks, frames, pages, swap_map, contents, panic>>

-----------------------------------------------------------------------------
Modes  == {"user", "io", "munmap", "exit", "destroy"}
Labels == {"user", "fault", "palloc", "evict", "scan", "test", "write_back",
           "swap_out", "unload", "clear", "release", "repalloc", "add", "read_file",
           "install", "swap_in", "unpin", "undo", "sys_lock", "copy", "exit",
           "next", "check", "mm_lock", "mm_write", "get_page", "free_frame",
           "clear_page", "drop", "pagedir", "dead"}

\* What a frame, a slot or a file page holds: version 0 of a file page, zeros
\* ([of |-> None]), or what the program stored in a page (version 1).
Data  == [of : Page \cup {None}, ver : 0..1]
Zeros == [of |-> None, ver |-> 0]
Text(pg)   == [of |-> pg, ver |-> 0]
Stored(pg) == [of |-> pg, ver |-> 1]

\* fte->thread is the thread that called frame_alloc, always Owner[fte.spte].
Entry == [frame : Frame, spte : Page]
Spte  == [type : {"FILE", "SWAP", "MMAP"}, is_loaded : BOOLEAN, pinned : BOOLEAN,
          swap_index : Slot \cup {None}]
Pte   == [frame : Frame \cup {None}, accessed : BOOLEAN, dirty : BOOLEAN]

Unmapped == [frame |-> None, accessed |-> FALSE, dirty |-> FALSE]
NewSpte(type) ==
  [type |-> type, is_loaded |-> FALSE, pinned |-> FALSE, swap_index |-> None]

PagesOf(p) == {pg \in Page : Owner[pg] = p}
Mapped(pg) == pagedir[pg].frame # None

\* The bss and data pages are entered by load_segment through
\* add_file_page_tbl, before the process first runs.
Init ==
  /\ pc = [p \in Proc |-> "user"]
  /\ mode = [p \in Proc |-> "user"]
  /\ cur = [p \in Proc |-> None]
  /\ frame = [p \in Proc |-> None]
  /\ hand = [p \in Proc |-> 0]
  /\ fte = [p \in Proc |-> None]
  /\ frame_tbl_list = <<>>
  /\ frame_tbl_lock = None
  /\ file_lock = None
  /\ user_pool = Frame
  /\ pagedir = [pg \in Page |-> Unmapped]
  /\ spte = [pg \in Page |-> NewSpte("FILE")]
  /\ spt = {pg \in Page : Kind[pg] \in {"FILE", "ZERO"}}
  /\ mmap_list = [p \in Proc |-> <<>>]
  /\ swap_map = {}
  /\ mem = [f \in Frame |-> Zeros]
  /\ disk = [s \in Slot |-> Zeros]
  /\ file = [pg \in Page |-> IF Kind[pg] = "ZERO" THEN Zeros ELSE Text(pg)]
  /\ want = [pg \in Page |-> IF Kind[pg] = "ZERO" THEN Zeros ELSE Text(pg)]
  /\ panic = "none"

Goto(p, label) == pc' = [pc EXCEPT ![p] = label]

\* Where a thread goes on after a fault: the program, the copy of a system call,
\* or the write-back of a mapped page.  The locals of the handler are gone.
Resume(p) ==
  Goto(p, CASE mode[p] = "user" -> "user" [] mode[p] = "io" -> "copy" [] OTHER -> "mm_write")

\* kill() of exception.c: a fault the handler could not resolve ends a process
\* that faulted in user mode and panics the kernel otherwise.
Kill(p) ==
  IF mode[p] = "user" THEN Goto(p, "exit") /\ UNCHANGED panic
                      ELSE panic' = "kernel fault" /\ UNCHANGED pc
=============================================================================
