------------------------------ MODULE Teardown ------------------------------
(***************************************************************************)
(* The system calls that work on pages and the end of a process: read and  *)
(* write on a user buffer, mmap and munmap of userprog/syscall.c, and      *)
(* process_remove_mmap and process_exit of userprog/process.c with         *)
(* page_table_rm of vm/page.c.                                             *)
(*                                                                         *)
(* process_remove_mmap and page_function take a page down the same way:    *)
(* if it is loaded, save it (a dirty mapped page only), free_frame what    *)
(* pagedir_get_page returns, clear the page; then drop the entry.  None of *)
(* these tests is under frame_tbl_lock.                                    *)
(***************************************************************************)
EXTENDS PageTable

\* read or write: not_valid accepts the buffer if it is mapped at this moment,
\* otherwise exit(-1).
SysIO(p, pg) ==
  /\ pc[p] = "user"
  /\ IF Mapped(pg)
     THEN /\ cur' = [cur EXCEPT ![p] = pg]
          /\ mode' = [mode EXCEPT ![p] = "io"]
          /\ Goto(p, "sys_lock")
     ELSE Goto(p, "exit") /\ UNCHANGED <<cur, mode>>
  /\ UNCHANGED <<frame, hand, fte, locks, frames, pages, swap_map, contents, panic>>

LockFile(p) ==
  /\ file_lock = None
  /\ file_lock' = p
  /\ UNCHANGED frame_tbl_lock

\* lock_release(&file_lock)
KeepFileLock == UNCHANGED locks  \* bug: the lock is kept
UnlockFile == file_lock' = None /\ UNCHANGED frame_tbl_lock

SysLock(p) ==
  /\ pc[p] = "sys_lock"
  /\ LockFile(p)
  /\ Goto(p, "copy")
  /\ UNCHANGED <<mode, locals, frames, pages, swap_map, contents, panic>>

\* file_read stores into the buffer, file_write loads from it, both through the
\* user address and with file_lock held; then lock_release and return.
SysCopy(p, write) ==
  /\ pc[p] = "copy"
  /\ Mapped(cur[p])
  /\ Touch(cur[p], write)
  /\ UnlockFile
  /\ mode' = [mode EXCEPT ![p] = "user"]
  /\ Goto(p, "user")
  /\ UNCHANGED <<locals, frames, spte, spt, mmap_list, swap_map,
                 disk, file, panic>>

\* The kernel touches a user page that has been evicted since it was checked.
KernelFault(p) ==
  /\ pc[p] \in {"copy", "mm_write"}
  /\ ~Mapped(cur[p])
  /\ Goto(p, "fault")
  /\ UNCHANGED <<mode, locals, locks, frames, pages, swap_map, contents, panic>>

\* mmap: add_mmap_page_tbl for each page of the file.  A second mapping over
\* the first one fails at its hash_insert and is undone, so it changes nothing.
Mmap(p) ==
  LET new == ToSet(Region[p])
  IN /\ pc[p] = "user"
     /\ mmap_list[p] = <<>>
     /\ Region[p] # <<>>
     /\ mmap_list' = [mmap_list EXCEPT ![p] = Region[p]]
     /\ spt' = spt \cup new
     /\ spte' = [pg \in Page |-> IF pg \in new THEN NewSpte("MMAP") ELSE spte[pg]]
     /\ want' = [pg \in Page |-> IF pg \in new THEN file[pg] ELSE want[pg]]
     /\ UNCHANGED <<pc, mode, locals, locks, frames, pagedir, swap_map, mem, disk, file, panic>>

Munmap(p) ==
  /\ pc[p] = "user"
  /\ mmap_list[p] # <<>>
  /\ mode' = [mode EXCEPT ![p] = "munmap"]
  /\ Goto(p, "next")
  /\ UNCHANGED <<locals, locks, frames, pages, swap_map, contents, panic>>

\* exit, or kill by another exception: the thread will run process_exit.
Exit(p) ==
  /\ pc[p] = "user"
  /\ Goto(p, "exit")
  /\ UNCHANGED <<mode, locals, locks, frames, pages, swap_map, contents, panic>>

\* process_exit closes the process's files under file_lock, then calls
\* process_remove_mmap, which has nothing to do without a mapping.
ProcessExit(p) ==
  /\ pc[p] = "exit"
  /\ file_lock = None
  /\ mode' = [mode EXCEPT ![p] = IF mmap_list[p] = <<>> THEN "destroy" ELSE "exit"]
  /\ Goto(p, "next")
  /\ UNCHANGED <<locals, locks, frames, pages, swap_map, contents, panic>>

\* process_remove_mmap: the next mapped page, pinned before anything else.
NextMapping(p) ==
  /\ pc[p] = "next"
  /\ mode[p] \in {"munmap", "exit"}
  /\ mmap_list[p] # <<>>
  /\ cur' = [cur EXCEPT ![p] = Head(mmap_list[p])]
  /\ spte' = [spte EXCEPT ![Head(mmap_list[p])].pinned = TRUE]
  /\ Goto(p, "check")
  /\ UNCHANGED <<mode, frame, hand, fte, locks, frames, pagedir, spt, mmap_list,
                 swap_map, contents, panic>>

\* process_remove_mmap: file_close of the mapped file, under file_lock.
LastMapping(p) ==
  /\ pc[p] = "next"
  /\ mode[p] \in {"munmap", "exit"}
  /\ mmap_list[p] = <<>>
  /\ file_lock = None
  /\ mode' = [mode EXCEPT ![p] = IF @ = "exit" THEN "destroy" ELSE "user"]
  /\ Goto(p, IF mode[p] = "exit" THEN "next" ELSE "user")
  /\ UNCHANGED <<locals, locks, frames, pages, swap_map, contents, panic>>

\* page_table_rm: hash_destroy calls page_function on each entry, in any order.
NextEntry(p) ==
  /\ pc[p] = "next"
  /\ mode[p] = "destroy"
  /\ IF PagesOf(p) \cap spt = {}
     THEN Goto(p, "pagedir") /\ UNCHANGED cur
     ELSE \E pg \in PagesOf(p) \cap spt :
            cur' = [cur EXCEPT ![p] = pg] /\ Goto(p, "check")
  /\ UNCHANGED <<mode, frame, hand, fte, locks, frames, pages, swap_map, contents, panic>>

\* What page_function does with an entry: nothing to free if it is not loaded.
LeaveFrame(pg) == FALSE  \* bug: the frame is not freed
HasFrame(pg) == spte[pg].is_loaded

\* process_remove_mmap's if (pagedir_is_dirty); page_function saves nothing.
NotSaved(p) == FALSE  \* bug: what was stored in the mapping is dropped
MustWrite(p) == mode[p] # "destroy" /\ pagedir[cur[p]].dirty

\* if (is_loaded), and for a mapped page if (pagedir_is_dirty).
CheckLoaded(p) ==
  /\ pc[p] = "check"
  /\ Goto(p, IF ~HasFrame(cur[p]) THEN "drop" ELSE IF MustWrite(p) THEN "mm_lock" ELSE "get_page")
  /\ UNCHANGED <<mode, locals, locks, frames, pages, swap_map, contents, panic>>

MmLock(p) ==
  /\ pc[p] = "mm_lock"
  /\ LockFile(p)
  /\ Goto(p, "mm_write")
  /\ UNCHANGED <<mode, locals, frames, pages, swap_map, contents, panic>>

\* file_write_at from the user address, then lock_release.
MmWrite(p) ==
  /\ pc[p] = "mm_write"
  /\ Mapped(cur[p])
  /\ file' = [file EXCEPT ![cur[p]] = mem[pagedir[cur[p]].frame]]
  /\ pagedir' = [pagedir EXCEPT ![cur[p]].accessed = TRUE]
  /\ UnlockFile
  /\ Goto(p, "get_page")
  /\ UNCHANGED <<mode, locals, frames, spte, spt, mmap_list, swap_map,
                 mem, disk, want, panic>>

\* pagedir_get_page, the argument of free_frame, before the lock is taken.
GetPage(p) ==
  /\ pc[p] = "get_page"
  /\ frame' = [frame EXCEPT ![p] = pagedir[cur[p]].frame]
  /\ Goto(p, "free_frame")
  /\ UNCHANGED <<mode, cur, hand, fte, locks, frames, pages, swap_map, contents, panic>>

FreePage(p) ==
  /\ pc[p] = "free_frame"
  /\ FreeFrame(frame[p])
  /\ frame' = [frame EXCEPT ![p] = None]
  /\ Goto(p, "clear_page")
  /\ UNCHANGED <<mode, cur, hand, fte, locks, pages, swap_map, contents, panic>>

UnmapPage(p) ==
  /\ pc[p] = "clear_page"
  /\ pagedir' = Cleared(cur[p])
  /\ Goto(p, "drop")
  /\ UNCHANGED <<mode, locals, locks, frames, spte, spt, mmap_list, swap_map, contents, panic>>

\* list_remove(&mm->elem)
KeepMapping(p) == mmap_list  \* bug: the page stays in mmap_list
WithoutMapping(p) == [mmap_list EXCEPT ![p] = Tail(@)]

\* hash_delete and list_remove, or hash_destroy's unlinking, then free(spte).
DropEntry(p) ==
  /\ pc[p] = "drop"
  /\ spt' = spt \ {cur[p]}
  /\ mmap_list' = IF mode[p] = "destroy" THEN mmap_list
                  ELSE WithoutMapping(p)
  /\ Goto(p, "next")
  /\ UNCHANGED <<mode, locals, locks, frames, pagedir, spte, swap_map, contents, panic>>

\* pagedir_destroy frees the pages that are still present.
PagedirDestroy(p) ==
  /\ pc[p] = "pagedir"
  /\ user_pool' = user_pool \cup {pagedir[pg].frame : pg \in {q \in PagesOf(p) : Mapped(q)}}
  /\ pagedir' = [pg \in Page |-> IF pg \in PagesOf(p) THEN Unmapped ELSE pagedir[pg]]
  /\ Goto(p, "dead")
  /\ UNCHANGED <<mode, locals, locks, frame_tbl_list, spte, spt, mmap_list, swap_map,
                 contents, panic>>

TeardownStep(p) ==
  \/ SysLock(p)     \/ KernelFault(p) \/ ProcessExit(p) \/ NextMapping(p)
  \/ LastMapping(p) \/ NextEntry(p)   \/ CheckLoaded(p) \/ MmLock(p)
  \/ MmWrite(p)     \/ GetPage(p)     \/ FreePage(p)    \/ UnmapPage(p)
  \/ DropEntry(p)   \/ PagedirDestroy(p)
=============================================================================
