------------------------------ MODULE VMProofs ------------------------------
(***************************************************************************)
(* Theorems about the virtual memory system, for any number of processes,  *)
(* pages, frames and swap slots and any behaviour of the programs.  The    *)
(* lemmas before them: every step keeps the inductive invariant, the types *)
(* of the variables first, then who holds frame_tbl_lock, where            *)
(* evict_frame's hand points, what the labels say about the locals, and    *)
(* that every frame is in one place.  The first lemma of a group is about  *)
(* the thread that moves, one action at a time; the second carries the     *)
(* fact to all threads.                                                    *)
(***************************************************************************)
EXTENDS VirtualMemory, SequenceTheorems, TLAPS

\* What is left of a sequence without its i-th element.
LEMMA RemoveAtElements ==
  ASSUME NEW S, NEW s \in Seq(S), NEW i \in 1..Len(s)
  PROVE  /\ RemoveAt(s, i) \in Seq(S)
         /\ Len(RemoveAt(s, i)) = Len(s) - 1
         /\ \A k \in 1..(Len(s) - 1) : RemoveAt(s, i)[k] = IF k < i THEN s[k] ELSE s[k + 1]
<1> DEFINE a == SubSeq(s, 1, i - 1)
           b == SubSeq(s, i + 1, Len(s))
<1>1. a \in Seq(S) /\ Len(a) = i - 1 /\ \A k \in 1..(i - 1) : a[k] = s[k]
  OBVIOUS
<1>2. b \in Seq(S) /\ Len(b) = Len(s) - i /\ \A k \in 1..(Len(s) - i) : b[k] = s[k + i]
  OBVIOUS
<1>3. RemoveAt(s, i) = a \o b
  BY DEF RemoveAt
<1> HIDE DEF a, b
<1>4. Len(a \o b) = Len(s) - 1 /\ a \o b \in Seq(S)
  <2>1. a \o b \in Seq(S) /\ Len(a \o b) = Len(a) + Len(b)
    BY <1>1, <1>2, ConcatProperties
  <2>2. Len(s) \in Nat
    OBVIOUS
  <2> QED  BY <1>1, <1>2, <2>1, <2>2
<1>5. ASSUME NEW k \in 1..(Len(s) - 1)
      PROVE  (a \o b)[k] = IF k < i THEN s[k] ELSE s[k + 1]
  <2>1. CASE k < i
    BY <1>1, <1>2, <2>1
  <2>2. CASE ~(k < i)
    <3>1. (a \o b)[k] = b[k - (i - 1)] /\ k - (i - 1) \in 1..(Len(s) - i)
      BY <1>1, <1>2, <2>2
    <3> QED  BY <1>2, <2>2, <3>1
  <2> QED  BY <2>1, <2>2
<1> QED  BY <1>3, <1>4, <1>5

\* free_frame keeps the types of the frame table and of the pool.
LEMMA FreeFrameType ==
  ASSUME NEW f, frame_tbl_list \in Seq(Entry), user_pool \subseteq Frame, FreeFrame(f)
  PROVE  frame_tbl_list' \in Seq(Entry) /\ user_pool' \subseteq Frame
<1>1. CASE EntriesFor(f) = {}
  BY <1>1 DEF FreeFrame, frames
<1>2. CASE EntriesFor(f) # {}
  <2>1. PICK i \in EntriesFor(f) : /\ frame_tbl_list' = Unlisted(i)
                                 /\ user_pool' = user_pool \cup {f}
    BY <1>2 DEF FreeFrame
  <2>2. i \in 1..Len(frame_tbl_list) /\ f \in Frame
    <3>1. i \in 1..Len(frame_tbl_list) /\ f = frame_tbl_list[i].frame
      BY <2>1 DEF EntriesFor
    <3>2. frame_tbl_list[i] \in Entry
      BY <3>1
    <3> QED  BY <3>1, <3>2 DEF Entry
  <2> QED  BY <2>1, <2>2, RemoveAtElements DEF Unlisted
<1> QED  BY <1>1, <1>2

\* Only pages of the process can be mapped.
LEMMA RegionPages == \A p \in Proc : ToSet(Region[p]) \subseteq Page
  BY VMConstants

\* Updates of one field keep a page-directory entry what it is.
LEMMA PteUpdate ==
  ASSUME NEW t \in [Page -> Pte], NEW pg \in Page, NEW b \in BOOLEAN
  PROVE  /\ [t EXCEPT ![pg].accessed = b] \in [Page -> Pte]
         /\ [t EXCEPT ![pg].frame = None] \in [Page -> Pte]
         /\ [t EXCEPT ![pg].accessed = TRUE, ![pg].dirty = b] \in [Page -> Pte]
         /\ [t EXCEPT ![pg].accessed = TRUE, ![pg].dirty = @ \/ b] \in [Page -> Pte]
  BY DEF Pte

\* The same for a supplemental page table entry.
LEMMA SpteUpdate ==
  ASSUME NEW t \in [Page -> Spte], NEW pg \in Page, NEW b \in BOOLEAN
  PROVE  /\ [t EXCEPT ![pg].pinned = b] \in [Page -> Spte]
         /\ [t EXCEPT ![pg].is_loaded = b] \in [Page -> Spte]
  BY DEF Spte

\* A page that is read into its frame: accessed and dirty, or marked as loaded.
LEMMA LoadUpdate ==
  ASSUME NEW pg \in Page
  PROVE  /\ \A t \in [Page -> Pte] :
              [t EXCEPT ![pg].accessed = TRUE, ![pg].dirty = TRUE] \in [Page -> Pte]
         /\ \A t \in [Page -> Spte] : [t EXCEPT ![pg].is_loaded = TRUE] \in [Page -> Spte]
<1>1. \A t \in [Page -> Pte] :
        [t EXCEPT ![pg].accessed = TRUE, ![pg].dirty = TRUE] \in [Page -> Pte]
  BY DEF Pte
<1>2. \A t \in [Page -> Spte] : [t EXCEPT ![pg].is_loaded = TRUE] \in [Page -> Spte]
  BY DEF Spte
<1> QED  BY <1>1, <1>2

\* An entry whose page has gone to swap.
LEMMA SpteSwapped ==
  ASSUME NEW t \in [Page -> Spte], NEW pg \in Page, NEW s \in Slot
  PROVE  [t EXCEPT ![pg].type = "SWAP", ![pg].swap_index = s] \in [Page -> Spte]
  BY DEF Spte

\* A zeroed frame.
LEMMA ZerosType == Zeros \in Data
  BY DEF Zeros, Data

\* A step of any thread keeps every variable in its type.
LEMMA TypeStep ==
  ASSUME IInv, panic = "none", NEW p \in Proc, Program(p) \/ Kernel(p)
  PROVE  TypeOK'
<1>pc. pc \in [Proc -> Labels]
  BY DEF IInv, TypeOK
<1>mode. mode \in [Proc -> Modes]
  BY DEF IInv, TypeOK
<1>cur. cur \in [Proc -> Page \cup {None}]
  BY DEF IInv, TypeOK
<1>frame. frame \in [Proc -> Frame \cup {None}]
  BY DEF IInv, TypeOK
<1>hand. hand \in [Proc -> Nat]
  BY DEF IInv, TypeOK
<1>fte. fte \in [Proc -> Entry \cup {None}]
  BY DEF IInv, TypeOK
<1>frame_tbl_list. frame_tbl_list \in Seq(Entry)
  BY DEF IInv, TypeOK
<1>frame_tbl_lock. frame_tbl_lock \in Proc \cup {None}
  BY DEF IInv, TypeOK
<1>file_lock. file_lock \in Proc \cup {None}
  BY DEF IInv, TypeOK
<1>user_pool. user_pool \subseteq Frame
  BY DEF IInv, TypeOK
<1>pagedir. pagedir \in [Page -> Pte]
  BY DEF IInv, TypeOK
<1>spte. spte \in [Page -> Spte]
  BY DEF IInv, TypeOK
<1>spt. spt \subseteq Page
  BY DEF IInv, TypeOK
<1>mmap_list. mmap_list \in [Proc -> Seq(Page)]
  BY DEF IInv, TypeOK
<1>swap_map. swap_map \subseteq Slot
  BY DEF IInv, TypeOK
<1>mem. mem \in [Frame -> Data]
  BY DEF IInv, TypeOK
<1>disk. disk \in [Slot -> Data]
  BY DEF IInv, TypeOK
<1>file. file \in [Page -> Data]
  BY DEF IInv, TypeOK
<1>want. want \in [Page -> Data]
  BY DEF IInv, TypeOK
<1>1. CASE FrameAlloc(p)
  <2>1. pc' \in [Proc -> Labels]
    BY <1>1, <1>pc DEF FrameAlloc, Goto, Labels
  <2>2. frame' \in [Proc -> Frame \cup {None}]
    BY <1>1, <1>frame, <1>user_pool DEF FrameAlloc, TakeFrame
  <2>3. user_pool' \subseteq Frame
    BY <1>1, <1>user_pool DEF FrameAlloc, TakeFrame
  <2>4. mem' \in [Frame -> Data]
    BY <1>1, <1>mem, ZerosType DEF FrameAlloc, TakeFrame
  <2> QED  BY <1>1, <2>1, <2>2, <2>3, <2>4
     DEF FrameAlloc, IInv, TypeOK, locals, locks, frames, pages, contents
<1>2. CASE FrameAllocFails(p)
  <2>1. pc' \in [Proc -> Labels]
    BY <1>2, <1>pc DEF FrameAllocFails, Goto, Labels
  <2> QED  BY <1>2, <2>1 DEF FrameAllocFails, IInv, TypeOK, locals, locks, frames, pages,
     contents
<1>3. CASE EvictFrame(p)
  <2>1. pc' \in [Proc -> Labels]
    BY <1>3, <1>pc DEF EvictFrame, Goto, Labels
  <2>2. hand' \in [Proc -> Nat]
    BY <1>3, <1>hand DEF EvictFrame
  <2>3. frame_tbl_lock' \in Proc \cup {None}
    BY <1>3, <1>frame_tbl_lock DEF EvictFrame
  <2> QED  BY <1>3, <2>1, <2>2, <2>3 DEF EvictFrame, IInv, TypeOK, locals, locks, frames,
     pages, contents
<1>4. CASE ScanEntry(p)
  <2>1. frame_tbl_list[hand[p]] \in Entry /\ hand[p] \in 1..Len(frame_tbl_list)
    BY <1>4, <1>frame_tbl_list DEF ScanEntry, IInv, HandInv, HandOf
  <2>2. NextHand(hand[p]) \in Nat
    BY <2>1, <1>frame_tbl_list DEF NextHand
  <2>3. pc' \in [Proc -> Labels]
    BY <1>4, <1>pc DEF ScanEntry, Goto, Labels
  <2>4. hand' \in [Proc -> Nat]
    BY <1>4, <1>hand, <2>2 DEF ScanEntry
  <2>5. fte' \in [Proc -> Entry \cup {None}]
    BY <1>4, <1>fte, <2>1 DEF ScanEntry
  <2>6. pagedir' \in [Page -> Pte]
    BY <1>4, <1>pagedir, <2>1, PteUpdate DEF ScanEntry, ClearAccessed, Entry
  <2> QED  BY <1>4, <2>3, <2>4, <2>5, <2>6
     DEF ScanEntry, IInv, TypeOK, locals, locks, frames, pages, contents
<1>5. CASE TestVictim(p)
  <2>1. pc' \in [Proc -> Labels]
    BY <1>5, <1>pc DEF TestVictim, Goto, Labels
  <2> QED  BY <1>5, <2>1 DEF TestVictim, IInv, TypeOK, locals, locks, frames, pages, contents
<1>6. CASE WriteBack(p)
  <2>1. hand[p] \in 1..Len(frame_tbl_list) /\ fte[p] = frame_tbl_list[hand[p]]
    BY <1>6 DEF WriteBack, IInv, HandInv, HandOf, Chosen
  <2>2. fte[p] \in Entry
    BY <2>1, <1>frame_tbl_list
  <2>3. pc' \in [Proc -> Labels]
    BY <1>6, <1>pc DEF WriteBack, Goto, Labels
  <2>4. file' \in [Page -> Data]
    BY <1>6, <1>file, <2>2, <1>mem DEF WriteBack, Entry
  <2> QED  BY <1>6, <2>3, <2>4 DEF WriteBack, IInv, TypeOK, locals, locks, frames, pages,
     contents
<1>7. CASE SwapOut(p)
  <2>1. hand[p] \in 1..Len(frame_tbl_list) /\ fte[p] = frame_tbl_list[hand[p]]
    BY <1>7 DEF SwapOut, IInv, HandInv, HandOf, Chosen
  <2>2. fte[p] \in Entry
    BY <2>1, <1>frame_tbl_list
  <2>3. \/ spte' = spte
        \/ \E s \in Slot, v \in Page :
             spte' = [spte EXCEPT ![v].type = "SWAP", ![v].swap_index = s]
    BY <1>7, <2>2 DEF SwapOut, SwappedTo, Entry
  <2>4. pc' \in [Proc -> Labels]
    BY <1>7, <1>pc DEF SwapOut, Goto, Labels
  <2>5. spte' \in [Page -> Spte]
    <3>1. CASE spte' = spte
      BY <1>spte, <3>1
    <3>2. CASE spte' # spte
      <4>1. PICK s \in Slot, v \in Page :
                 spte' = [spte EXCEPT ![v].type = "SWAP", ![v].swap_index = s]
        BY <2>3, <3>2
      <4> QED  BY <1>spte, <4>1, SpteSwapped
    <3> QED  BY <3>1, <3>2
  <2>6. swap_map' \subseteq Slot
    BY <1>7, <1>swap_map DEF SwapOut
  <2>7. disk' \in [Slot -> Data]
    BY <1>7, <1>disk, <2>2, <1>mem DEF SwapOut, Entry
  <2> QED  BY <1>7, <2>4, <2>5, <2>6, <2>7
     DEF SwapOut, IInv, TypeOK, locals, locks, frames, pages, contents
<1>8. CASE Unload(p)
  <2>1. hand[p] \in 1..Len(frame_tbl_list) /\ fte[p] = frame_tbl_list[hand[p]]
    BY <1>8 DEF Unload, IInv, HandInv, HandOf, Chosen
  <2>2. fte[p] \in Entry
    BY <2>1, <1>frame_tbl_list
  <2>3. pc' \in [Proc -> Labels]
    BY <1>8, <1>pc DEF Unload, Goto, Labels
  <2>4. spte' \in [Page -> Spte]
    BY <1>8, <1>spte, <2>2, SpteUpdate DEF Unload, NotLoaded, Entry
  <2>5. frame_tbl_list' \in Seq(Entry)
    BY <1>8, <1>frame_tbl_list, <2>1, RemoveAtElements DEF Unload, Unlisted
  <2> QED  BY <1>8, <2>3, <2>4, <2>5 DEF Unload, IInv, TypeOK, locals, locks, frames,
     pages, contents
<1>9. CASE ClearPage(p)
  <2>1. fte[p] \in Entry
    BY <1>9 DEF ClearPage, IInv, LocalsInv, LocalsOf
  <2>2. pc' \in [Proc -> Labels]
    BY <1>9, <1>pc DEF ClearPage, Goto, Labels
  <2>3. pagedir' \in [Page -> Pte]
    BY <1>9, <1>pagedir, <2>1, PteUpdate DEF ClearPage, Cleared, Entry
  <2> QED  BY <1>9, <2>2, <2>3 DEF ClearPage, IInv, TypeOK, locals, locks, frames, pages,
     contents
<1>10. CASE ReleaseFrame(p)
  <2>1. fte[p] \in Entry
    BY <1>10 DEF ReleaseFrame, IInv, LocalsInv, LocalsOf
  <2>2. pc' \in [Proc -> Labels]
    BY <1>10, <1>pc DEF ReleaseFrame, Goto, Labels
  <2>3. user_pool' \subseteq Frame
    BY <1>10, <1>user_pool, <2>1 DEF ReleaseFrame, Entry
  <2> QED  BY <1>10, <2>2, <2>3 DEF ReleaseFrame, IInv, TypeOK, locals, locks, frames,
     pages, contents
<1>11. CASE Repalloc(p)
  <2>1. pc' \in [Proc -> Labels]
    BY <1>11, <1>pc DEF Repalloc, Goto, Labels, Retry
  <2>2. frame' \in [Proc -> Frame \cup {None}]
    BY <1>11, <1>frame, <1>user_pool DEF Repalloc, TakeFrame
  <2>3. hand' \in [Proc -> Nat]
    BY <1>11, <1>hand DEF Repalloc
  <2>4. fte' \in [Proc -> Entry \cup {None}]
    BY <1>11, <1>fte DEF Repalloc
  <2>5. frame_tbl_lock' \in Proc \cup {None}
    BY <1>11, <1>frame_tbl_lock DEF Repalloc
  <2>6. user_pool' \subseteq Frame
    BY <1>11, <1>user_pool DEF Repalloc, TakeFrame
  <2>7. mem' \in [Frame -> Data]
    BY <1>11, <1>mem, ZerosType DEF Repalloc, TakeFrame
  <2> QED  BY <1>11, <2>1, <2>2, <2>3, <2>4, <2>5, <2>6, <2>7
     DEF Repalloc, IInv, TypeOK, locals, locks, frames, pages, contents
<1>12. CASE AddFrame(p)
  <2>1. [frame |-> frame[p], spte |-> cur[p]] \in Entry
    BY <1>12 DEF AddFrame, IInv, LocalsInv, LocalsOf, Idle, Entry
  <2>2. pc' \in [Proc -> Labels]
    BY <1>12, <1>pc DEF AddFrame, Goto, Labels
  <2>3. frame_tbl_list' \in Seq(Entry)
    BY <1>12, <1>frame_tbl_list, <2>1 DEF AddFrame
  <2> QED  BY <1>12, <2>2, <2>3 DEF AddFrame, IInv, TypeOK, locals, locks, frames, pages,
     contents
<1>13. CASE LoadPage(p)
  <2>1. cur[p] \in Page /\ (~spte[cur[p]].is_loaded) \in BOOLEAN
    BY <1>13, <1>spt, <1>spte DEF LoadPage, Spte
  <2>2. pc' \in [Proc -> Labels]
    BY <1>13, <1>pc DEF LoadPage, Kill, Goto, Labels
  <2>3. spte' \in [Page -> Spte]
    BY <1>13, <1>spte, <2>1, SpteUpdate DEF LoadPage
  <2> QED  BY <1>13, <2>2, <2>3 DEF LoadPage, IInv, TypeOK, locals, locks, frames, pages,
     contents
<1>14. CASE StackGrowth(p)
  <2>1. [NewSpte("SWAP") EXCEPT !.is_loaded = TRUE, !.pinned = TRUE] \in Spte
    BY DEF NewSpte, Spte
  <2>2. pc' \in [Proc -> Labels]
    BY <1>14, <1>pc DEF StackGrowth, Goto, Labels
  <2>3. spte' \in [Page -> Spte]
    BY <1>14, <1>spte, <2>1 DEF StackGrowth
  <2> QED  BY <1>14, <2>2, <2>3 DEF StackGrowth, IInv, TypeOK, locals, locks, frames,
     pages, contents
<1>15. CASE BadAddress(p)
  <2>1. pc' \in [Proc -> Labels]
    BY <1>15, <1>pc DEF BadAddress, Kill, Goto, Labels
  <2> QED  BY <1>15, <2>1 DEF BadAddress, IInv, TypeOK, locals, locks, frames, pages, contents
<1>16. ASSUME NEW short \in BOOLEAN, ReadFile(p, short) PROVE TypeOK'
  <2>1. cur[p] \in Page
    BY <1>16 DEF ReadFile, IInv, LocalsInv, LocalsOf, Idle
  <2>2. pc' \in [Proc -> Labels]
    BY <1>16, <1>pc DEF ReadFile, Goto, Labels, AfterRead
  <2>3. mem' \in [Frame -> Data]
    BY <1>16, <1>mem, <2>1, <1>file DEF ReadFile
  <2> QED  BY <1>16, <2>2, <2>3 DEF ReadFile, IInv, TypeOK, locals, locks, frames, pages,
     contents
<1>16f. CASE InstallFails(p)
  <2>1. pc' \in [Proc -> Labels]
    BY <1>16f, <1>pc DEF InstallFails, Goto, Labels
  <2> QED  BY <1>16f, <2>1 DEF InstallFails, IInv, TypeOK, locals, locks, frames, pages, contents
<1>17. CASE InstallPage(p)
  <2>1. cur[p] \in Page
    BY <1>17 DEF InstallPage, IInv, LocalsInv, LocalsOf, Idle
  <2>2. mem[frame[p]] \in Data
    BY <1>17, <1>mem DEF InstallPage, IInv, LocalsInv, LocalsOf
  <2>3. [Unmapped EXCEPT !.frame = frame[p]] \in Pte
    BY <1>frame DEF Unmapped, Pte
  <2>4. spte' = spte \/ spte' = [spte EXCEPT ![cur[p]].is_loaded = TRUE]
    BY <1>17 DEF InstallPage
  <2>5. pc' \in [Proc -> Labels]
    BY <1>17, <1>pc DEF InstallPage, Resume, Goto, Labels
  <2>6. frame' \in [Proc -> Frame \cup {None}]
    BY <1>17, <1>frame DEF InstallPage
  <2>7. pagedir' \in [Page -> Pte]
    BY <1>17, <1>pagedir, <2>1, <2>3 DEF InstallPage
  <2>8. spte' \in [Page -> Spte]
    BY ONLY <1>spte, <2>1, <2>4, LoadUpdate
  <2>9. spt' \subseteq Page
    BY <1>17, <1>spt, <2>1 DEF InstallPage
  <2>10. want' \in [Page -> Data]
    BY <1>17, <1>want, <2>1, <2>2 DEF InstallPage
  <2> QED  BY <1>17, <2>5, <2>6, <2>7, <2>8, <2>9, <2>10
     DEF InstallPage, IInv, TypeOK, locals, locks, frames, pages, contents
<1>18. CASE SwapIn(p)
  <2>1. cur[p] \in Page
    BY <1>18 DEF SwapIn, IInv, LocalsInv, LocalsOf, Idle
  <2>2. \/ pagedir' = pagedir
        \/ pagedir' = [pagedir EXCEPT ![cur[p]].accessed = TRUE, ![cur[p]].dirty = TRUE]
    BY <1>18 DEF SwapIn
  <2>3. spte' = spte \/ spte' = [spte EXCEPT ![cur[p]].is_loaded = TRUE]
    BY <1>18 DEF SwapIn
  <2>4. \/ mem' = mem
        \/ \E slot \in swap_map : mem' = [mem EXCEPT ![pagedir[cur[p]].frame] = disk[slot]]
    BY <1>18 DEF SwapIn
  <2>5. pc' \in [Proc -> Labels]
    BY <1>18, <1>pc DEF SwapIn, Goto, Labels
  <2>6. pagedir' \in [Page -> Pte]
    BY ONLY <1>pagedir, <2>1, <2>2, LoadUpdate
  <2>7. spte' \in [Page -> Spte]
    BY ONLY <1>spte, <2>1, <2>3, LoadUpdate
  <2>8. swap_map' \subseteq Slot
    BY <1>18, <1>swap_map DEF SwapIn, FreedSlot
  <2>9. mem' \in [Frame -> Data]
    BY <1>18, <1>mem, <2>4, <1>swap_map, <1>disk DEF SwapIn
  <2> QED  BY <1>18, <2>5, <2>6, <2>7, <2>8, <2>9
     DEF SwapIn, IInv, TypeOK, locals, locks, frames, pages, contents
<1>19. CASE Unpin(p)
  <2>1. cur[p] \in Page
    BY <1>19 DEF Unpin, IInv, LocalsInv, LocalsOf, Idle
  <2>2. pc' \in [Proc -> Labels]
    BY <1>19, <1>pc DEF Unpin, Resume, Goto, Labels
  <2>3. frame' \in [Proc -> Frame \cup {None}]
    BY <1>19, <1>frame DEF Unpin
  <2>4. spte' \in [Page -> Spte]
    BY <1>19, <1>spte, <2>1, SpteUpdate DEF Unpin
  <2> QED  BY <1>19, <2>2, <2>3, <2>4 DEF Unpin, IInv, TypeOK, locals, locks, frames,
     pages, contents
<1>20. CASE Undo(p)
  <2>1. cur[p] \in Page
    BY <1>20 DEF Undo, IInv, LocalsInv, LocalsOf, Idle
  <2>2. pc' \in [Proc -> Labels]
    BY <1>20, <1>pc DEF Undo, Kill, Goto, Labels
  <2>3. frame' \in [Proc -> Frame \cup {None}]
    BY <1>20, <1>frame DEF Undo
  <2>4. spte' \in [Page -> Spte]
    BY <1>20, <1>spte, <2>1, SpteUpdate DEF Undo
  <2>5. frame_tbl_list' \in Seq(Entry)
    BY <1>20, <1>frame_tbl_list, <1>user_pool, FreeFrameType DEF Undo
  <2>6. user_pool' \subseteq Frame
    BY <1>20, <1>user_pool, <1>frame_tbl_list, FreeFrameType DEF Undo
  <2> QED  BY <1>20, <2>2, <2>3, <2>4, <2>5, <2>6
     DEF Undo, IInv, TypeOK, locals, locks, frames, pages, contents
<1>21. CASE SysLock(p)
  <2>1. pc' \in [Proc -> Labels]
    BY <1>21, <1>pc DEF SysLock, Goto, Labels
  <2>2. file_lock' \in Proc \cup {None}
    BY <1>21, <1>file_lock DEF SysLock, LockFile
  <2>3. frame_tbl_lock' \in Proc \cup {None}
    BY <1>21, <1>frame_tbl_lock DEF SysLock, LockFile
  <2> QED  BY <1>21, <2>1, <2>2, <2>3 DEF SysLock, IInv, TypeOK, locals, locks, frames,
     pages, contents
<1>22. ASSUME NEW write \in BOOLEAN, SysCopy(p, write) PROVE TypeOK'
  <2>1. cur[p] \in Page
    BY <1>22 DEF SysCopy, IInv, LocalsInv, LocalsOf, Idle
  <2>2. pc' \in [Proc -> Labels]
    BY <1>22, <1>pc DEF SysCopy, Goto, Labels
  <2>3. mode' \in [Proc -> Modes]
    BY <1>22, <1>mode DEF SysCopy, Modes
  <2>4. pagedir' \in [Page -> Pte]
    BY <1>22, <1>pagedir, <2>1, PteUpdate DEF SysCopy, Touch
  <2>5. mem' \in [Frame -> Data]
    BY <1>22, <1>mem, <2>1 DEF SysCopy, Touch, Store, Stored, Data
  <2>6. want' \in [Page -> Data]
    BY <1>22, <1>want, <2>1 DEF SysCopy, Touch, Store, Stored, Data
  <2>7. file_lock' \in Proc \cup {None}
    BY <1>22, <1>file_lock DEF SysCopy, UnlockFile
  <2>8. frame_tbl_lock' \in Proc \cup {None}
    BY <1>22, <1>frame_tbl_lock DEF SysCopy, UnlockFile
  <2> QED  BY <1>22, <2>2, <2>3, <2>4, <2>5, <2>6, <2>7, <2>8
     DEF SysCopy, IInv, TypeOK, locals, locks, frames, pages, contents
<1>23. CASE KernelFault(p)
  <2>1. pc' \in [Proc -> Labels]
    BY <1>23, <1>pc DEF KernelFault, Goto, Labels
  <2> QED  BY <1>23, <2>1 DEF KernelFault, IInv, TypeOK, locals, locks, frames, pages,
     contents
<1>24. CASE ProcessExit(p)
  <2>1. pc' \in [Proc -> Labels]
    BY <1>24, <1>pc DEF ProcessExit, Goto, Labels
  <2>2. mode' \in [Proc -> Modes]
    BY <1>24, <1>mode DEF ProcessExit, Modes
  <2> QED  BY <1>24, <2>1, <2>2 DEF ProcessExit, IInv, TypeOK, locals, locks, frames,
     pages, contents
<1>25. CASE NextMapping(p)
  <2>1. Head(mmap_list[p]) \in Page
    BY <1>25, <1>mmap_list DEF NextMapping
  <2>2. pc' \in [Proc -> Labels]
    BY <1>25, <1>pc DEF NextMapping, Goto, Labels
  <2>3. cur' \in [Proc -> Page \cup {None}]
    BY <1>25, <1>cur, <2>1 DEF NextMapping
  <2>4. spte' \in [Page -> Spte]
    BY <1>25, <1>spte, <2>1, SpteUpdate DEF NextMapping
  <2> QED  BY <1>25, <2>2, <2>3, <2>4 DEF NextMapping, IInv, TypeOK, locals, locks, frames,
     pages, contents
<1>26. CASE LastMapping(p)
  <2>1. pc' \in [Proc -> Labels]
    BY <1>26, <1>pc DEF LastMapping, Goto, Labels
  <2>2. mode' \in [Proc -> Modes]
    BY <1>26, <1>mode DEF LastMapping, Modes
  <2> QED  BY <1>26, <2>1, <2>2 DEF LastMapping, IInv, TypeOK, locals, locks, frames,
     pages, contents
<1>27. CASE NextEntry(p)
  <2>1. pc' \in [Proc -> Labels]
    BY <1>27, <1>pc DEF NextEntry, Goto, Labels
  <2>2. cur' \in [Proc -> Page \cup {None}]
    BY <1>27, <1>cur DEF NextEntry, PagesOf
  <2> QED  BY <1>27, <2>1, <2>2 DEF NextEntry, IInv, TypeOK, locals, locks, frames, pages,
     contents
<1>28. CASE CheckLoaded(p)
  <2>1. pc' \in [Proc -> Labels]
    BY <1>28, <1>pc DEF CheckLoaded, Goto, Labels
  <2> QED  BY <1>28, <2>1 DEF CheckLoaded, IInv, TypeOK, locals, locks, frames, pages,
     contents
<1>29. CASE MmLock(p)
  <2>1. pc' \in [Proc -> Labels]
    BY <1>29, <1>pc DEF MmLock, Goto, Labels
  <2>2. file_lock' \in Proc \cup {None}
    BY <1>29, <1>file_lock DEF MmLock, LockFile
  <2>3. frame_tbl_lock' \in Proc \cup {None}
    BY <1>29, <1>frame_tbl_lock DEF MmLock, LockFile
  <2> QED  BY <1>29, <2>1, <2>2, <2>3 DEF MmLock, IInv, TypeOK, locals, locks, frames,
     pages, contents
<1>30. CASE MmWrite(p)
  <2>1. cur[p] \in Page
    BY <1>30 DEF MmWrite, IInv, LocalsInv, LocalsOf, Idle
  <2>2. pagedir[cur[p]].frame \in Frame
    BY <1>30, <2>1, <1>pagedir DEF MmWrite, Mapped, Pte
  <2>3. pc' \in [Proc -> Labels]
    BY <1>30, <1>pc DEF MmWrite, Goto, Labels
  <2>4. file' \in [Page -> Data]
    BY <1>30, <1>file, <2>1, <2>2, <1>mem DEF MmWrite
  <2>5. pagedir' \in [Page -> Pte]
    BY <1>30, <1>pagedir, <2>1, PteUpdate DEF MmWrite
  <2>6. file_lock' \in Proc \cup {None}
    BY <1>30, <1>file_lock DEF MmWrite, UnlockFile
  <2>7. frame_tbl_lock' \in Proc \cup {None}
    BY <1>30, <1>frame_tbl_lock DEF MmWrite, UnlockFile
  <2> QED  BY <1>30, <2>3, <2>4, <2>5, <2>6, <2>7
     DEF MmWrite, IInv, TypeOK, locals, locks, frames, pages, contents
<1>31. CASE GetPage(p)
  <2>1. cur[p] \in Page
    BY <1>31 DEF GetPage, IInv, LocalsInv, LocalsOf, Idle
  <2>2. pc' \in [Proc -> Labels]
    BY <1>31, <1>pc DEF GetPage, Goto, Labels
  <2>3. frame' \in [Proc -> Frame \cup {None}]
    BY <1>31, <1>frame, <2>1, <1>pagedir DEF GetPage, Pte
  <2> QED  BY <1>31, <2>2, <2>3 DEF GetPage, IInv, TypeOK, locals, locks, frames, pages,
     contents
<1>32. CASE FreePage(p)
  <2>1. pc' \in [Proc -> Labels]
    BY <1>32, <1>pc DEF FreePage, Goto, Labels
  <2>2. frame' \in [Proc -> Frame \cup {None}]
    BY <1>32, <1>frame DEF FreePage
  <2>3. frame_tbl_list' \in Seq(Entry)
    BY <1>32, <1>frame_tbl_list, <1>user_pool, FreeFrameType DEF FreePage
  <2>4. user_pool' \subseteq Frame
    BY <1>32, <1>user_pool, <1>frame_tbl_list, FreeFrameType DEF FreePage
  <2> QED  BY <1>32, <2>1, <2>2, <2>3, <2>4
     DEF FreePage, IInv, TypeOK, locals, locks, frames, pages, contents
<1>33. CASE UnmapPage(p)
  <2>1. cur[p] \in Page
    BY <1>33 DEF UnmapPage, IInv, LocalsInv, LocalsOf, Idle
  <2>2. pc' \in [Proc -> Labels]
    BY <1>33, <1>pc DEF UnmapPage, Goto, Labels
  <2>3. pagedir' \in [Page -> Pte]
    BY <1>33, <1>pagedir, <2>1, PteUpdate DEF UnmapPage, Cleared
  <2> QED  BY <1>33, <2>2, <2>3 DEF UnmapPage, IInv, TypeOK, locals, locks, frames, pages,
     contents
<1>34. CASE DropEntry(p)
  <2>1. mode[p] # "destroy" => Tail(mmap_list[p]) \in Seq(Page)
    BY <1>34, <1>mmap_list DEF DropEntry, IInv, LocalsInv, LocalsOf, Unmapping
  <2>2. pc' \in [Proc -> Labels]
    BY <1>34, <1>pc DEF DropEntry, Goto, Labels
  <2>3. spt' \subseteq Page
    BY <1>34, <1>spt DEF DropEntry
  <2>4. mmap_list' \in [Proc -> Seq(Page)]
    BY <1>34, <1>mmap_list, <2>1 DEF DropEntry, WithoutMapping
  <2> QED  BY <1>34, <2>2, <2>3, <2>4 DEF DropEntry, IInv, TypeOK, locals, locks, frames,
     pages, contents
<1>35. CASE PagedirDestroy(p)
  <2>1. pc' \in [Proc -> Labels]
    BY <1>35, <1>pc DEF PagedirDestroy, Goto, Labels
  <2>2. user_pool' \subseteq Frame
    BY <1>35, <1>user_pool, <1>pagedir DEF PagedirDestroy, PagesOf, Mapped, Pte
  <2>3. pagedir' \in [Page -> Pte]
    BY <1>35, <1>pagedir DEF PagedirDestroy, Pte, Unmapped
  <2> QED  BY <1>35, <2>1, <2>2, <2>3 DEF PagedirDestroy, IInv, TypeOK, locals, locks,
     frames, pages, contents
<1>36. ASSUME NEW pg \in Page, NEW write \in BOOLEAN, UserAccess(p, pg, write) PROVE TypeOK'
  <2>1. pagedir' \in [Page -> Pte]
    BY <1>36, <1>pagedir, PteUpdate DEF UserAccess, Touch
  <2>2. mem' \in [Frame -> Data]
    BY <1>36, <1>mem DEF UserAccess, Touch, Store, Stored, Data
  <2>3. want' \in [Page -> Data]
    BY <1>36, <1>want DEF UserAccess, Touch, Store, Stored, Data
  <2> QED  BY <1>36, <2>1, <2>2, <2>3 DEF UserAccess, IInv, TypeOK, locals, locks, frames,
     pages, contents
<1>37. ASSUME NEW pg \in Page, UserFault(p, pg) PROVE TypeOK'
  <2>1. pc' \in [Proc -> Labels]
    BY <1>37, <1>pc DEF UserFault, Goto, Labels
  <2>2. cur' \in [Proc -> Page \cup {None}]
    BY <1>37, <1>cur DEF UserFault
  <2> QED  BY <1>37, <2>1, <2>2 DEF UserFault, IInv, TypeOK, locals, locks, frames, pages,
     contents
<1>38. ASSUME NEW pg \in Page, SysIO(p, pg) PROVE TypeOK'
  <2>1. pc' \in [Proc -> Labels]
    BY <1>38, <1>pc DEF SysIO, Goto, Labels
  <2>2. cur' \in [Proc -> Page \cup {None}]
    BY <1>38, <1>cur DEF SysIO
  <2>3. mode' \in [Proc -> Modes]
    BY <1>38, <1>mode DEF SysIO, Modes
  <2> QED  BY <1>38, <2>1, <2>2, <2>3 DEF SysIO, IInv, TypeOK, locals, locks, frames,
     pages, contents
<1>39. CASE Mmap(p)
  <2>1. \A pg \in ToSet(Region[p]) : pg \in Page
    BY RegionPages
  <2>2. spt' \subseteq Page
    BY <1>39, <1>spt, <2>1 DEF Mmap
  <2>3. mmap_list' \in [Proc -> Seq(Page)]
    BY <1>39, <1>mmap_list, VMConstants DEF Mmap
  <2>4. spte' \in [Page -> Spte]
    BY <1>39, <1>spte DEF Mmap, NewSpte, Spte
  <2>5. want' \in [Page -> Data]
    BY <1>39, <1>want, <1>file DEF Mmap
  <2> QED  BY <1>39, <2>2, <2>3, <2>4, <2>5
     DEF Mmap, IInv, TypeOK, locals, locks, frames, pages, contents
<1>40. CASE Munmap(p)
  <2>1. pc' \in [Proc -> Labels]
    BY <1>40, <1>pc DEF Munmap, Goto, Labels
  <2>2. mode' \in [Proc -> Modes]
    BY <1>40, <1>mode DEF Munmap, Modes
  <2> QED  BY <1>40, <2>1, <2>2 DEF Munmap, IInv, TypeOK, locals, locks, frames, pages,
     contents
<1>41. CASE Exit(p)
  <2>1. pc' \in [Proc -> Labels]
    BY <1>41, <1>pc DEF Exit, Goto, Labels
  <2> QED  BY <1>41, <2>1 DEF Exit, IInv, TypeOK, locals, locks, frames, pages, contents
<1> QED  BY <1>1, <1>2, <1>3, <1>4, <1>5, <1>6, <1>7, <1>8, <1>9, <1>10, <1>11, <1>12,
   <1>13, <1>14, <1>15, <1>16, <1>16f, <1>17, <1>18, <1>19, <1>20, <1>21, <1>22, <1>23, <1>24,
   <1>25, <1>26, <1>27, <1>28, <1>29, <1>30, <1>31, <1>32, <1>33, <1>34, <1>35, <1>36,
   <1>37, <1>38, <1>39, <1>40, <1>41 DEF Program, Kernel, FrameStep, PageStep,
   TeardownStep, PagesOf

-----------------------------------------------------------------------------
\* What a thread's step leaves alone: the place and the locals of the others.
SameFor(q) ==
  /\ pc'[q] = pc[q] /\ mode'[q] = mode[q] /\ cur'[q] = cur[q] /\ frame'[q] = frame[q]
  /\ hand'[q] = hand[q] /\ fte'[q] = fte[q] /\ mmap_list'[q] = mmap_list[q]

\* A step of one thread leaves the others where they are.
LEMMA OthersKept ==
  ASSUME TypeOK, NEW p \in Proc, NEW q \in Proc \ {p}, Program(p) \/ Kernel(p)
  PROVE  SameFor(q)
<1>0. /\ pc \in [Proc -> Labels] /\ mode \in [Proc -> Modes]
      /\ cur \in [Proc -> Page \cup {None}] /\ frame \in [Proc -> Frame \cup {None}]
      /\ hand \in [Proc -> Nat] /\ fte \in [Proc -> Entry \cup {None}]
      /\ mmap_list \in [Proc -> Seq(Page)]
  BY DEF TypeOK
<1>1. CASE FrameAlloc(p)
  BY <1>1, <1>0 DEF FrameAlloc, Goto, TakeFrame, SameFor, locals, pages
<1>2. CASE FrameAllocFails(p)
  BY <1>2, <1>0 DEF FrameAllocFails, Goto, SameFor, locals, pages
<1>3. CASE EvictFrame(p)
  BY <1>3, <1>0 DEF EvictFrame, Goto, SameFor, locals, pages
<1>4. CASE ScanEntry(p)
  BY <1>4, <1>0 DEF ScanEntry, Goto, SameFor, locals, pages
<1>5. CASE TestVictim(p)
  BY <1>5, <1>0 DEF TestVictim, Goto, SameFor, locals, pages
<1>6. CASE WriteBack(p)
  BY <1>6, <1>0 DEF WriteBack, Goto, SameFor, locals, pages
<1>7. CASE SwapOut(p)
  BY <1>7, <1>0 DEF SwapOut, Goto, SameFor, locals, pages
<1>8. CASE Unload(p)
  BY <1>8, <1>0 DEF Unload, Goto, SameFor, locals, pages
<1>9. CASE ClearPage(p)
  BY <1>9, <1>0 DEF ClearPage, Goto, SameFor, locals, pages
<1>10. CASE ReleaseFrame(p)
  BY <1>10, <1>0 DEF ReleaseFrame, Goto, SameFor, locals, pages
<1>11. CASE Repalloc(p)
  BY <1>11, <1>0 DEF Repalloc, Goto, TakeFrame, SameFor, locals, pages
<1>12. CASE AddFrame(p)
  BY <1>12, <1>0 DEF AddFrame, Goto, SameFor, locals, pages
<1>13. CASE LoadPage(p)
  BY <1>13, <1>0 DEF LoadPage, Goto, Kill, SameFor, locals, pages
<1>14. CASE StackGrowth(p)
  BY <1>14, <1>0 DEF StackGrowth, Goto, SameFor, locals, pages
<1>15. CASE BadAddress(p)
  BY <1>15, <1>0 DEF BadAddress, Kill, Goto, SameFor, locals, pages
<1>16. ASSUME NEW short \in BOOLEAN, ReadFile(p, short) PROVE SameFor(q)
  BY <1>16, <1>0 DEF ReadFile, Goto, SameFor, locals, pages
<1>16f. CASE InstallFails(p)
  BY <1>16f, <1>0 DEF InstallFails, Goto, SameFor, locals, pages
<1>17. CASE InstallPage(p)
  BY <1>17, <1>0 DEF InstallPage, Goto, Resume, SameFor, locals, pages
<1>18. CASE SwapIn(p)
  BY <1>18, <1>0 DEF SwapIn, Goto, SameFor, locals, pages
<1>19. CASE Unpin(p)
  BY <1>19, <1>0 DEF Unpin, Resume, Goto, SameFor, locals, pages
<1>20. CASE Undo(p)
  BY <1>20, <1>0 DEF Undo, Kill, Goto, SameFor, locals, pages
<1>21. CASE SysLock(p)
  BY <1>21, <1>0 DEF SysLock, Goto, SameFor, locals, pages
<1>22. ASSUME NEW write \in BOOLEAN, SysCopy(p, write) PROVE SameFor(q)
  BY <1>22, <1>0 DEF SysCopy, Goto, SameFor, locals, pages
<1>23. CASE KernelFault(p)
  BY <1>23, <1>0 DEF KernelFault, Goto, SameFor, locals, pages
<1>24. CASE ProcessExit(p)
  BY <1>24, <1>0 DEF ProcessExit, Goto, SameFor, locals, pages
<1>25. CASE NextMapping(p)
  BY <1>25, <1>0 DEF NextMapping, Goto, SameFor, locals, pages
<1>26. CASE LastMapping(p)
  BY <1>26, <1>0 DEF LastMapping, Goto, SameFor, locals, pages
<1>27. CASE NextEntry(p)
  BY <1>27, <1>0 DEF NextEntry, Goto, SameFor, locals, pages
<1>28. CASE CheckLoaded(p)
  BY <1>28, <1>0 DEF CheckLoaded, Goto, SameFor, locals, pages
<1>29. CASE MmLock(p)
  BY <1>29, <1>0 DEF MmLock, Goto, SameFor, locals, pages
<1>30. CASE MmWrite(p)
  BY <1>30, <1>0 DEF MmWrite, Goto, SameFor, locals, pages
<1>31. CASE GetPage(p)
  BY <1>31, <1>0 DEF GetPage, Goto, SameFor, locals, pages
<1>32. CASE FreePage(p)
  BY <1>32, <1>0 DEF FreePage, Goto, SameFor, locals, pages
<1>33. CASE UnmapPage(p)
  BY <1>33, <1>0 DEF UnmapPage, Goto, SameFor, locals, pages
<1>34. CASE DropEntry(p)
  BY <1>34, <1>0 DEF DropEntry, Goto, WithoutMapping, SameFor, locals, pages
<1>35. CASE PagedirDestroy(p)
  BY <1>35, <1>0 DEF PagedirDestroy, Goto, SameFor, locals, pages
<1>36. ASSUME NEW pg \in Page, NEW write \in BOOLEAN, UserAccess(p, pg, write) PROVE SameFor(q)
  BY <1>36, <1>0 DEF UserAccess, SameFor, locals, pages
<1>37. ASSUME NEW pg \in Page, UserFault(p, pg) PROVE SameFor(q)
  BY <1>37, <1>0 DEF UserFault, Goto, SameFor, locals, pages
<1>38. ASSUME NEW pg \in Page, SysIO(p, pg) PROVE SameFor(q)
  BY <1>38, <1>0 DEF SysIO, Goto, SameFor, locals, pages
<1>39. CASE Mmap(p)
  BY <1>39, <1>0 DEF Mmap, SameFor, locals, pages
<1>40. CASE Munmap(p)
  BY <1>40, <1>0 DEF Munmap, Goto, SameFor, locals, pages
<1>41. CASE Exit(p)
  BY <1>41, <1>0 DEF Exit, Goto, SameFor, locals, pages
<1> QED  BY <1>1, <1>2, <1>3, <1>4, <1>5, <1>6, <1>7, <1>8, <1>9, <1>10, <1>11, <1>12,
   <1>13, <1>14, <1>15, <1>16, <1>16f, <1>17, <1>18, <1>19, <1>20, <1>21, <1>22, <1>23, <1>24,
   <1>25, <1>26, <1>27, <1>28, <1>29, <1>30, <1>31, <1>32, <1>33, <1>34, <1>35, <1>36,
   <1>37, <1>38, <1>39, <1>40, <1>41 DEF Program, Kernel, FrameStep, PageStep,
   TeardownStep, PagesOf

LockMoves(p) ==
  /\ frame_tbl_lock' = p <=> pc'[p] \in Evicting
  /\ \A q \in Proc \ {p} : frame_tbl_lock' = q <=> frame_tbl_lock = q

\* Taking and releasing the lock, seen by the thread that moves.
LEMMA LockMove ==
  ASSUME TypeOK, LockInv, NEW p \in Proc, Program(p) \/ Kernel(p)
  PROVE  LockMoves(p)
<1>0. pc \in [Proc -> Labels] /\ None \notin Proc /\ (frame_tbl_lock = p <=> pc[p] \in Evicting)
  BY VMConstants DEF TypeOK, LockInv
<1>1. CASE FrameAlloc(p)
  BY <1>1, <1>0 DEF FrameAlloc, Goto, LockMoves, Evicting, locks
<1>2. CASE FrameAllocFails(p)
  BY <1>2, <1>0 DEF FrameAllocFails, Goto, LockMoves, Evicting, locks
<1>3. CASE EvictFrame(p)
  BY <1>3, <1>0 DEF EvictFrame, Goto, TableUnlocked, LockMoves, Evicting, locks
<1>4. CASE ScanEntry(p)
  BY <1>4, <1>0 DEF ScanEntry, Goto, LockMoves, Evicting, locks
<1>5. CASE TestVictim(p)
  BY <1>5, <1>0 DEF TestVictim, Goto, LockMoves, Evicting, locks
<1>6. CASE WriteBack(p)
  BY <1>6, <1>0 DEF WriteBack, Goto, LockMoves, Evicting, locks
<1>7. CASE SwapOut(p)
  BY <1>7, <1>0 DEF SwapOut, Goto, LockMoves, Evicting, locks
<1>8. CASE Unload(p)
  BY <1>8, <1>0 DEF Unload, Goto, LockMoves, Evicting, locks
<1>9. CASE ClearPage(p)
  BY <1>9, <1>0 DEF ClearPage, Goto, LockMoves, Evicting, locks
<1>10. CASE ReleaseFrame(p)
  BY <1>10, <1>0 DEF ReleaseFrame, Goto, LockMoves, Evicting, locks
<1>11. CASE Repalloc(p)
  BY <1>11, <1>0 DEF Repalloc, Goto, Retry, LockMoves, Evicting, locks
<1>12. CASE AddFrame(p)
  BY <1>12, <1>0 DEF AddFrame, Goto, TableUnlocked, LockMoves, Evicting, locks
<1>13. CASE LoadPage(p)
  BY <1>13, <1>0 DEF LoadPage, Goto, Kill, LockMoves, Evicting, locks
<1>14. CASE StackGrowth(p)
  BY <1>14, <1>0 DEF StackGrowth, Goto, LockMoves, Evicting, locks
<1>15. CASE BadAddress(p)
  BY <1>15, <1>0 DEF BadAddress, Kill, Goto, LockMoves, Evicting, locks
<1>16. ASSUME NEW short \in BOOLEAN, ReadFile(p, short) PROVE LockMoves(p)
  BY <1>16, <1>0 DEF ReadFile, Goto, AfterRead, LockMoves, Evicting, locks
<1>16f. CASE InstallFails(p)
  BY <1>16f, <1>0 DEF InstallFails, Goto, LockMoves, Evicting, locks
<1>17. CASE InstallPage(p)
  BY <1>17, <1>0 DEF InstallPage, Goto, Resume, LockMoves, Evicting, locks
<1>18. CASE SwapIn(p)
  BY <1>18, <1>0 DEF SwapIn, Goto, LockMoves, Evicting, locks
<1>19. CASE Unpin(p)
  BY <1>19, <1>0 DEF Unpin, Resume, Goto, LockMoves, Evicting, locks
<1>20. CASE Undo(p)
  BY <1>20, <1>0 DEF Undo, Kill, Goto, LockMoves, Evicting, locks
<1>21. CASE SysLock(p)
  BY <1>21, <1>0 DEF SysLock, Goto, LockFile, LockMoves, Evicting, locks
<1>22. ASSUME NEW write \in BOOLEAN, SysCopy(p, write) PROVE LockMoves(p)
  BY <1>22, <1>0 DEF SysCopy, Goto, UnlockFile, LockMoves, Evicting, locks
<1>23. CASE KernelFault(p)
  BY <1>23, <1>0 DEF KernelFault, Goto, LockMoves, Evicting, locks
<1>24. CASE ProcessExit(p)
  BY <1>24, <1>0 DEF ProcessExit, Goto, LockMoves, Evicting, locks
<1>25. CASE NextMapping(p)
  BY <1>25, <1>0 DEF NextMapping, Goto, LockMoves, Evicting, locks
<1>26. CASE LastMapping(p)
  BY <1>26, <1>0 DEF LastMapping, Goto, LockMoves, Evicting, locks
<1>27. CASE NextEntry(p)
  BY <1>27, <1>0 DEF NextEntry, Goto, LockMoves, Evicting, locks
<1>28. CASE CheckLoaded(p)
  BY <1>28, <1>0 DEF CheckLoaded, Goto, LockMoves, Evicting, locks
<1>29. CASE MmLock(p)
  BY <1>29, <1>0 DEF MmLock, Goto, LockFile, LockMoves, Evicting, locks
<1>30. CASE MmWrite(p)
  BY <1>30, <1>0 DEF MmWrite, Goto, UnlockFile, LockMoves, Evicting, locks
<1>31. CASE GetPage(p)
  BY <1>31, <1>0 DEF GetPage, Goto, LockMoves, Evicting, locks
<1>32. CASE FreePage(p)
  BY <1>32, <1>0 DEF FreePage, Goto, LockMoves, Evicting, locks
<1>33. CASE UnmapPage(p)
  BY <1>33, <1>0 DEF UnmapPage, Goto, LockMoves, Evicting, locks
<1>34. CASE DropEntry(p)
  BY <1>34, <1>0 DEF DropEntry, Goto, LockMoves, Evicting, locks
<1>35. CASE PagedirDestroy(p)
  BY <1>35, <1>0 DEF PagedirDestroy, Goto, LockMoves, Evicting, locks
<1>36. ASSUME NEW pg \in Page, NEW write \in BOOLEAN, UserAccess(p, pg, write) PROVE LockMoves(p)
  BY <1>36, <1>0 DEF UserAccess, LockMoves, Evicting, locks
<1>37. ASSUME NEW pg \in Page, UserFault(p, pg) PROVE LockMoves(p)
  BY <1>37, <1>0 DEF UserFault, Goto, LockMoves, Evicting, locks
<1>38. ASSUME NEW pg \in Page, SysIO(p, pg) PROVE LockMoves(p)
  BY <1>38, <1>0 DEF SysIO, Goto, LockMoves, Evicting, locks
<1>39. CASE Mmap(p)
  BY <1>39, <1>0 DEF Mmap, LockMoves, Evicting, locks
<1>40. CASE Munmap(p)
  BY <1>40, <1>0 DEF Munmap, Goto, LockMoves, Evicting, locks
<1>41. CASE Exit(p)
  BY <1>41, <1>0 DEF Exit, Goto, LockMoves, Evicting, locks
<1> QED  BY <1>1, <1>2, <1>3, <1>4, <1>5, <1>6, <1>7, <1>8, <1>9, <1>10, <1>11, <1>12,
   <1>13, <1>14, <1>15, <1>16, <1>16f, <1>17, <1>18, <1>19, <1>20, <1>21, <1>22, <1>23, <1>24,
   <1>25, <1>26, <1>27, <1>28, <1>29, <1>30, <1>31, <1>32, <1>33, <1>34, <1>35, <1>36,
   <1>37, <1>38, <1>39, <1>40, <1>41 DEF Program, Kernel, FrameStep, PageStep,
   TeardownStep, PagesOf

\* frame_tbl_lock stays with the thread that is inside evict_frame.
LEMMA LockStep ==
  ASSUME TypeOK, LockInv, NEW p \in Proc, Program(p) \/ Kernel(p)
  PROVE  LockInv'
<1>1. (frame_tbl_lock' = p) <=> (pc'[p] \in Evicting)
  BY LockMove DEF LockMoves
<1>2. ASSUME NEW q \in Proc \ {p} PROVE (frame_tbl_lock' = q) <=> (pc'[q] \in Evicting)
  BY LockMove, OthersKept DEF LockMoves, SameFor, LockInv
<1> QED  BY <1>1, <1>2 DEF LockInv, Evicting

\* The frame table changes only while no other thread holds its lock.
LEMMA TableMove ==
  ASSUME TypeOK, LockInv, NEW p \in Proc, Program(p) \/ Kernel(p),
         frame_tbl_list' # frame_tbl_list
  PROVE  frame_tbl_lock \in {None, p}
<1>0. frame_tbl_lock = p <=> pc[p] \in Evicting
  BY DEF LockInv
<1>1. CASE FrameAlloc(p)
  BY <1>1, <1>0 DEF FrameAlloc, Evicting, frames, TableUnlocked
<1>2. CASE FrameAllocFails(p)
  BY <1>2, <1>0 DEF FrameAllocFails, Evicting, frames, TableUnlocked
<1>3. CASE EvictFrame(p)
  BY <1>3, <1>0 DEF EvictFrame, Evicting, frames, TableUnlocked
<1>4. CASE ScanEntry(p)
  BY <1>4, <1>0 DEF ScanEntry, Evicting, frames, TableUnlocked
<1>5. CASE TestVictim(p)
  BY <1>5, <1>0 DEF TestVictim, Evicting, frames, TableUnlocked
<1>6. CASE WriteBack(p)
  BY <1>6, <1>0 DEF WriteBack, Evicting, frames, TableUnlocked
<1>7. CASE SwapOut(p)
  BY <1>7, <1>0 DEF SwapOut, Evicting, frames, TableUnlocked
<1>8. CASE Unload(p)
  BY <1>8, <1>0 DEF Unload, Evicting, frames, TableUnlocked
<1>9. CASE ClearPage(p)
  BY <1>9, <1>0 DEF ClearPage, Evicting, frames, TableUnlocked
<1>10. CASE ReleaseFrame(p)
  BY <1>10, <1>0 DEF ReleaseFrame, Evicting, frames, TableUnlocked
<1>11. CASE Repalloc(p)
  BY <1>11, <1>0 DEF Repalloc, Evicting, frames, TableUnlocked
<1>12. CASE AddFrame(p)
  BY <1>12, <1>0 DEF AddFrame, Evicting, frames, TableUnlocked
<1>13. CASE LoadPage(p)
  BY <1>13, <1>0 DEF LoadPage, Evicting, frames, TableUnlocked
<1>14. CASE StackGrowth(p)
  BY <1>14, <1>0 DEF StackGrowth, Evicting, frames, TableUnlocked
<1>15. CASE BadAddress(p)
  BY <1>15, <1>0 DEF BadAddress, Evicting, frames, TableUnlocked
<1>16. ASSUME NEW short \in BOOLEAN, ReadFile(p, short) PROVE frame_tbl_lock \in {None, p}
  BY <1>16, <1>0 DEF ReadFile, Evicting, frames, TableUnlocked
<1>16f. CASE InstallFails(p)
  BY <1>16f, <1>0 DEF InstallFails, Evicting, frames, TableUnlocked
<1>17. CASE InstallPage(p)
  BY <1>17, <1>0 DEF InstallPage, Evicting, frames, TableUnlocked
<1>18. CASE SwapIn(p)
  BY <1>18, <1>0 DEF SwapIn, Evicting, frames, TableUnlocked
<1>19. CASE Unpin(p)
  BY <1>19, <1>0 DEF Unpin, Evicting, frames, TableUnlocked
<1>20. CASE Undo(p)
  BY <1>20, <1>0 DEF Undo, FreeFrame, Evicting, frames, TableUnlocked
<1>21. CASE SysLock(p)
  BY <1>21, <1>0 DEF SysLock, Evicting, frames, TableUnlocked
<1>22. ASSUME NEW write \in BOOLEAN, SysCopy(p, write) PROVE frame_tbl_lock \in {None, p}
  BY <1>22, <1>0 DEF SysCopy, Evicting, frames, TableUnlocked
<1>23. CASE KernelFault(p)
  BY <1>23, <1>0 DEF KernelFault, Evicting, frames, TableUnlocked
<1>24. CASE ProcessExit(p)
  BY <1>24, <1>0 DEF ProcessExit, Evicting, frames, TableUnlocked
<1>25. CASE NextMapping(p)
  BY <1>25, <1>0 DEF NextMapping, Evicting, frames, TableUnlocked
<1>26. CASE LastMapping(p)
  BY <1>26, <1>0 DEF LastMapping, Evicting, frames, TableUnlocked
<1>27. CASE NextEntry(p)
  BY <1>27, <1>0 DEF NextEntry, Evicting, frames, TableUnlocked
<1>28. CASE CheckLoaded(p)
  BY <1>28, <1>0 DEF CheckLoaded, Evicting, frames, TableUnlocked
<1>29. CASE MmLock(p)
  BY <1>29, <1>0 DEF MmLock, Evicting, frames, TableUnlocked
<1>30. CASE MmWrite(p)
  BY <1>30, <1>0 DEF MmWrite, Evicting, frames, TableUnlocked
<1>31. CASE GetPage(p)
  BY <1>31, <1>0 DEF GetPage, Evicting, frames, TableUnlocked
<1>32. CASE FreePage(p)
  BY <1>32, <1>0 DEF FreePage, FreeFrame, Evicting, frames, TableUnlocked
<1>33. CASE UnmapPage(p)
  BY <1>33, <1>0 DEF UnmapPage, Evicting, frames, TableUnlocked
<1>34. CASE DropEntry(p)
  BY <1>34, <1>0 DEF DropEntry, Evicting, frames, TableUnlocked
<1>35. CASE PagedirDestroy(p)
  BY <1>35, <1>0 DEF PagedirDestroy, Evicting, frames, TableUnlocked
<1>36. ASSUME NEW pg \in Page, NEW write \in BOOLEAN, UserAccess(p, pg, write)
       PROVE  frame_tbl_lock \in {None, p}
  BY <1>36, <1>0 DEF UserAccess, Evicting, frames, TableUnlocked
<1>37. ASSUME NEW pg \in Page, UserFault(p, pg) PROVE frame_tbl_lock \in {None, p}
  BY <1>37, <1>0 DEF UserFault, Evicting, frames, TableUnlocked
<1>38. ASSUME NEW pg \in Page, SysIO(p, pg) PROVE frame_tbl_lock \in {None, p}
  BY <1>38, <1>0 DEF SysIO, Evicting, frames, TableUnlocked
<1>39. CASE Mmap(p)
  BY <1>39, <1>0 DEF Mmap, Evicting, frames, TableUnlocked
<1>40. CASE Munmap(p)
  BY <1>40, <1>0 DEF Munmap, Evicting, frames, TableUnlocked
<1>41. CASE Exit(p)
  BY <1>41, <1>0 DEF Exit, Evicting, frames, TableUnlocked
<1> QED  BY <1>1, <1>2, <1>3, <1>4, <1>5, <1>6, <1>7, <1>8, <1>9, <1>10, <1>11, <1>12,
   <1>13, <1>14, <1>15, <1>16, <1>16f, <1>17, <1>18, <1>19, <1>20, <1>21, <1>22, <1>23, <1>24,
   <1>25, <1>26, <1>27, <1>28, <1>29, <1>30, <1>31, <1>32, <1>33, <1>34, <1>35, <1>36,
   <1>37, <1>38, <1>39, <1>40, <1>41 DEF Program, Kernel, FrameStep, PageStep,
   TeardownStep, PagesOf

\* The moving thread's own hand.
LEMMA HandMove ==
  ASSUME TypeOK, panic = "none", NEW p \in Proc, Program(p) \/ Kernel(p), HandOf(p)
  PROVE  HandOf(p)'
<1>0. /\ pc \in [Proc -> Labels] /\ hand \in [Proc -> Nat]
      /\ fte \in [Proc -> Entry \cup {None}] /\ frame_tbl_list \in Seq(Entry)
  BY DEF TypeOK
<1>1. CASE FrameAlloc(p)
  BY <1>1, <1>0 DEF FrameAlloc, Goto, HandOf, Chosen, locals, frames
<1>2. CASE FrameAllocFails(p)
  BY <1>2, <1>0 DEF FrameAllocFails, Goto, HandOf, Chosen, locals, frames
<1>3. CASE EvictFrame(p)
  <2>1. panic' = "none" => 1 \in 1..Len(frame_tbl_list)
    BY <1>3, <1>0 DEF EvictFrame
  <2> QED  BY <1>3, <2>1, <1>0 DEF EvictFrame, Goto, HandOf, Chosen, frames
<1>4. CASE ScanEntry(p)
  BY <1>4, <1>0 DEF ScanEntry, Goto, NextHand, HandOf, Chosen, locals, frames
<1>5. CASE TestVictim(p)
  BY <1>5, <1>0 DEF TestVictim, Goto, HandOf, Chosen, locals, frames
<1>6. CASE WriteBack(p)
  BY <1>6, <1>0 DEF WriteBack, Goto, HandOf, Chosen, locals, frames
<1>7. CASE SwapOut(p)
  BY <1>7, <1>0 DEF SwapOut, Goto, HandOf, Chosen, locals, frames
<1>8. CASE Unload(p)
  BY <1>8, <1>0 DEF Unload, Goto, HandOf, Chosen, locals, frames
<1>9. CASE ClearPage(p)
  BY <1>9, <1>0 DEF ClearPage, Goto, HandOf, Chosen, locals, frames
<1>10. CASE ReleaseFrame(p)
  BY <1>10, <1>0 DEF ReleaseFrame, Goto, HandOf, Chosen, locals, frames
<1>11. CASE Repalloc(p)
  BY <1>11, <1>0 DEF Repalloc, Goto, Retry, HandOf, Chosen, locals, frames
<1>12. CASE AddFrame(p)
  BY <1>12, <1>0 DEF AddFrame, Goto, HandOf, Chosen, locals, frames
<1>13. CASE LoadPage(p)
  BY <1>13, <1>0 DEF LoadPage, Goto, Kill, HandOf, Chosen, locals, frames
<1>14. CASE StackGrowth(p)
  BY <1>14, <1>0 DEF StackGrowth, Goto, HandOf, Chosen, locals, frames
<1>15. CASE BadAddress(p)
  BY <1>15, <1>0 DEF BadAddress, Kill, Goto, HandOf, Chosen, locals, frames
<1>16. ASSUME NEW short \in BOOLEAN, ReadFile(p, short) PROVE HandOf(p)'
  BY <1>16, <1>0 DEF ReadFile, Goto, AfterRead, HandOf, Chosen, locals, frames
<1>16f. CASE InstallFails(p)
  BY <1>16f, <1>0 DEF InstallFails, Goto, HandOf, Chosen, locals, frames
<1>17. CASE InstallPage(p)
  BY <1>17, <1>0 DEF InstallPage, Goto, Resume, HandOf, Chosen, locals, frames
<1>18. CASE SwapIn(p)
  BY <1>18, <1>0 DEF SwapIn, Goto, HandOf, Chosen, locals, frames
<1>19. CASE Unpin(p)
  BY <1>19, <1>0 DEF Unpin, Resume, Goto, HandOf, Chosen, locals, frames
<1>20. CASE Undo(p)
  BY <1>20, <1>0 DEF Undo, Kill, Goto, HandOf, Chosen, locals, frames
<1>21. CASE SysLock(p)
  BY <1>21, <1>0 DEF SysLock, Goto, HandOf, Chosen, locals, frames
<1>22. ASSUME NEW write \in BOOLEAN, SysCopy(p, write) PROVE HandOf(p)'
  BY <1>22, <1>0 DEF SysCopy, Goto, HandOf, Chosen, locals, frames
<1>23. CASE KernelFault(p)
  BY <1>23, <1>0 DEF KernelFault, Goto, HandOf, Chosen, locals, frames
<1>24. CASE ProcessExit(p)
  BY <1>24, <1>0 DEF ProcessExit, Goto, HandOf, Chosen, locals, frames
<1>25. CASE NextMapping(p)
  BY <1>25, <1>0 DEF NextMapping, Goto, HandOf, Chosen, locals, frames
<1>26. CASE LastMapping(p)
  BY <1>26, <1>0 DEF LastMapping, Goto, HandOf, Chosen, locals, frames
<1>27. CASE NextEntry(p)
  BY <1>27, <1>0 DEF NextEntry, Goto, HandOf, Chosen, locals, frames
<1>28. CASE CheckLoaded(p)
  BY <1>28, <1>0 DEF CheckLoaded, Goto, HandOf, Chosen, locals, frames
<1>29. CASE MmLock(p)
  BY <1>29, <1>0 DEF MmLock, Goto, HandOf, Chosen, locals, frames
<1>30. CASE MmWrite(p)
  BY <1>30, <1>0 DEF MmWrite, Goto, HandOf, Chosen, locals, frames
<1>31. CASE GetPage(p)
  BY <1>31, <1>0 DEF GetPage, Goto, HandOf, Chosen, locals, frames
<1>32. CASE FreePage(p)
  BY <1>32, <1>0 DEF FreePage, Goto, HandOf, Chosen, locals, frames
<1>33. CASE UnmapPage(p)
  BY <1>33, <1>0 DEF UnmapPage, Goto, HandOf, Chosen, locals, frames
<1>34. CASE DropEntry(p)
  BY <1>34, <1>0 DEF DropEntry, Goto, HandOf, Chosen, locals, frames
<1>35. CASE PagedirDestroy(p)
  BY <1>35, <1>0 DEF PagedirDestroy, Goto, HandOf, Chosen, locals, frames
<1>36. ASSUME NEW pg \in Page, NEW write \in BOOLEAN, UserAccess(p, pg, write) PROVE HandOf(p)'
  BY <1>36, <1>0 DEF UserAccess, HandOf, Chosen, locals, frames
<1>37. ASSUME NEW pg \in Page, UserFault(p, pg) PROVE HandOf(p)'
  BY <1>37, <1>0 DEF UserFault, Goto, HandOf, Chosen, locals, frames
<1>38. ASSUME NEW pg \in Page, SysIO(p, pg) PROVE HandOf(p)'
  BY <1>38, <1>0 DEF SysIO, Goto, HandOf, Chosen, locals, frames
<1>39. CASE Mmap(p)
  BY <1>39, <1>0 DEF Mmap, HandOf, Chosen, locals, frames
<1>40. CASE Munmap(p)
  BY <1>40, <1>0 DEF Munmap, Goto, HandOf, Chosen, locals, frames
<1>41. CASE Exit(p)
  BY <1>41, <1>0 DEF Exit, Goto, HandOf, Chosen, locals, frames
<1> QED  BY <1>1, <1>2, <1>3, <1>4, <1>5, <1>6, <1>7, <1>8, <1>9, <1>10, <1>11, <1>12,
   <1>13, <1>14, <1>15, <1>16, <1>16f, <1>17, <1>18, <1>19, <1>20, <1>21, <1>22, <1>23, <1>24,
   <1>25, <1>26, <1>27, <1>28, <1>29, <1>30, <1>31, <1>32, <1>33, <1>34, <1>35, <1>36,
   <1>37, <1>38, <1>39, <1>40, <1>41 DEF Program, Kernel, FrameStep, PageStep,
   TeardownStep, PagesOf

\* No step of any thread moves an entry under another thread's hand.
LEMMA HandStep ==
  ASSUME TypeOK, LockInv, HandInv, panic = "none", NEW p \in Proc, Program(p) \/ Kernel(p)
  PROVE  HandInv'
<1>1. \A q \in Proc : HandOf(q)
  BY DEF HandInv
<1>2. HandOf(p)'
  BY <1>1, HandMove
<1>3. ASSUME NEW q \in Proc \ {p} PROVE HandOf(q)'
  <2>1. CASE frame_tbl_list' = frame_tbl_list
    BY <1>1, <2>1, OthersKept DEF SameFor, HandOf
  <2>2. CASE frame_tbl_list' # frame_tbl_list
    <3>1. frame_tbl_lock # q
      BY <2>2, TableMove, VMConstants
    <3>2. pc[q] \notin Evicting
      BY <3>1 DEF LockInv
    <3> QED  BY <3>2, OthersKept DEF SameFor, HandOf, Evicting, Chosen
  <2> QED  BY <2>1, <2>2
<1>4. \A q \in Proc : HandOf(q)'
  BY <1>2, <1>3
<1> QED  BY <1>4 DEF HandInv

\* The moving thread's own locals.
LEMMA LocalsMove ==
  ASSUME TypeOK, HandInv, NEW p \in Proc, Program(p) \/ Kernel(p), LocalsOf(p)
  PROVE  LocalsOf(p)'
<1>0. /\ pc \in [Proc -> Labels] /\ mode \in [Proc -> Modes]
      /\ cur \in [Proc -> Page \cup {None}] /\ frame \in [Proc -> Frame \cup {None}]
      /\ fte \in [Proc -> Entry \cup {None}] /\ mmap_list \in [Proc -> Seq(Page)]
      /\ user_pool \subseteq Frame /\ spt \subseteq Page /\ frame_tbl_list \in Seq(Entry)
  BY DEF TypeOK
<1>1. CASE FrameAlloc(p)
  BY <1>1, <1>0 DEF FrameAlloc, Goto, TakeFrame, LocalsOf, Idle, Unmapping, Modes, locals,
     pages
<1>2. CASE FrameAllocFails(p)
  BY <1>2, <1>0 DEF FrameAllocFails, Goto, LocalsOf, Idle, Unmapping, Modes, locals, pages
<1>3. CASE EvictFrame(p)
  BY <1>3, <1>0 DEF EvictFrame, Goto, LocalsOf, Idle, Unmapping, Modes, locals, pages
<1>4. CASE ScanEntry(p)
  BY <1>4, <1>0 DEF ScanEntry, Goto, LocalsOf, Idle, Unmapping, Modes, locals, pages
<1>5. CASE TestVictim(p)
  BY <1>5, <1>0 DEF TestVictim, Goto, LocalsOf, Idle, Unmapping, Modes, locals, pages
<1>6. CASE WriteBack(p)
  BY <1>6, <1>0 DEF WriteBack, Goto, LocalsOf, Idle, Unmapping, Modes, locals, pages
<1>7. CASE SwapOut(p)
  BY <1>7, <1>0 DEF SwapOut, Goto, LocalsOf, Idle, Unmapping, Modes, locals, pages
<1>8. CASE Unload(p)
  <2>1. hand[p] \in 1..Len(frame_tbl_list) /\ fte[p] = frame_tbl_list[hand[p]]
    BY <1>8 DEF Unload, HandInv, HandOf, Chosen
  <2>2. fte[p] \in Entry
    BY <2>1, <1>0
  <2> QED  BY <1>8, <2>2, <1>0 DEF Unload, Goto, LocalsOf, Idle, Unmapping, locals, pages
<1>9. CASE ClearPage(p)
  BY <1>9, <1>0 DEF ClearPage, Goto, LocalsOf, Idle, Unmapping, Modes, locals, pages
<1>10. CASE ReleaseFrame(p)
  BY <1>10, <1>0 DEF ReleaseFrame, Goto, LocalsOf, Idle, Unmapping, Modes, locals, pages
<1>11. CASE Repalloc(p)
  BY <1>11, <1>0 DEF Repalloc, Goto, TakeFrame, Retry, LocalsOf, Idle, Unmapping, Modes,
     locals, pages
<1>12. CASE AddFrame(p)
  BY <1>12, <1>0 DEF AddFrame, Goto, LocalsOf, Idle, Unmapping, Modes, locals, pages
<1>13. CASE LoadPage(p)
  BY <1>13, <1>0 DEF LoadPage, Goto, Kill, LocalsOf, Idle, Unmapping, Modes, locals, pages
<1>14. CASE StackGrowth(p)
  BY <1>14, <1>0 DEF StackGrowth, Goto, LocalsOf, Idle, Unmapping, Modes, locals, pages
<1>15. CASE BadAddress(p)
  BY <1>15, <1>0 DEF BadAddress, Kill, Goto, LocalsOf, Idle, Unmapping, Modes, locals, pages
<1>16. ASSUME NEW short \in BOOLEAN, ReadFile(p, short) PROVE LocalsOf(p)'
  BY <1>16, <1>0 DEF ReadFile, Goto, AfterRead, LocalsOf, Idle, Unmapping, Modes, locals,
     pages
<1>16f. CASE InstallFails(p)
  BY <1>16f, <1>0 DEF InstallFails, Goto, LocalsOf, Idle, Unmapping, Modes, locals,
     pages
<1>17. CASE InstallPage(p)
  BY <1>17, <1>0 DEF InstallPage, Goto, Resume, LocalsOf, Idle, Unmapping, Modes, locals,
     pages
<1>18. CASE SwapIn(p)
  BY <1>18, <1>0 DEF SwapIn, Goto, LocalsOf, Idle, Unmapping, Modes, locals, pages
<1>19. CASE Unpin(p)
  BY <1>19, <1>0 DEF Unpin, Resume, Goto, LocalsOf, Idle, Unmapping, Modes, locals, pages
<1>20. CASE Undo(p)
  BY <1>20, <1>0 DEF Undo, Kill, Goto, LocalsOf, Idle, Unmapping, Modes, locals, pages
<1>21. CASE SysLock(p)
  BY <1>21, <1>0 DEF SysLock, Goto, LocalsOf, Idle, Unmapping, Modes, locals, pages
<1>22. ASSUME NEW write \in BOOLEAN, SysCopy(p, write) PROVE LocalsOf(p)'
  BY <1>22, <1>0 DEF SysCopy, Goto, LocalsOf, Idle, Unmapping, Modes, locals, pages
<1>23. CASE KernelFault(p)
  BY <1>23, <1>0 DEF KernelFault, Goto, LocalsOf, Idle, Unmapping, Modes, locals, pages
<1>24. CASE ProcessExit(p)
  BY <1>24, <1>0 DEF ProcessExit, Goto, LocalsOf, Idle, Unmapping, Modes, locals, pages
<1>25. CASE NextMapping(p)
  BY <1>25, <1>0 DEF NextMapping, Goto, LocalsOf, Idle, Unmapping, Modes, locals, pages
<1>26. CASE LastMapping(p)
  BY <1>26, <1>0 DEF LastMapping, Goto, LocalsOf, Idle, Unmapping, Modes, locals, pages
<1>27. CASE NextEntry(p)
  BY <1>27, <1>0 DEF NextEntry, Goto, PagesOf, LocalsOf, Idle, Unmapping, Modes, locals, pages
<1>28. CASE CheckLoaded(p)
  BY <1>28, <1>0 DEF CheckLoaded, Goto, LocalsOf, Idle, Unmapping, Modes, locals, pages
<1>29. CASE MmLock(p)
  BY <1>29, <1>0 DEF MmLock, Goto, LocalsOf, Idle, Unmapping, Modes, locals, pages
<1>30. CASE MmWrite(p)
  BY <1>30, <1>0 DEF MmWrite, Goto, LocalsOf, Idle, Unmapping, Modes, locals, pages
<1>31. CASE GetPage(p)
  BY <1>31, <1>0 DEF GetPage, Goto, LocalsOf, Idle, Unmapping, Modes, locals, pages
<1>32. CASE FreePage(p)
  BY <1>32, <1>0 DEF FreePage, Goto, LocalsOf, Idle, Unmapping, Modes, locals, pages
<1>33. CASE UnmapPage(p)
  BY <1>33, <1>0 DEF UnmapPage, Goto, LocalsOf, Idle, Unmapping, Modes, locals, pages
<1>34. CASE DropEntry(p)
  BY <1>34, <1>0 DEF DropEntry, Goto, WithoutMapping, LocalsOf, Idle, Unmapping, Modes,
     locals, pages
<1>35. CASE PagedirDestroy(p)
  BY <1>35, <1>0 DEF PagedirDestroy, Goto, PagesOf, LocalsOf, Idle, Unmapping, Modes,
     locals, pages
<1>36. ASSUME NEW pg \in Page, NEW write \in BOOLEAN, UserAccess(p, pg, write) PROVE LocalsOf(p)'
  BY <1>36, <1>0 DEF UserAccess, LocalsOf, Idle, Unmapping, Modes, locals, pages
<1>37. ASSUME NEW pg \in Page, UserFault(p, pg) PROVE LocalsOf(p)'
  BY <1>37, <1>0 DEF UserFault, Goto, LocalsOf, Idle, Unmapping, Modes, locals, pages
<1>38. ASSUME NEW pg \in Page, SysIO(p, pg) PROVE LocalsOf(p)'
  BY <1>38, <1>0 DEF SysIO, Goto, LocalsOf, Idle, Unmapping, Modes, locals, pages
<1>39. CASE Mmap(p)
  BY <1>39, <1>0 DEF Mmap, LocalsOf, Idle, Unmapping, Modes, locals, pages
<1>40. CASE Munmap(p)
  BY <1>40, <1>0 DEF Munmap, Goto, LocalsOf, Idle, Unmapping, Modes, locals, pages
<1>41. CASE Exit(p)
  BY <1>41, <1>0 DEF Exit, Goto, LocalsOf, Idle, Unmapping, Modes, locals, pages
<1> QED  BY <1>1, <1>2, <1>3, <1>4, <1>5, <1>6, <1>7, <1>8, <1>9, <1>10, <1>11, <1>12,
   <1>13, <1>14, <1>15, <1>16, <1>16f, <1>17, <1>18, <1>19, <1>20, <1>21, <1>22, <1>23, <1>24,
   <1>25, <1>26, <1>27, <1>28, <1>29, <1>30, <1>31, <1>32, <1>33, <1>34, <1>35, <1>36,
   <1>37, <1>38, <1>39, <1>40, <1>41 DEF Program, Kernel, FrameStep, PageStep,
   TeardownStep, PagesOf

\* No step of any thread disturbs the locals of a label.
LEMMA LocalsStep ==
  ASSUME TypeOK, HandInv, LocalsInv, NEW p \in Proc, Program(p) \/ Kernel(p)
  PROVE  LocalsInv'
<1>1. \A q \in Proc : LocalsOf(q)
  BY DEF LocalsInv
<1>2. LocalsOf(p)'
  BY <1>1, LocalsMove
<1>3. ASSUME NEW q \in Proc \ {p} PROVE LocalsOf(q)'
  BY <1>1, OthersKept DEF SameFor, LocalsOf
<1>4. \A q \in Proc : LocalsOf(q)'
  BY <1>2, <1>3
<1> QED  BY <1>4 DEF LocalsInv

FramesOf(s) == {s[k].frame : k \in DOMAIN s}
Distinct(s) == \A i, j \in DOMAIN s : s[i].frame = s[j].frame => i = j

\* Removing an entry of a table without duplicates removes its frame, and no other.
LEMMA RemoveAtFrames ==
  ASSUME NEW s \in Seq(Entry), NEW i \in 1..Len(s), Distinct(s)
  PROVE  /\ Distinct(RemoveAt(s, i))
         /\ FramesOf(RemoveAt(s, i)) = FramesOf(s) \ {s[i].frame}
<1> DEFINE t == RemoveAt(s, i)
<1>1. /\ t \in Seq(Entry) /\ Len(t) = Len(s) - 1
      /\ \A k \in 1..(Len(s) - 1) : t[k] = IF k < i THEN s[k] ELSE s[k + 1]
  BY RemoveAtElements
<1> HIDE DEF t
<1>2. DOMAIN t = 1..(Len(s) - 1) /\ DOMAIN s = 1..Len(s) /\ Len(s) \in Nat
  BY <1>1
<1>3. Distinct(t)
  <2> SUFFICES ASSUME NEW j \in DOMAIN t, NEW k \in DOMAIN t, t[j].frame = t[k].frame
               PROVE  j = k
    BY DEF Distinct
  <2> DEFINE up(x) == IF x < i THEN x ELSE x + 1
  <2>1. up(j) \in DOMAIN s /\ up(k) \in DOMAIN s /\ t[j] = s[up(j)] /\ t[k] = s[up(k)]
    BY <1>1, <1>2
  <2>2. up(j) = up(k)
    BY <2>1 DEF Distinct
  <2> QED  BY <2>2, <1>2
<1>4. ASSUME NEW f \in FramesOf(t) PROVE f \in FramesOf(s) \ {s[i].frame}
  <2>1. PICK k \in DOMAIN t : f = t[k].frame
    BY DEF FramesOf
  <2>2. PICK j \in DOMAIN s : j # i /\ t[k] = s[j]
    <3>1. CASE k < i
      <4>1. k \in DOMAIN s /\ k # i /\ t[k] = s[k]
        BY <3>1, <1>1, <1>2
      <4> QED  BY <4>1
    <3>2. CASE ~(k < i)
      <4>1. k + 1 \in DOMAIN s /\ k + 1 # i /\ t[k] = s[k + 1]
        BY <3>2, <1>1, <1>2
      <4> QED  BY <4>1
    <3> QED  BY <3>1, <3>2
  <2> QED  BY <2>1, <2>2, <1>2 DEF FramesOf, Distinct
<1>5. ASSUME NEW f \in FramesOf(s) \ {s[i].frame} PROVE f \in FramesOf(t)
  <2>1. PICK j \in DOMAIN s : f = s[j].frame /\ j # i
    BY DEF FramesOf
  <2>2. PICK k \in DOMAIN t : t[k] = s[j]
    <3>1. CASE j < i
      BY <3>1, <1>1, <1>2
    <3>2. CASE j > i
      <4>1. j - 1 \in DOMAIN t /\ ~(j - 1 < i) /\ (j - 1) + 1 = j
        BY <3>2, <1>2
      <4> QED  BY <4>1, <1>1, <1>2
    <3> QED  BY <2>1, <3>1, <3>2, <1>2
  <2> QED  BY <2>1, <2>2 DEF FramesOf
<1> QED  BY <1>3, <1>4, <1>5 DEF t

\* Appending an entry whose frame is not tabled.
LEMMA AppendFrames ==
  ASSUME NEW s \in Seq(Entry), NEW e \in Entry, Distinct(s), e.frame \notin FramesOf(s)
  PROVE  /\ Distinct(Append(s, e))
         /\ FramesOf(Append(s, e)) = FramesOf(s) \cup {e.frame}
<1> DEFINE t == Append(s, e)
<1>1. /\ DOMAIN t = 1..(Len(s) + 1) /\ DOMAIN s = 1..Len(s) /\ Len(s) \in Nat
      /\ \A k \in 1..Len(s) : t[k] = s[k]
      /\ t[Len(s) + 1] = e
  OBVIOUS
<1> HIDE DEF t
<1>2. Distinct(t)
  BY <1>1 DEF Distinct, FramesOf
<1>3. FramesOf(t) = FramesOf(s) \cup {e.frame}
  BY <1>1 DEF FramesOf
<1> QED  BY <1>2, <1>3 DEF t

\* The six ways in which a step can move a frame, and what destroys the pool.
Nothing(p)  == UNCHANGED frames /\ InHand(p)' = InHand(p)
Take(p)     == /\ frame_tbl_list' = frame_tbl_list
               /\ InHand(p) = None /\ InHand(p)' \in user_pool
               /\ user_pool' = user_pool \ {InHand(p)'}
Enter(p)    == /\ user_pool' = user_pool
               /\ InHand(p) \in Frame /\ InHand(p)' = None
               /\ \E e \in Entry : /\ e.frame = InHand(p)
                                   /\ frame_tbl_list' = Append(frame_tbl_list, e)
Unlist(p)   == /\ user_pool' = user_pool /\ InHand(p) = None
               /\ \E i \in 1..Len(frame_tbl_list) :
                    /\ frame_tbl_list' = RemoveAt(frame_tbl_list, i)
                    /\ InHand(p)' = frame_tbl_list[i].frame
GiveBack(p) == /\ frame_tbl_list' = frame_tbl_list
               /\ InHand(p) \in Frame /\ InHand(p)' = None
               /\ user_pool' = user_pool \cup {InHand(p)}
Recycle(p)  == /\ InHand(p)' = InHand(p)
               /\ \E i \in 1..Len(frame_tbl_list) :
                    /\ frame_tbl_list' = RemoveAt(frame_tbl_list, i)
                    /\ user_pool' = user_pool \cup {frame_tbl_list[i].frame}
FrameMoves(p) == \/ Nothing(p)  \/ Take(p)    \/ Enter(p) \/ Unlist(p)
                 \/ GiveBack(p) \/ Recycle(p)
Moves(p) == FrameMoves(p) \/ pc'[p] = "dead"

\* Every action is one of these moves.
LEMMA FrameMove ==
  ASSUME IInv, NEW p \in Proc, Program(p) \/ Kernel(p)
  PROVE  Moves(p)
<1>0. /\ pc \in [Proc -> Labels] /\ frame \in [Proc -> Frame \cup {None}]
      /\ fte \in [Proc -> Entry \cup {None}]
  BY DEF IInv, TypeOK
<1>1. CASE FrameAlloc(p)
  <2>1. InHand(p) = None /\ InHand(p)' \in user_pool /\ user_pool' = user_pool \ {InHand(p)'}
    BY <1>1, <1>0 DEF FrameAlloc, TakeFrame, Goto, InHand
  <2> QED  BY <1>1, <2>1 DEF FrameAlloc, Moves, FrameMoves, Take
<1>2. CASE FrameAllocFails(p)
  BY <1>2, <1>0 DEF FrameAllocFails, Goto, InHand, frames, locals, Moves, FrameMoves, Nothing
<1>3. CASE EvictFrame(p)
  BY <1>3, <1>0 DEF EvictFrame, Goto, InHand, frames, locals, Moves, FrameMoves, Nothing
<1>4. CASE ScanEntry(p)
  BY <1>4, <1>0 DEF ScanEntry, Goto, InHand, frames, locals, Moves, FrameMoves, Nothing
<1>5. CASE TestVictim(p)
  BY <1>5, <1>0 DEF TestVictim, Goto, InHand, frames, locals, Moves, FrameMoves, Nothing
<1>6. CASE WriteBack(p)
  BY <1>6, <1>0 DEF WriteBack, Goto, InHand, frames, locals, Moves, FrameMoves, Nothing
<1>7. CASE SwapOut(p)
  BY <1>7, <1>0 DEF SwapOut, Goto, InHand, frames, locals, Moves, FrameMoves, Nothing
<1>8. CASE Unload(p)
  <2>1. hand[p] \in 1..Len(frame_tbl_list) /\ fte[p] = frame_tbl_list[hand[p]]
    BY <1>8 DEF Unload, IInv, HandInv, HandOf, Chosen
  <2>2. InHand(p) = None /\ InHand(p)' = fte[p].frame
    BY <1>8, <1>0 DEF Unload, Goto, InHand, locals
  <2> QED  BY <1>8, <2>1, <2>2 DEF Unload, Unlisted, Moves, FrameMoves, Unlist
<1>9. CASE ClearPage(p)
  BY <1>9, <1>0 DEF ClearPage, Goto, InHand, frames, locals, Moves, FrameMoves, Nothing
<1>10. CASE ReleaseFrame(p)
  <2>1. InHand(p) = fte[p].frame /\ fte[p] \in Entry
    BY <1>10 DEF ReleaseFrame, InHand, IInv, LocalsInv, LocalsOf
  <2>2. InHand(p)' = None
    BY <1>10, <1>0 DEF ReleaseFrame, Goto, InHand
  <2> QED  BY <1>10, <2>1, <2>2 DEF ReleaseFrame, Moves, FrameMoves, GiveBack, Entry
<1>11. CASE Repalloc(p)
  <2>1. CASE user_pool = {}
    BY <1>11, <2>1, <1>0 DEF Repalloc, Retry, Goto, InHand, frames, Moves, FrameMoves, Nothing
  <2>2. CASE user_pool # {}
    <3>1. InHand(p) = None /\ InHand(p)' \in user_pool /\ user_pool' = user_pool \ {InHand(p)'}
      BY <1>11, <2>2, <1>0 DEF Repalloc, TakeFrame, Goto, InHand
    <3> QED  BY <1>11, <3>1 DEF Repalloc, Moves, FrameMoves, Take
  <2> QED  BY <2>1, <2>2
<1>12. CASE AddFrame(p)
  <2> DEFINE e == [frame |-> frame[p], spte |-> cur[p]]
  <2>1. e \in Entry /\ InHand(p) = e.frame /\ InHand(p) \in Frame
    BY <1>12 DEF AddFrame, InHand, IInv, LocalsInv, LocalsOf, Idle, Entry
  <2>2. InHand(p)' = None
    BY <1>12, <1>0 DEF AddFrame, Goto, InHand
  <2> QED  BY <1>12, <2>1, <2>2 DEF AddFrame, Moves, FrameMoves, Enter
<1>13. CASE LoadPage(p)
  BY <1>13, <1>0 DEF LoadPage, Goto, Kill, InHand, frames, locals, Moves, FrameMoves, Nothing
<1>14. CASE StackGrowth(p)
  BY <1>14, <1>0 DEF StackGrowth, Goto, InHand, frames, locals, Moves, FrameMoves, Nothing
<1>15. CASE BadAddress(p)
  BY <1>15, <1>0 DEF BadAddress, Kill, Goto, InHand, frames, locals, Moves, FrameMoves, Nothing
<1>16. ASSUME NEW short \in BOOLEAN, ReadFile(p, short) PROVE Moves(p)
  BY <1>16, <1>0 DEF ReadFile, Goto, AfterRead, InHand, frames, locals, Moves, FrameMoves, Nothing
<1>16f. CASE InstallFails(p)
  BY <1>16f, <1>0 DEF InstallFails, Goto, InHand, frames, locals, Moves, FrameMoves, Nothing
<1>17. CASE InstallPage(p)
  BY <1>17, <1>0 DEF InstallPage, Goto, Resume, InHand, frames, locals, Moves, FrameMoves, Nothing
<1>18. CASE SwapIn(p)
  BY <1>18, <1>0 DEF SwapIn, Goto, InHand, frames, locals, Moves, FrameMoves, Nothing
<1>19. CASE Unpin(p)
  BY <1>19, <1>0 DEF Unpin, Resume, Goto, InHand, frames, locals, Moves, FrameMoves, Nothing
<1>20. CASE Undo(p)
  <2>1. CASE EntriesFor(frame[p]) = {}
    BY <1>20, <2>1, <1>0 DEF Undo, FreeFrame, Kill, Goto, InHand, Moves, FrameMoves, Nothing
  <2>2. CASE EntriesFor(frame[p]) # {}
    <3>1. PICK i \in EntriesFor(frame[p]) : /\ frame_tbl_list' = Unlisted(i)
                                           /\ user_pool' = user_pool \cup {frame[p]}
      BY <1>20, <2>2 DEF Undo, FreeFrame
    <3>2. i \in 1..Len(frame_tbl_list) /\ frame_tbl_list[i].frame = frame[p]
      BY <3>1 DEF EntriesFor, IInv, TypeOK
    <3>3. InHand(p)' = InHand(p)
      BY <1>20, <1>0 DEF Undo, Kill, Goto, InHand
    <3> QED  BY <3>1, <3>2, <3>3 DEF Unlisted, Moves, FrameMoves, Recycle
  <2> QED  BY <2>1, <2>2
<1>21. CASE SysLock(p)
  BY <1>21, <1>0 DEF SysLock, Goto, InHand, frames, locals, Moves, FrameMoves, Nothing
<1>22. ASSUME NEW write \in BOOLEAN, SysCopy(p, write) PROVE Moves(p)
  BY <1>22, <1>0 DEF SysCopy, Goto, InHand, frames, locals, Moves, FrameMoves, Nothing
<1>23. CASE KernelFault(p)
  BY <1>23, <1>0 DEF KernelFault, Goto, InHand, frames, locals, Moves, FrameMoves, Nothing
<1>24. CASE ProcessExit(p)
  BY <1>24, <1>0 DEF ProcessExit, Goto, InHand, frames, locals, Moves, FrameMoves, Nothing
<1>25. CASE NextMapping(p)
  BY <1>25, <1>0 DEF NextMapping, Goto, InHand, frames, locals, Moves, FrameMoves, Nothing
<1>26. CASE LastMapping(p)
  BY <1>26, <1>0 DEF LastMapping, Goto, InHand, frames, locals, Moves, FrameMoves, Nothing
<1>27. CASE NextEntry(p)
  BY <1>27, <1>0 DEF NextEntry, Goto, InHand, frames, locals, Moves, FrameMoves, Nothing
<1>28. CASE CheckLoaded(p)
  BY <1>28, <1>0 DEF CheckLoaded, Goto, InHand, frames, locals, Moves, FrameMoves, Nothing
<1>29. CASE MmLock(p)
  BY <1>29, <1>0 DEF MmLock, Goto, InHand, frames, locals, Moves, FrameMoves, Nothing
<1>30. CASE MmWrite(p)
  BY <1>30, <1>0 DEF MmWrite, Goto, InHand, frames, locals, Moves, FrameMoves, Nothing
<1>31. CASE GetPage(p)
  BY <1>31, <1>0 DEF GetPage, Goto, InHand, frames, locals, Moves, FrameMoves, Nothing
<1>32. CASE FreePage(p)
  <2>1. CASE EntriesFor(frame[p]) = {}
    BY <1>32, <2>1, <1>0 DEF FreePage, FreeFrame, Kill, Goto, InHand, Moves, FrameMoves, Nothing
  <2>2. CASE EntriesFor(frame[p]) # {}
    <3>1. PICK i \in EntriesFor(frame[p]) : /\ frame_tbl_list' = Unlisted(i)
                                           /\ user_pool' = user_pool \cup {frame[p]}
      BY <1>32, <2>2 DEF FreePage, FreeFrame
    <3>2. i \in 1..Len(frame_tbl_list) /\ frame_tbl_list[i].frame = frame[p]
      BY <3>1 DEF EntriesFor, IInv, TypeOK
    <3>3. InHand(p)' = InHand(p)
      BY <1>32, <1>0 DEF FreePage, Kill, Goto, InHand
    <3> QED  BY <3>1, <3>2, <3>3 DEF Unlisted, Moves, FrameMoves, Recycle
  <2> QED  BY <2>1, <2>2
<1>33. CASE UnmapPage(p)
  BY <1>33, <1>0 DEF UnmapPage, Goto, InHand, frames, locals, Moves, FrameMoves, Nothing
<1>34. CASE DropEntry(p)
  BY <1>34, <1>0 DEF DropEntry, Goto, InHand, frames, locals, Moves, FrameMoves, Nothing
<1>35. CASE PagedirDestroy(p)
  BY <1>35, <1>0 DEF PagedirDestroy, Goto, InHand, frames, locals, Moves, FrameMoves, Nothing
<1>36. ASSUME NEW pg \in Page, NEW write \in BOOLEAN, UserAccess(p, pg, write) PROVE Moves(p)
  BY <1>36, <1>0 DEF UserAccess, InHand, frames, locals, Moves, FrameMoves, Nothing
<1>37. ASSUME NEW pg \in Page, UserFault(p, pg) PROVE Moves(p)
  BY <1>37, <1>0 DEF UserFault, Goto, InHand, frames, locals, Moves, FrameMoves, Nothing
<1>38. ASSUME NEW pg \in Page, SysIO(p, pg) PROVE Moves(p)
  BY <1>38, <1>0 DEF SysIO, Goto, InHand, frames, locals, Moves, FrameMoves, Nothing
<1>39. CASE Mmap(p)
  BY <1>39, <1>0 DEF Mmap, InHand, frames, locals, Moves, FrameMoves, Nothing
<1>40. CASE Munmap(p)
  BY <1>40, <1>0 DEF Munmap, Goto, InHand, frames, locals, Moves, FrameMoves, Nothing
<1>41. CASE Exit(p)
  BY <1>41, <1>0 DEF Exit, Goto, InHand, frames, locals, Moves, FrameMoves, Nothing
<1> QED  BY <1>1, <1>2, <1>3, <1>4, <1>5, <1>6, <1>7, <1>8, <1>9, <1>10, <1>11, <1>12,
   <1>13, <1>14, <1>15, <1>16, <1>16f, <1>17, <1>18, <1>19, <1>20, <1>21, <1>22, <1>23, <1>24,
   <1>25, <1>26, <1>27, <1>28, <1>29, <1>30, <1>31, <1>32, <1>33, <1>34, <1>35, <1>36,
   <1>37, <1>38, <1>39, <1>40, <1>41 DEF Program, Kernel, FrameStep, PageStep,
   TeardownStep, PagesOf

\* FramePartition in parts.
Parts(pool, tabled, held) ==
  /\ pool \cup tabled \cup held = Frame
  /\ pool \cap tabled = {} /\ pool \cap held = {} /\ tabled \cap held = {}
HandsDistinct == \A q, r \in Proc : InHand(q) # None /\ InHand(q) = InHand(r) => q = r

\* Every move keeps the partition.
LEMMA PartitionKept ==
  ASSUME IInv, FramePartition, NEW p \in Proc, Program(p) \/ Kernel(p), FrameMoves(p)
  PROVE  FramePartition'
<1>1. /\ frame_tbl_list \in Seq(Entry) /\ user_pool \subseteq Frame
      /\ None \notin Frame
  BY VMConstants DEF IInv, TypeOK
<1>2. \A q \in Proc \ {p} : InHand(q)' = InHand(q)
  BY OthersKept DEF SameFor, InHand, IInv
<1>4. /\ Parts(user_pool, FramesOf(frame_tbl_list), HeldFrames)
      /\ Distinct(frame_tbl_list) /\ HandsDistinct
  BY DEF FramePartition, TabledFrames, Parts, FramesOf, Distinct, HandsDistinct
<1>5. SUFFICES /\ Parts(user_pool', FramesOf(frame_tbl_list'), HeldFrames')
               /\ Distinct(frame_tbl_list') /\ HandsDistinct'
  BY DEF FramePartition, TabledFrames, Parts, FramesOf, Distinct, HandsDistinct
<1>6. ASSUME InHand(p)' = InHand(p)
      PROVE  HeldFrames' = HeldFrames /\ HandsDistinct'
  BY <1>2, <1>4, <1>6 DEF HeldFrames, HandsDistinct
<1>7. ASSUME InHand(p) = None, InHand(p)' \in Frame \ HeldFrames
      PROVE  HeldFrames' = HeldFrames \cup {InHand(p)'} /\ HandsDistinct'
  BY <1>1, <1>2, <1>4, <1>7 DEF HeldFrames, HandsDistinct
<1>8. ASSUME InHand(p) \in Frame, InHand(p)' = None
      PROVE  /\ InHand(p) \in HeldFrames
             /\ HeldFrames' = HeldFrames \ {InHand(p)} /\ HandsDistinct'
  BY <1>1, <1>2, <1>4, <1>8 DEF HeldFrames, HandsDistinct
<1>9. CASE Nothing(p)
  BY <1>4, <1>6, <1>9 DEF Nothing, frames
<1>10. CASE Take(p)
  <2>1. InHand(p)' \in Frame \ HeldFrames
    BY <1>1, <1>4, <1>10 DEF Take, Parts
  <2> QED  BY <1>4, <1>7, <1>10, <2>1 DEF Take, Parts
<1>11. CASE Enter(p)
  <2>1. PICK e \in Entry : e.frame = InHand(p) /\ frame_tbl_list' = Append(frame_tbl_list, e)
    BY <1>11 DEF Enter
  <2>2. e.frame \in HeldFrames /\ HeldFrames' = HeldFrames \ {e.frame} /\ HandsDistinct'
    BY <1>8, <1>11, <2>1 DEF Enter
  <2>3. e.frame \notin FramesOf(frame_tbl_list)
    BY <1>4, <2>2 DEF Parts
  <2>4. /\ Distinct(frame_tbl_list')
        /\ FramesOf(frame_tbl_list') = FramesOf(frame_tbl_list) \cup {e.frame}
    BY <1>1, <1>4, <2>1, <2>3, AppendFrames
  <2> QED  BY <1>4, <1>11, <2>2, <2>4 DEF Enter, Parts
<1>12. CASE Unlist(p)
  <2>1. PICK i \in 1..Len(frame_tbl_list) :
             /\ frame_tbl_list' = RemoveAt(frame_tbl_list, i)
             /\ InHand(p)' = frame_tbl_list[i].frame
    BY <1>12 DEF Unlist
  <2>2. InHand(p)' \in FramesOf(frame_tbl_list)
    BY <1>1, <2>1 DEF FramesOf
  <2>3. /\ Distinct(frame_tbl_list')
        /\ FramesOf(frame_tbl_list') = FramesOf(frame_tbl_list) \ {InHand(p)'}
    BY <1>1, <1>4, <2>1, RemoveAtFrames
  <2>4. HeldFrames' = HeldFrames \cup {InHand(p)'} /\ HandsDistinct'
    BY <1>4, <1>7, <1>12, <2>2 DEF Unlist, Parts
  <2> QED  BY <1>4, <1>12, <2>2, <2>3, <2>4 DEF Unlist, Parts
<1>13. CASE GiveBack(p)
  BY <1>4, <1>8, <1>13 DEF GiveBack, Parts
<1>14. CASE Recycle(p)
  <2>1. PICK i \in 1..Len(frame_tbl_list) :
             /\ frame_tbl_list' = RemoveAt(frame_tbl_list, i)
             /\ user_pool' = user_pool \cup {frame_tbl_list[i].frame}
    BY <1>14 DEF Recycle
  <2>2. frame_tbl_list[i].frame \in FramesOf(frame_tbl_list)
    BY <1>1, <2>1 DEF FramesOf
  <2>3. /\ Distinct(frame_tbl_list')
        /\ FramesOf(frame_tbl_list') = FramesOf(frame_tbl_list) \ {frame_tbl_list[i].frame}
    BY <1>1, <1>4, <2>1, RemoveAtFrames
  <2> QED  BY <1>4, <1>6, <1>14, <2>1, <2>2, <2>3 DEF Recycle, Parts
<1> QED  BY <1>9, <1>10, <1>11, <1>12, <1>13, <1>14 DEF FrameMoves

\* As long as no page directory has been destroyed, every step does.
LEMMA PartitionStep ==
  ASSUME IInv, panic = "none", NEW p \in Proc, Program(p) \/ Kernel(p)
  PROVE  (NobodyDead => FramePartition)'
<1> SUFFICES ASSUME NobodyDead' PROVE FramePartition'
  OBVIOUS
<1>1. pc \in [Proc -> Labels]
  BY DEF IInv, TypeOK
<1>2. \A q \in Proc \ {p} : pc'[q] = pc[q]
  BY OthersKept DEF SameFor, IInv
<1>3. NobodyDead
  <2>1. pc[p] # "dead"
    BY <1>1 DEF Program, Kernel, FrameStep, PageStep, TeardownStep,
      FrameAlloc, FrameAllocFails, EvictFrame, ScanEntry, TestVictim, WriteBack, SwapOut,
      Unload, ClearPage, ReleaseFrame, Repalloc, AddFrame, LoadPage, StackGrowth, BadAddress,
      ReadFile, InstallPage, InstallFails, SwapIn, Unpin, Undo, SysLock, SysCopy, KernelFault,
      ProcessExit, NextMapping, LastMapping, NextEntry, CheckLoaded, MmLock, MmWrite, GetPage,
      FreePage, UnmapPage, DropEntry, PagedirDestroy, UserAccess, UserFault, SysIO, Mmap, Munmap,
      Exit
  <2> QED  BY <1>2, <2>1 DEF NobodyDead
<1>4. FrameMoves(p)
  BY FrameMove DEF Moves, NobodyDead
<1> QED  BY <1>3, <1>4, PartitionKept DEF IInv

-----------------------------------------------------------------------------

\* The kernel starts with every frame in the pool and no thread in the table.
LEMMA InitInv ==
  ASSUME Init
  PROVE  IInv
<1>1. TypeOK
  <2>1. Unmapped \in Pte /\ NewSpte("FILE") \in Spte /\ Zeros \in Data
    BY DEF Unmapped, Pte, NewSpte, Spte, Zeros, Data
  <2>2. \A pg \in Page : Text(pg) \in Data
    BY DEF Text, Data
  <2>3. frame_tbl_list \in Seq(Entry) /\ mmap_list \in [Proc -> Seq(Page)]
    BY DEF Init
  <2> QED  BY <2>1, <2>2, <2>3 DEF Init, TypeOK, Labels, Modes
<1>2. LockInv
  BY VMConstants DEF Init, LockInv, Evicting
<1>3. HandInv /\ LocalsInv
  BY DEF Init, HandInv, HandOf, LocalsInv, LocalsOf, Chosen, Idle, Unmapping
<1>4. FramePartition
  <2>1. TabledFrames = {} /\ HeldFrames = {}
    BY DEF Init, TabledFrames, HeldFrames, InHand
  <2> QED  BY <2>1 DEF Init, FramePartition, InHand
<1> QED  BY <1>1, <1>2, <1>3, <1>4 DEF IInv

\* A step that changes nothing keeps the invariant.
LEMMA StutterInv ==
  ASSUME IInv, UNCHANGED vars
  PROVE  IInv'
<1> USE DEF vars, locals, locks, frames, pages, contents
<1>1. TypeOK'
  BY DEF IInv, TypeOK
<1>2. LockInv' /\ HandInv' /\ LocalsInv'
  BY DEF IInv, LockInv, HandInv, HandOf, LocalsInv, LocalsOf
<1>3. (NobodyDead => FramePartition)'
  BY DEF IInv, NobodyDead, FramePartition, TabledFrames, HeldFrames, InHand
<1> QED  BY <1>1, <1>2, <1>3 DEF IInv

LEMMA StepInv ==
  ASSUME IInv, [Next]_vars
  PROVE  IInv'
<1>1. ASSUME panic = "none", NEW p \in Proc, Program(p) \/ Kernel(p)
      PROVE  IInv'
  <2>1. TypeOK /\ LockInv /\ HandInv /\ LocalsInv
    BY DEF IInv
  <2> QED  BY <1>1, <2>1, TypeStep, LockStep, HandStep, LocalsStep, PartitionStep DEF IInv
<1>2. CASE UNCHANGED vars
  BY <1>2, StutterInv
<1> QED  BY <1>1, <1>2, StutterInv DEF Next, Terminated

\* IInv is an invariant of every behaviour.
THEOREM Inductive == Spec => []IInv
<1> QED  BY InitInv, StepInv, PTL DEF Spec

\* Every variable keeps its type.
THEOREM TypeCorrect == Spec => []TypeOK
<1>1. IInv => TypeOK
  BY DEF IInv
<1> QED  BY <1>1, Inductive, PTL

\* frame_tbl_lock is held exactly by the thread inside evict_frame, so no two
\* threads evict at once, although the lock is taken in one function and
\* released in another.
THEOREM EvictionExclusive ==
  Spec => [](\A p, q \in Proc : pc[p] \in Evicting /\ pc[q] \in Evicting => p = q)
<1>1. IInv => \A p, q \in Proc : pc[p] \in Evicting /\ pc[q] \in Evicting => p = q
  BY DEF IInv, LockInv
<1> QED  BY <1>1, Inductive, PTL

\* evict_frame's list_elem never dangles: until list_remove it stays at the
\* entry of the victim, whatever the other threads do.
THEOREM HandStaysValid == Spec => []HandInv
<1>1. IInv => HandInv
  BY DEF IInv
<1> QED  BY <1>1, Inductive, PTL

\* Until the first page directory is destroyed no frame is lost and none is in
\* two places, whatever the interleaving of faults, evictions and unmappings.
THEOREM FramesPartitioned == Spec => [](NobodyDead => FramePartition)
<1>1. IInv => (NobodyDead => FramePartition)
  BY DEF IInv
<1> QED  BY <1>1, Inductive, PTL
=============================================================================
