---------------------------- MODULE LoaderProofs ----------------------------
(***************************************************************************)
(* Loader: what load has put into memory when it succeeds, and what it     *)
(* leaves behind when it does not, for every size of page, file and address*)
(* space.  The invariant says how far load_segment has come: the pages     *)
(* below d of the segment are right, and its locals are what d says.  That *)
(* of the stack says where words and strings are that have been pushed.    *)
(***************************************************************************)
EXTENDS Loader, FiniteSetTheorems, TLAPS

-----------------------------------------------------------------------------

\* Multiples of the page size P.

LEMMA MultipleOf ==
  ASSUME NEW P \in Nat \ {0}, NEW a \in Int, a % P = 0
  PROVE  \E k \in Int : a = k * P
OBVIOUS

LEMMA OfMultiple ==
  ASSUME NEW P \in Nat \ {0}, NEW k \in Int, NEW r \in 0 .. P - 1
  PROVE  (k * P + r) % P = r
OBVIOUS

LEMMA Remainder ==
  ASSUME NEW P \in Nat \ {0}, NEW a \in Int
  PROVE  a % P \in Int /\ 0 <= a % P /\ a % P < P
OBVIOUS

LEMMA RoundDown ==
  ASSUME NEW P \in Nat \ {0}, NEW a \in Int, NEW r, r = a % P, NEW b, b = a - r
  PROVE  b % P = 0
<1>1. a % P = a - P * (a \div P) /\ a \div P \in Int
  OBVIOUS
<1>2. PICK k \in Int : k = a \div P
  BY <1>1
<1>3. b = k * P + 0 /\ 0 \in 0 .. P - 1
  BY <1>1, <1>2
<1> QED
  BY <1>2, <1>3, OfMultiple

LEMMA RoundUp ==
  ASSUME NEW P \in Nat \ {0}, NEW n \in Int
  PROVE  /\ n \div P \in Int /\ (n \div P) * P \in Int
         /\ ((n \div P) * P) % P = 0
         /\ (n \div P) * P <= n /\ n < (n \div P) * P + P
OBVIOUS

LEMMA MultipleSum ==
  ASSUME NEW P \in Nat \ {0}, NEW a \in Int, NEW b \in Int, a % P = 0, b % P = 0
  PROVE  (a + b) % P = 0 /\ (a - b) % P = 0
<1>1. PICK j \in Int : a = j * P
  BY MultipleOf
<1>2. PICK k \in Int : b = k * P
  BY MultipleOf
<1>3. a + b = (j + k) * P + 0 /\ a - b = (j - k) * P + 0
  BY <1>1, <1>2
<1>4. j + k \in Int /\ j - k \in Int /\ 0 \in 0 .. P - 1
  OBVIOUS
<1> QED
  BY <1>3, <1>4, OfMultiple

LEMMA MultiplePlus ==
  ASSUME NEW P \in Nat \ {0}, NEW a \in Int, a % P = 0, NEW r \in 0 .. P - 1
  PROVE  (a + r) % P = r
<1>1. PICK j \in Int : a = j * P
  BY MultipleOf
<1> QED
  BY <1>1, OfMultiple

LEMMA MultipleGap ==
  ASSUME NEW P \in Nat \ {0}, NEW a \in Int, NEW b \in Int, a % P = 0, b % P = 0, a < b
  PROVE  a + P <= b
<1>1. PICK j \in Int : a = j * P
  BY MultipleOf
<1>2. PICK k \in Int : b = k * P
  BY MultipleOf
<1>3. j + 1 <= k
  BY <1>1, <1>2
<1>4. (j + 1) * P <= k * P
  BY <1>3
<1> QED
  BY <1>1, <1>2, <1>4

LEMMA Small ==
  ASSUME NEW P \in Nat \ {0}, NEW a \in Int, 0 <= a, a < P
  PROVE  a % P = a
OBVIOUS

LEMMA Wrapped ==
  ASSUME NEW P \in Nat \ {0}, NEW a \in Int, P <= a, a < 2 * P
  PROVE  a % P = a - P
OBVIOUS

-----------------------------------------------------------------------------

\* A segment that validate_segment accepts.

Base(h) == pg_round_down(h.p_vaddr)
From(h) == pg_round_down(h.p_offset)
Off(h) == pg_ofs(h.p_vaddr)
FileBytes(h) == IF h.p_filesz > 0 THEN Off(h) + h.p_filesz ELSE 0
Size(h) == ((Off(h) + h.p_memsz + PGSIZE - 1) \div PGSIZE) * PGSIZE

Shaped(h) ==
  /\ {Base(h), From(h), Off(h), FileBytes(h), Size(h)} \subseteq Int
  /\ Base(h) % PGSIZE = 0 /\ Size(h) % PGSIZE = 0
  /\ PGSIZE <= Base(h) /\ Base(h) + Size(h) <= PHYS_BASE
  /\ 0 <= Off(h) /\ Off(h) < PGSIZE /\ 0 <= From(h)
  /\ h.p_vaddr = Base(h) + Off(h) /\ h.p_offset = From(h) + Off(h)
  /\ Off(h) + h.p_memsz <= Size(h) /\ Size(h) < Off(h) + h.p_memsz + PGSIZE
  /\ 0 <= FileBytes(h) /\ FileBytes(h) <= Size(h) /\ 0 < Size(h)
  /\ h.p_vaddr + h.p_memsz < PHYS_BASE

LEMMA Sizes ==
  /\ PGSIZE \in Nat \ {0} /\ PHYS_BASE \in Nat \ {0} /\ Words \in Nat \ {0}
  /\ WORD_SIZE \in Nat \ {0} /\ Pool \in Nat \ {0} /\ FileSize \in Nat
  /\ PHYS_BASE % PGSIZE = 0 /\ 2 * PGSIZE <= PHYS_BASE /\ PHYS_BASE + PGSIZE <= Words
BY LoaderConstants

LEMMA PhdrTypes ==
  ASSUME NEW h \in Phdr
  PROVE  /\ h.p_vaddr \in Int /\ h.p_offset \in Int /\ h.p_filesz \in Int /\ h.p_memsz \in Int
         /\ 0 <= h.p_vaddr /\ h.p_vaddr < Words /\ 0 <= h.p_offset /\ h.p_offset < Words
         /\ 0 <= h.p_filesz /\ h.p_filesz < Words /\ 0 <= h.p_memsz /\ h.p_memsz < Words
         /\ h.writable \in BOOLEAN
BY Sizes DEF Phdr, Uint

\* The sum of address and size does not wrap around.
LEMMA NoWrap ==
  ASSUME NEW h \in Phdr, validate_segment(h)
  PROVE  h.p_vaddr + h.p_memsz < PHYS_BASE
<1>0. /\ h.p_vaddr \in Int /\ h.p_memsz \in Int /\ Words \in Nat \ {0}
      /\ 0 <= h.p_vaddr /\ h.p_vaddr < Words /\ 0 <= h.p_memsz /\ h.p_memsz < Words
  BY Sizes, PhdrTypes
<1>1. CASE h.p_vaddr + h.p_memsz < Words
  <2>1. End32(h) = h.p_vaddr + h.p_memsz
    BY <1>1, Sizes, PhdrTypes, Small DEF End32
  <2> QED
    BY <2>1 DEF validate_segment, is_user_vaddr
<1>2. CASE h.p_vaddr + h.p_memsz >= Words
  <2>1. (h.p_vaddr + h.p_memsz) % Words = h.p_vaddr + h.p_memsz - Words
    <3>1. /\ h.p_vaddr + h.p_memsz \in Int
          /\ Words <= h.p_vaddr + h.p_memsz /\ h.p_vaddr + h.p_memsz < 2 * Words
      BY ONLY <1>0, <1>2
    <3> QED
      BY ONLY <3>1, <1>0, Wrapped
  <2>2. End32(h) < h.p_vaddr
    BY <2>1, <1>0 DEF End32
  <2>3. End32(h) >= h.p_vaddr
    BY DEF validate_segment
  <2>4. End32(h) \in Int /\ h.p_vaddr \in Int
    BY <2>1, Sizes, PhdrTypes DEF End32
  <2> QED
    BY <2>2, <2>3, <2>4
<1> QED
  BY <1>1, <1>2, Sizes, PhdrTypes

LEMMA SegmentShape ==
  ASSUME NEW h \in Phdr, validate_segment(h)
  PROVE  Shaped(h)
<1>v. PICK v : v = h.p_vaddr
  OBVIOUS
<1>o. PICK o : o = h.p_offset
  OBVIOUS
<1>r. PICK r : r = v % PGSIZE
  OBVIOUS
<1> DEFINE n == r + h.p_memsz
<1>0. /\ v \in Int /\ 0 <= v /\ o \in Int /\ 0 <= o /\ h.p_memsz \in Int /\ 0 < h.p_memsz
      /\ h.p_filesz \in Int /\ 0 <= h.p_filesz /\ h.p_filesz <= h.p_memsz
      /\ PGSIZE \in Nat \ {0} /\ PHYS_BASE \in Nat
  BY <1>v, <1>o, Sizes, PhdrTypes DEF validate_segment
<1>1. r \in Int /\ 0 <= r /\ r < PGSIZE /\ r = o % PGSIZE
  <2>1. r = o % PGSIZE
    BY <1>v, <1>o, <1>r DEF validate_segment, pg_ofs
  <2> QED
    BY <2>1, <1>r, <1>0, Remainder
<1>2. /\ Base(h) = v - r /\ From(h) = o - r /\ Off(h) = r
      /\ Base(h) % PGSIZE = 0 /\ From(h) % PGSIZE = 0
  <2>1. Base(h) = v - r /\ Off(h) = r
    BY <1>v, <1>r DEF Base, Off, pg_round_down, pg_ofs
  <2>2. From(h) = o - r
    BY <1>o, <1>1 DEF From, pg_round_down, pg_ofs
  <2> QED
    BY <2>1, <2>2, <1>0, <1>1, <1>r, RoundDown
<1>3. Base(h) \in Int /\ From(h) \in Int /\ Off(h) \in Int
  BY <1>0, <1>1, <1>2
<1>4. v + h.p_memsz < PHYS_BASE /\ v >= PGSIZE
  BY <1>v, NoWrap DEF validate_segment
<1>5. 0 < Base(h)
  BY <1>0, <1>1, <1>2, <1>3, <1>4
<1>6. PGSIZE <= Base(h)
  <2>1. 0 % PGSIZE = 0 /\ 0 \in Int
    BY <1>0, Small
  <2>2. 0 + PGSIZE <= Base(h)
    BY <1>0, <1>2, <1>3, <1>5, <2>1, MultipleGap
  <2> QED
    BY <2>2, <1>0
<1>7. 0 <= From(h)
  <2>1. o >= r
    <3>1. CASE o < PGSIZE
      <4>1. o % PGSIZE = o
        BY <3>1, <1>0, Small
      <4> QED
        BY <4>1, <1>0, <1>1
    <3>2. CASE o >= PGSIZE
      BY <3>2, <1>0, <1>1
    <3> QED
      BY <3>1, <3>2, <1>0
  <2> QED
    BY <2>1, <1>0, <1>1, <1>2
<1>8. /\ Size(h) \in Int /\ Size(h) % PGSIZE = 0
      /\ Size(h) <= n + PGSIZE - 1 /\ n + PGSIZE - 1 < Size(h) + PGSIZE
  <2>1. n + PGSIZE - 1 \in Int
    BY <1>0, <1>1
  <2>2. Size(h) = ((n + PGSIZE - 1) \div PGSIZE) * PGSIZE
    BY <1>2 DEF Size
  <2> QED
    BY <2>1, <2>2, <1>0, RoundUp
<1>9. n <= Size(h) /\ Size(h) < n + PGSIZE /\ 0 < Size(h)
  BY <1>0, <1>1, <1>8
<1>10. Base(h) + Size(h) <= PHYS_BASE
  <2>1. CASE Base(h) + Size(h) > PHYS_BASE
    <3>1. (Base(h) + Size(h)) % PGSIZE = 0 /\ Base(h) + Size(h) \in Int
      <4>1. Base(h) \in Int /\ Size(h) \in Int /\ Base(h) % PGSIZE = 0 /\ Size(h) % PGSIZE = 0
        BY <1>2, <1>3, <1>8
      <4> QED
        BY ONLY <4>1, <1>0, MultipleSum
    <3>2. PHYS_BASE + PGSIZE <= Base(h) + Size(h)
      BY <2>1, <3>1, <1>0, Sizes, MultipleGap
    <3>3. Base(h) + Size(h) < v + h.p_memsz + PGSIZE
      BY <1>0, <1>1, <1>2, <1>8, <1>9
    <3> QED
      BY <3>1, <3>2, <3>3, <1>0, <1>4
  <2> QED
    BY <2>1, <1>0, <1>3, <1>8
<1>11. FileBytes(h) \in Int /\ 0 <= FileBytes(h) /\ FileBytes(h) <= n
  BY <1>0, <1>1, <1>2 DEF FileBytes
<1>12. v = Base(h) + Off(h) /\ o = From(h) + Off(h)
  BY <1>0, <1>1, <1>2
<1>13. FileBytes(h) <= Size(h)
  BY <1>0, <1>1, <1>8, <1>9, <1>11
<1> QED
  BY <1>v, <1>o, <1>0, <1>1, <1>2, <1>3, <1>4, <1>6, <1>7, <1>8, <1>9, <1>10, <1>11, <1>12, <1>13 DEF Shaped

\* A page of a segment lies in the program's part of the address space.
LEMMA SegmentPage ==
  ASSUME NEW h, Shaped(h), NEW d \in Int, 0 <= d, d < Size(h), d % PGSIZE = 0
  PROVE  /\ Base(h) + d \in Pages /\ d + PGSIZE <= Size(h)
         /\ PGSIZE <= Base(h) + d /\ Base(h) + d < PHYS_BASE
         /\ h.p_vaddr < Base(h) + d + PGSIZE /\ d < Off(h) + h.p_memsz
<1>0. /\ Base(h) \in Int /\ Size(h) \in Int /\ Off(h) \in Int /\ PGSIZE \in Nat \ {0}
      /\ PHYS_BASE \in Nat \ {0} /\ Words \in Nat \ {0} /\ PHYS_BASE + PGSIZE <= Words
  BY Sizes DEF Shaped
<1>1. d + PGSIZE <= Size(h)
  <2>1. Size(h) % PGSIZE = 0
    BY DEF Shaped
  <2> QED
    BY <2>1, <1>0, MultipleGap
<1>2. (Base(h) + d) % PGSIZE = 0
  <2>1. Base(h) % PGSIZE = 0
    BY DEF Shaped
  <2> QED
    BY <2>1, <1>0, MultipleSum
<1>3. PGSIZE <= Base(h) /\ Base(h) + Size(h) <= PHYS_BASE
  BY DEF Shaped
<1>4. Base(h) + d \in Int /\ PGSIZE <= Base(h) + d /\ Base(h) + d < PHYS_BASE
  BY <1>0, <1>1, <1>3
<1>5. Base(h) + d \in Uint
  BY <1>0, <1>4 DEF Uint
<1>6. Base(h) + d \in Pages
  BY <1>2, <1>5 DEF Pages
<1>7. h.p_vaddr < Base(h) + d + PGSIZE
  <2>1. h.p_vaddr = Base(h) + Off(h) /\ Off(h) < PGSIZE
    BY DEF Shaped
  <2> QED
    BY <2>1, <1>0
<1>8. d < Off(h) + h.p_memsz
  <2>1. Size(h) < Off(h) + h.p_memsz + PGSIZE /\ Off(h) + h.p_memsz <= Size(h)
    BY DEF Shaped
  <2>2. PICK m : m = Off(h) + h.p_memsz
    OBVIOUS
  <2> QED
    BY <2>1, <2>2, <1>0, <1>1
<1> QED
  BY <1>1, <1>4, <1>6, <1>7, <1>8

-----------------------------------------------------------------------------

\* The invariant.

Early == {"tokenize", "pagedir", "open"}
Reading == {"phdr", "segment"}
Stacking == {"strings", "pointers", "rest", "entry"}
Ended == {"done", "failed", "refused", "panic", "fault"}

PageRec == [ofs : Int, n : Int, writable : BOOLEAN, here : BOOLEAN]

LoaderTypeOK ==
  /\ variant \in {"eager", "demand"}
  /\ phdrs \in Seq(Phdr) /\ args \in Seq(Nat \ {0}) /\ opened \in BOOLEAN
  /\ pc \in Early \cup Reading \cup Stacking \cup Ended
  /\ next \in Nat \ {0} /\ next - 1 <= Len(phdrs)
  /\ mem \in [Pages -> PageRec]
  /\ free \in Nat /\ stray \in BOOLEAN /\ locked \in BOOLEAN
  /\ esp \in Nat /\ argv \in Seq(Nat)

\* What holds by where load is.
StageInv ==
  /\ pc \in Early => next = 1 /\ \A a \in Pages : ~mem[a].here
  /\ pc \in Early \cup Reading => esp = 0
  /\ stray => pc = "failed" /\ esp = 0
  /\ pc \in Stacking => esp # 0
  /\ esp # 0 => esp >= StackPage
  /\ pc \in Early \cup Reading \cup Stacking =>
       (locked <=> Demand /\ pc \notin {"tokenize", "pagedir"})
  /\ pc \in Reading \cup Stacking \cup {"done"} => opened
  /\ pc \in {"done", "failed", "refused"} => ~locked
  /\ pc = "panic" => Demand /\ \A a \in Pages : ~mem[a].here

\* The page of segment h at distance d from its first one.
Before(h, d) == IF d < FileBytes(h) THEN d ELSE FileBytes(h)
Here(h, d) == IF FileBytes(h) - Before(h, d) < PGSIZE THEN FileBytes(h) - Before(h, d) ELSE PGSIZE
PageAt(h, d) == PageOf(From(h) + Before(h, d), Here(h, d), h.writable)

Filled(h, d) ==
  \A e \in Int : 0 <= e /\ e < d /\ e % PGSIZE = 0 => mem[Base(h) + e] = PageAt(h, e)

\* The locals of load_segment when it has come to d.
SegAt(h, d) ==
  [ofs |-> From(h) + Before(h, d), upage |-> Base(h) + d, read |-> FileBytes(h) - Before(h, d),
   zero |-> Size(h) - d - (FileBytes(h) - Before(h, d)), writable |-> h.writable]

SegsInv ==
  \A i \in 1 .. next - 1 : phdrs[i].p_type = "load" =>
    Shaped(phdrs[i]) /\ Filled(phdrs[i], Size(phdrs[i]))

Reached(h, d) ==
  0 <= d /\ d <= Size(h) /\ d % PGSIZE = 0 /\ Shaped(h) /\ seg = SegAt(h, d) /\ Filled(h, d)

CurrentInv ==
  pc = "segment" =>
    /\ next <= Len(phdrs) /\ phdrs[next].p_type = "load"
    /\ \E d \in Int : Reached(phdrs[next], d)

Covers(i, a) ==
  /\ phdrs[i].p_type = "load"
  /\ phdrs[i].p_vaddr < a + PGSIZE /\ a < phdrs[i].p_vaddr + phdrs[i].p_memsz

\* Every page belongs to a segment, or is the stack.
OwnersInv ==
  pc \notin {"failed", "panic"} => \A a \in Pages : mem[a].here =>
    \/ a = StackPage /\ esp # 0
    \/ \E i \in 1 .. next - 1 : Covers(i, a)
    \/ pc = "segment" /\ Covers(next, a)

RangeInv == \A a \in Pages : mem[a].here => PGSIZE <= a /\ a < PHYS_BASE

StrayInv == stray => \E i \in 1 .. next - 1 : Covers(i, StackPage)

CountInv ==
  IF Eager THEN ~stray /\ free + Cardinality(MappedPages) = Pool
  ELSE free + (IF esp # 0 THEN 1 ELSE 0) + (IF stray THEN 1 ELSE 0) = Pool

LoaderInv ==
  /\ LoaderTypeOK /\ StageInv /\ SegsInv /\ CurrentInv
  /\ OwnersInv /\ RangeInv /\ StrayInv /\ CountInv

-----------------------------------------------------------------------------

\* Steps that leave memory alone.
LEMMA MemorySame ==
  ASSUME LoaderInv, LoaderTypeOK', StageInv',
         UNCHANGED <<variant, phdrs, args, next, mem, free, stray>>,
         pc \notin {"failed", "panic"}, pc' # "segment",
         pc = "segment" => pc' \in {"failed", "panic"},
         esp # 0 <=> esp' # 0
  PROVE  LoaderInv'
<1>1. SegsInv'
  BY DEF LoaderInv, SegsInv, Filled
<1>2. CurrentInv' 
  BY DEF CurrentInv
<1>3. OwnersInv'
  BY DEF LoaderInv, OwnersInv, Covers
<1>4. RangeInv' /\ StrayInv'
  BY DEF LoaderInv, RangeInv, StrayInv, Covers
<1>5. CountInv'
  BY DEF LoaderInv, CountInv, MappedPages, Eager
<1> QED
  BY <1>1, <1>2, <1>3, <1>4, <1>5 DEF LoaderInv

LEMMA MemoryKept ==
  ASSUME LoaderInv, LoaderTypeOK', StageInv',
         UNCHANGED <<file_vars, next, mem, free, stray>>,
         pc \notin {"failed", "panic"}, pc' # "segment",
         pc = "segment" => pc' \in {"failed", "panic"},
         esp # 0 <=> esp' # 0
  PROVE  LoaderInv'
BY MemorySame DEF file_vars

LEMMA FailKeeps ==
  ASSUME LoaderInv, pc \in {"pagedir", "open", "phdr", "segment", "strings"}, Fail
  PROVE  LoaderInv'
<1>1. /\ pc' = IF Demand /\ ~locked THEN "panic" ELSE "failed"
      /\ locked' = FALSE
      /\ UNCHANGED <<file_vars, next, seg, mem, free, stray, stack_vars>>
  BY DEF Fail, End, Goto, Released
<1>2. LoaderTypeOK'
  BY <1>1 DEF LoaderInv, LoaderTypeOK, Early, Reading, Stacking, Ended, file_vars, stack_vars
<1>3. StageInv'
  BY <1>1 DEF LoaderInv, StageInv, Early, Reading, Stacking, Demand, file_vars, stack_vars
<1> QED
  BY <1>1, <1>2, <1>3, MemoryKept DEF stack_vars

LEMMA TokenizeKeeps ==
  ASSUME LoaderInv, Tokenize PROVE LoaderInv'
<1>1. /\ pc = "tokenize" /\ pc' \in {"refused", "pagedir"}
      /\ UNCHANGED <<file_vars, next, seg, mem, free, stray, locked, stack_vars>>
  BY DEF Tokenize, Goto
<1>2. LoaderTypeOK'
  BY <1>1 DEF LoaderInv, LoaderTypeOK, Early, Reading, Stacking, Ended, file_vars, stack_vars
<1>3. StageInv'
  BY <1>1 DEF LoaderInv, StageInv, Early, Reading, Stacking, Demand, file_vars, stack_vars
<1> QED
  BY <1>1, <1>2, <1>3, MemoryKept DEF stack_vars

LEMMA PagedirKeeps ==
  ASSUME LoaderInv, CreatePagedir PROVE LoaderInv'
<1>1. CASE Fail
  BY <1>1, FailKeeps DEF CreatePagedir
<1>2. CASE ~Fail
  <2>1. /\ pc = "pagedir" /\ pc' = "open" /\ locked' = Demand
        /\ UNCHANGED <<file_vars, next, seg, mem, free, stray, stack_vars>>
    BY <1>2 DEF CreatePagedir, Goto
  <2>2. LoaderTypeOK'
    BY <2>1 DEF LoaderInv, LoaderTypeOK, Early, Reading, Stacking, Ended, file_vars, stack_vars, Demand
  <2>3. StageInv'
    BY <2>1 DEF LoaderInv, StageInv, Early, Reading, Stacking, Demand, file_vars, stack_vars
  <2> QED
    BY <2>1, <2>2, <2>3, MemoryKept DEF stack_vars
<1> QED
  BY <1>1, <1>2

LEMMA OpenKeeps ==
  ASSUME LoaderInv, OpenFile PROVE LoaderInv'
<1>1. /\ pc = "open" /\ opened' \in BOOLEAN
      /\ UNCHANGED <<variant, phdrs, args, next, seg, mem, free, stray, stack_vars>>
      /\ \/ pc' = "failed" /\ locked' = FALSE
         \/ pc' = "phdr" /\ locked' = locked /\ opened'
  BY DEF OpenFile, End, Goto, Released, LoaderInv, StageInv, Early
<1>2. LoaderTypeOK'
  BY <1>1 DEF LoaderInv, LoaderTypeOK, Early, Reading, Stacking, Ended, stack_vars
<1>3. StageInv'
  BY <1>1 DEF LoaderInv, StageInv, Early, Reading, Stacking, Demand, stack_vars
<1> QED
  BY <1>1, <1>2, <1>3, MemorySame DEF stack_vars

\* What load_segment starts with.
LEMMA SegmentStart ==
  ASSUME NEW h \in Phdr, validate_segment(h)
  PROVE  Shaped(h) /\ Segment(h) = SegAt(h, 0)
<1>1. Shaped(h)
  BY SegmentShape
<1>2. /\ PGSIZE \in Nat \ {0} /\ Words \in Nat \ {0} /\ PHYS_BASE \in Nat \ {0}
      /\ PHYS_BASE + PGSIZE <= Words
  BY Sizes
<1>m. h.p_memsz \in Int /\ 0 <= h.p_memsz /\ h.p_filesz \in Int /\ 0 <= h.p_filesz
  BY PhdrTypes
<1>3. PICK n \in Int : n = Off(h) + h.p_memsz /\ 0 <= n /\ n <= Size(h)
  BY <1>1, <1>m DEF Shaped
<1>4. /\ Size(h) \in Int /\ Size(h) + PGSIZE <= PHYS_BASE
      /\ FileBytes(h) \in Int /\ 0 <= FileBytes(h) /\ FileBytes(h) <= Size(h)
  <2>1. /\ Size(h) \in Int /\ Base(h) \in Int /\ PGSIZE <= Base(h) /\ Base(h) + Size(h) <= PHYS_BASE
        /\ FileBytes(h) \in Int /\ 0 <= FileBytes(h) /\ FileBytes(h) <= Size(h)
    BY <1>1 DEF Shaped
  <2> QED
    BY <2>1, <1>2
<1>5. ROUND_UP((pg_ofs(h.p_vaddr) + h.p_memsz) % Words) = Size(h)
  <2>1. n % Words = n /\ (n + PGSIZE - 1) % Words = n + PGSIZE - 1
    <3>1. n < Words /\ n + PGSIZE - 1 < Words /\ 0 <= n + PGSIZE - 1 /\ n + PGSIZE - 1 \in Int
      BY <1>2, <1>3, <1>4
    <3> QED
      BY <3>1, <1>2, <1>3, Small
  <2>2. Size(h) = ((n + PGSIZE - 1) \div PGSIZE) * PGSIZE
    BY <1>3, Zenon DEF Size
  <2>3. ROUND_UP(n % Words) = Size(h)
    BY <2>1, <2>2, Zenon DEF ROUND_UP
  <2> QED
    BY <2>3, <1>3 DEF Off
<1>6. Segment(h).read = FileBytes(h)
  <2>1. CASE h.p_filesz > 0
    <3>1. FileBytes(h) = pg_ofs(h.p_vaddr) + h.p_filesz
      BY <2>1 DEF FileBytes, Off
    <3>2. FileBytes(h) % Words = FileBytes(h)
      BY <1>2, <1>4, Small
    <3> QED
      BY <2>1, <3>1, <3>2 DEF Segment
  <2>2. CASE ~(h.p_filesz > 0)
    BY <2>2 DEF Segment, FileBytes
  <2> QED
    BY <2>1, <2>2
<1>7. Segment(h).zero = Size(h) - FileBytes(h)
  <2>1. Segment(h).zero = (Size(h) - FileBytes(h)) % Words
    BY <1>5, <1>6 DEF Segment
  <2>2. (Size(h) - FileBytes(h)) % Words = Size(h) - FileBytes(h)
    BY <1>2, <1>4, Small
  <2> QED
    BY <2>1, <2>2
<1>8. /\ Segment(h).ofs = From(h) /\ Segment(h).upage = Base(h) /\ Segment(h).writable = h.writable
      /\ Segment(h) = [ofs |-> Segment(h).ofs, upage |-> Segment(h).upage, read |-> Segment(h).read,
                       zero |-> Segment(h).zero, writable |-> Segment(h).writable]
  BY DEF Segment, From, Base
<1>9. Before(h, 0) = 0 /\ From(h) + 0 = From(h) /\ Base(h) + 0 = Base(h)
  BY <1>1, <1>4 DEF Before, Shaped
<1>10. FileBytes(h) - 0 = FileBytes(h) /\ Size(h) - 0 - FileBytes(h) = Size(h) - FileBytes(h)
  BY <1>4
<1> QED
  BY <1>1, <1>6, <1>7, <1>8, <1>9, <1>10 DEF SegAt

LEMMA PhdrKeeps ==
  ASSUME LoaderInv, ReadPhdr PROVE LoaderInv'
<1>0. pc = "phdr" /\ next <= Len(phdrs)
  BY DEF ReadPhdr
<1>h. PICK h \in Phdr : h = phdrs[next]
  BY <1>0 DEF LoaderInv, LoaderTypeOK
<1>1. CASE Fail
  BY <1>0, <1>1, FailKeeps
<1>2. CASE /\ h.p_type = "ignore" /\ next' = next + 1
           /\ UNCHANGED <<file_vars, pc, seg, mem, free, stray, locked, stack_vars>>
  <2>0. next \in Nat \ {0} /\ 1 .. next' - 1 = (1 .. next - 1) \cup {next}
    BY <1>2 DEF LoaderInv, LoaderTypeOK
  <2>1. LoaderTypeOK'
    BY <1>2, <1>0 DEF LoaderInv, LoaderTypeOK, file_vars, stack_vars
  <2>2. StageInv'
    BY <1>2, <1>0 DEF LoaderInv, StageInv, Early, Reading, Stacking, Demand, file_vars, stack_vars
  <2>3. SegsInv'
    BY <2>0, <1>2, <1>h DEF LoaderInv, SegsInv, Filled, file_vars
  <2>4. CurrentInv'
    BY <1>2, <1>0 DEF CurrentInv
  <2>5. OwnersInv' /\ RangeInv' /\ StrayInv'
    BY <2>0, <1>2, <1>0 DEF LoaderInv, OwnersInv, RangeInv, StrayInv, Covers, file_vars, stack_vars
  <2>6. CountInv'
    BY <1>2 DEF LoaderInv, CountInv, MappedPages, Eager, file_vars, stack_vars
  <2> QED
    BY <2>1, <2>2, <2>3, <2>4, <2>5, <2>6 DEF LoaderInv
<1>3. CASE /\ h.p_type = "load" /\ validate_segment(h)
           /\ seg' = Segment(h) /\ pc' = "segment"
           /\ UNCHANGED <<file_vars, next, mem, free, stray, locked, stack_vars>>
  <2>1. LoaderTypeOK'
    BY <1>3, <1>0 DEF LoaderInv, LoaderTypeOK, Early, Reading, Stacking, Ended, file_vars, stack_vars
  <2>2. StageInv'
    BY <1>3, <1>0 DEF LoaderInv, StageInv, Early, Reading, Stacking, Demand, file_vars, stack_vars
  <2>3. SegsInv'
    BY <1>3 DEF LoaderInv, SegsInv, Filled, file_vars
  <2>4. CurrentInv'
    <3>1. Shaped(h) /\ seg' = SegAt(h, 0)
      BY <1>3, SegmentStart
    <3>2. 0 <= Size(h) /\ 0 % PGSIZE = 0
      <4>1. 0 < Size(h) /\ Size(h) \in Int
        BY <3>1 DEF Shaped
      <4> QED
        BY <4>1, Sizes, Small
    <3>3. Filled(h, 0)'
      BY DEF Filled
    <3>4. Reached(h, 0)'
      BY <3>1, <3>2, <3>3 DEF Reached
    <3> QED
      BY <3>4, <1>0, <1>3, <1>h DEF CurrentInv, file_vars
  <2>5. OwnersInv' /\ RangeInv' /\ StrayInv'
    BY <1>3, <1>0 DEF LoaderInv, OwnersInv, RangeInv, StrayInv, Covers, file_vars, stack_vars
  <2>6. CountInv'
    BY <1>3 DEF LoaderInv, CountInv, MappedPages, Eager, file_vars, stack_vars
  <2> QED
    BY <2>1, <2>2, <2>3, <2>4, <2>5, <2>6 DEF LoaderInv
<1> QED
  BY <1>h, <1>1, <1>2, <1>3 DEF ReadPhdr, Goto

\* The segment that is being loaded.
LEMMA Current ==
  ASSUME LoaderInv, pc = "segment"
  PROVE  \E d \in Int : Reached(phdrs[next], d)
BY DEF LoaderInv, CurrentInv

\* The numbers of a segment and of a distance that load_segment has come to.
LEMMA ReachedNumbers ==
  ASSUME NEW h, NEW d \in Int, Reached(h, d)
  PROVE  /\ PGSIZE \in Nat \ {0} /\ Words \in Nat \ {0} /\ PHYS_BASE + PGSIZE <= Words
         /\ PHYS_BASE \in Nat \ {0}
         /\ Base(h) \in Int /\ From(h) \in Int /\ Size(h) \in Int /\ FileBytes(h) \in Int
         /\ 0 <= d /\ d <= Size(h) /\ 0 <= FileBytes(h) /\ FileBytes(h) <= Size(h)
         /\ 0 <= Base(h) /\ Base(h) + Size(h) <= PHYS_BASE
         /\ Before(h, d) \in Int /\ Here(h, d) \in Int
         /\ seg.ofs = From(h) + Before(h, d) /\ seg.upage = Base(h) + d
         /\ seg.read = FileBytes(h) - Before(h, d)
         /\ seg.zero = Size(h) - d - (FileBytes(h) - Before(h, d))
         /\ seg.writable = h.writable /\ ReadHere = Here(h, d)
<1>1. /\ PGSIZE \in Nat \ {0} /\ Words \in Nat \ {0} /\ PHYS_BASE + PGSIZE <= Words
      /\ PHYS_BASE \in Nat \ {0}
  BY Sizes
<1>2. /\ Base(h) \in Int /\ From(h) \in Int /\ Size(h) \in Int /\ FileBytes(h) \in Int
      /\ 0 <= d /\ d <= Size(h) /\ 0 <= FileBytes(h) /\ FileBytes(h) <= Size(h)
      /\ PGSIZE <= Base(h) /\ Base(h) + Size(h) <= PHYS_BASE
  BY DEF Reached, Shaped
<1>3. /\ seg.ofs = From(h) + Before(h, d) /\ seg.upage = Base(h) + d
      /\ seg.read = FileBytes(h) - Before(h, d)
      /\ seg.zero = Size(h) - d - (FileBytes(h) - Before(h, d))
      /\ seg.writable = h.writable
  BY DEF Reached, SegAt
<1>4. Before(h, d) \in Int /\ Here(h, d) \in Int
  BY <1>1, <1>2 DEF Before, Here
<1>5. ReadHere = Here(h, d)
  BY <1>3 DEF ReadHere, Here
<1>6. 0 <= Base(h)
  BY <1>1, <1>2
<1> QED
  BY <1>1, <1>2, <1>3, <1>4, <1>5, <1>6

\* load_segment ends when it has come to the segment's end.
LEMMA EndReached ==
  ASSUME NEW h, NEW d \in Int, Reached(h, d), seg.read = 0, seg.zero = 0
  PROVE  d = Size(h)
<1>1. /\ Size(h) \in Int /\ FileBytes(h) \in Int /\ Before(h, d) \in Int
      /\ seg.read = FileBytes(h) - Before(h, d)
      /\ seg.zero = Size(h) - d - (FileBytes(h) - Before(h, d))
  BY ReachedNumbers
<1>2. PICK x : x = FileBytes(h) - Before(h, d)
  OBVIOUS
<1>3. x = 0 /\ Size(h) - d - x = 0
  BY <1>1, <1>2
<1> QED
  BY <1>1, <1>3

LEMMA SegmentLoadedKeeps ==
  ASSUME LoaderInv, SegmentLoaded PROVE LoaderInv'
<1>0. /\ pc = "segment" /\ pc' = "phdr" /\ next' = next + 1 /\ seg.read = 0 /\ seg.zero = 0
      /\ UNCHANGED <<file_vars, seg, mem, free, stray, locked, stack_vars>>
  BY DEF SegmentLoaded, Goto
<1>1. PICK d \in Int : Reached(phdrs[next], d)
  BY <1>0, Current
<1>2. d = Size(phdrs[next])
  BY <1>0, <1>1, EndReached
<1>3. next \in Nat \ {0} /\ 1 .. next' - 1 = (1 .. next - 1) \cup {next} /\ next <= Len(phdrs)
  BY <1>0 DEF LoaderInv, LoaderTypeOK, CurrentInv
<1>4. LoaderTypeOK'
  BY <1>0, <1>3 DEF LoaderInv, LoaderTypeOK, Early, Reading, Stacking, Ended, file_vars, stack_vars
<1>5. StageInv'
  BY <1>0 DEF LoaderInv, StageInv, Early, Reading, Stacking, Demand, file_vars, stack_vars
<1>6. SegsInv'
  BY <1>0, <1>1, <1>2, <1>3 DEF LoaderInv, SegsInv, Filled, Reached, file_vars
<1>7. CurrentInv'
  BY <1>0 DEF CurrentInv
<1>8. OwnersInv' /\ RangeInv' /\ StrayInv'
  BY <1>0, <1>3 DEF LoaderInv, OwnersInv, RangeInv, StrayInv, Covers, file_vars, stack_vars
<1>9. CountInv'
  BY <1>0 DEF LoaderInv, CountInv, MappedPages, Eager, file_vars, stack_vars
<1> QED
  BY <1>4, <1>5, <1>6, <1>7, <1>8, <1>9 DEF LoaderInv

\* One round of the loop brings load_segment to the next page.
LEMMA AdvanceOnePage ==
  ASSUME NEW h, NEW d \in Int, Reached(h, d), seg.read > 0 \/ seg.zero > 0
  PROVE  d < Size(h) /\ Advanced = SegAt(h, d + PGSIZE)
<1>1. d < Size(h)
  BY ReachedNumbers DEF Before
<1>2. d + PGSIZE <= Size(h)
  <2>1. Size(h) % PGSIZE = 0 /\ d % PGSIZE = 0
    BY DEF Reached, Shaped
  <2> QED
    BY <1>1, <2>1, ReachedNumbers, MultipleGap
<1>3. Before(h, d + PGSIZE) = Before(h, d) + Here(h, d)
  BY <1>1, ReachedNumbers DEF Before, Here
<1>4. (seg.upage + PGSIZE) % Words = Base(h) + (d + PGSIZE)
  <2>1. /\ seg.upage + PGSIZE = Base(h) + (d + PGSIZE)
        /\ Base(h) + (d + PGSIZE) \in Int /\ 0 <= Base(h) + (d + PGSIZE)
        /\ Base(h) + (d + PGSIZE) < Words
    BY <1>2, ReachedNumbers
  <2> QED
    BY <2>1, ReachedNumbers, Small
<1>5. (seg.zero - (PGSIZE - ReadHere)) % Words
        = Size(h) - (d + PGSIZE) - (FileBytes(h) - Before(h, d + PGSIZE))
  <2>1. PICK z : z = Size(h) - (d + PGSIZE) - (FileBytes(h) - Before(h, d + PGSIZE))
    OBVIOUS
  <2>2. z \in Int /\ 0 <= z /\ z < Words
    BY <2>1, <1>2, ReachedNumbers DEF Before
  <2>3. seg.zero - (PGSIZE - ReadHere) = z
    BY <2>1, <1>3, ReachedNumbers
  <2> QED
    BY <2>1, <2>2, <2>3, ReachedNumbers, Small
<1>6. /\ seg.read - ReadHere = FileBytes(h) - Before(h, d + PGSIZE)
      /\ seg.ofs + ReadHere = From(h) + Before(h, d + PGSIZE)
  BY <1>3, ReachedNumbers
<1>7. seg.writable = h.writable
  BY ReachedNumbers
<1> QED
  BY <1>1, <1>4, <1>5, <1>6, <1>7 DEF SegAt, Advanced

LEMMA PagesFinite ==
  /\ IsFiniteSet(MappedPages) /\ Cardinality(MappedPages) \in Nat
<1>1. IsFiniteSet(Uint)
  BY Sizes, FS_Interval DEF Uint
<1>2. MappedPages \in SUBSET Uint
  BY DEF MappedPages, Pages
<1> QED
  BY <1>1, <1>2, FS_Subset, FS_CardinalityType

\* A page that was not there is mapped.
LEMMA NewPage ==
  ASSUME LoaderTypeOK, NEW u \in Pages, ~mem[u].here, NEW x \in PageRec, x.here,
         mem' = [mem EXCEPT ![u] = x]
  PROVE  /\ mem' \in [Pages -> PageRec] /\ mem'[u] = x
         /\ \A a \in Pages : a # u => mem'[a] = mem[a]
         /\ \A a \in Pages : mem[a].here => mem'[a] = mem[a]
         /\ Cardinality(MappedPages)' = Cardinality(MappedPages) + 1
<1>1. mem \in [Pages -> PageRec]
  BY DEF LoaderTypeOK
<1>2. mem' \in [Pages -> PageRec] /\ mem'[u] = x
  BY <1>1
<1>3. \A a \in Pages : a # u => mem'[a] = mem[a]
  BY <1>1
<1>4. \A a \in Pages : mem[a].here => mem'[a] = mem[a]
  BY <1>3
<1>5. MappedPages' = MappedPages \cup {u} /\ u \notin MappedPages
  BY <1>2, <1>3 DEF MappedPages
<1>6. Cardinality(MappedPages \cup {u}) = Cardinality(MappedPages) + 1
  BY <1>5, PagesFinite, FS_AddElement
<1> QED
  BY <1>2, <1>3, <1>4, <1>5, <1>6

LEMMA PageTypes ==
  ASSUME NEW ofs \in Int, NEW n \in Int, NEW w \in BOOLEAN
  PROVE  PageOf(ofs, n, w) \in PageRec /\ PageOf(ofs, n, w).here
BY DEF PageOf, PageRec

\* Pages of segments stay right when another page is mapped.
LEMMA SegmentStays ==
  ASSUME NEW h, Shaped(h), NEW d \in Int, d <= Size(h), Filled(h, d),
         \A a \in Pages : mem[a].here => mem'[a] = mem[a]
  PROVE  Filled(h, d)'
<1> SUFFICES ASSUME NEW e \in Int, 0 <= e, e < d, e % PGSIZE = 0
             PROVE  mem'[Base(h) + e] = PageAt(h, e)
  BY DEF Filled, Base, PageAt, Before, Here, FileBytes, From, Off, PageOf, pg_round_down, pg_ofs
<1>1. mem[Base(h) + e] = PageAt(h, e)
  BY DEF Filled
<1>2. e < Size(h)
  <2>1. Size(h) \in Int
    BY DEF Shaped
  <2> QED
    BY <2>1
<1>3. Base(h) + e \in Pages
  BY <1>2, SegmentPage
<1>4. mem[Base(h) + e].here
  BY <1>1 DEF PageAt, PageOf
<1> QED
  BY <1>1, <1>3, <1>4

LEMMA LoadPageKeeps ==
  ASSUME LoaderInv, LoadPage PROVE LoaderInv'
<1>0. pc = "segment" /\ (seg.read > 0 \/ seg.zero > 0)
  BY DEF LoadPage
<1>1. CASE Fail
  BY <1>0, <1>1, FailKeeps
<1>2. CASE ~Fail
  <2>0. /\ ~mem[seg.upage].here
        /\ Eager => free > 0
        /\ mem' = [mem EXCEPT ![seg.upage] = PageOf(seg.ofs, ReadHere, seg.writable)]
        /\ free' = IF Eager THEN free - 1 ELSE free
        /\ seg' = Advanced
        /\ UNCHANGED <<file_vars, pc, next, stray, locked, stack_vars>>
    BY <1>2 DEF LoadPage
  <2>h. PICK h \in Phdr : h = phdrs[next] /\ next <= Len(phdrs) /\ h.p_type = "load"
    BY <1>0 DEF LoaderInv, LoaderTypeOK, CurrentInv
  <2>d. PICK d \in Int : Reached(h, d)
    BY <1>0, <2>h, Current
  <2>1. d < Size(h) /\ seg' = SegAt(h, d + PGSIZE)
    BY <1>0, <2>0, <2>d, AdvanceOnePage
  <2>2. Shaped(h) /\ 0 <= d /\ d % PGSIZE = 0 /\ Filled(h, d)
    BY <2>d DEF Reached
  <2>u. PICK u \in Pages : /\ u = Base(h) + d /\ u = seg.upage /\ PGSIZE <= u /\ u < PHYS_BASE
                           /\ h.p_vaddr < u + PGSIZE /\ d < Off(h) + h.p_memsz
    BY <2>1, <2>2, <2>d, SegmentPage, ReachedNumbers
  <2>3. d + PGSIZE <= Size(h)
    BY <2>1, <2>2, SegmentPage
  <2>4. PageOf(seg.ofs, ReadHere, seg.writable) = PageAt(h, d)
    BY <2>d, ReachedNumbers DEF PageAt
  <2>5. PageAt(h, d) \in PageRec /\ PageAt(h, d).here
    <3>1. From(h) + Before(h, d) \in Int /\ Here(h, d) \in Int
      BY <2>d, ReachedNumbers
    <3>2. h.writable \in BOOLEAN
      BY PhdrTypes
    <3> QED
      BY <3>1, <3>2, PageTypes DEF PageAt
  <2>6. ~mem[u].here /\ mem' = [mem EXCEPT ![u] = PageAt(h, d)]
    BY <2>0, <2>u, <2>4
  <2>7. /\ mem' \in [Pages -> PageRec] /\ mem'[u] = PageAt(h, d)
        /\ \A a \in Pages : a # u => mem'[a] = mem[a]
        /\ \A a \in Pages : mem[a].here => mem'[a] = mem[a]
        /\ Cardinality(MappedPages)' = Cardinality(MappedPages) + 1
    BY <2>5, <2>6, NewPage DEF LoaderInv
  <2>8. UNCHANGED <<variant, phdrs, args, opened, pc, next, stray, locked, esp, argv, stack>>
    BY <2>0 DEF file_vars, stack_vars
  <2>10. LoaderTypeOK'
    <3>1. free' \in Nat
      BY <2>0 DEF LoaderInv, LoaderTypeOK
    <3> QED
      BY <3>1, <2>7, <2>8 DEF LoaderInv, LoaderTypeOK
  <2>11. StageInv'
    BY <1>0, <2>8 DEF LoaderInv, StageInv, Early, Reading, Stacking, Demand
  <2>12. SegsInv'
    <3> SUFFICES ASSUME NEW i \in 1 .. next - 1, phdrs[i].p_type = "load"
                 PROVE  Shaped(phdrs[i]) /\ Filled(phdrs[i], Size(phdrs[i]))'
      BY <2>8 DEF SegsInv, Filled
    <3>1. Shaped(phdrs[i]) /\ Filled(phdrs[i], Size(phdrs[i])) /\ Size(phdrs[i]) \in Int
      BY DEF LoaderInv, SegsInv, Shaped
    <3>2. Filled(phdrs[i], Size(phdrs[i]))' <=>
            \A e \in Int : 0 <= e /\ e < Size(phdrs[i]) /\ e % PGSIZE = 0 =>
               mem'[Base(phdrs[i]) + e] = PageAt(phdrs[i], e)
      BY <2>8 DEF Filled
    <3>3. PICK g : g = phdrs[i]
      OBVIOUS
    <3>4. Filled(g, Size(g))'
      BY <3>1, <3>3, <2>7, SegmentStays
    <3> QED
      BY <3>1, <3>2, <3>3, <3>4 DEF Filled
  <2>13. CurrentInv'
    <3>1. Filled(h, d + PGSIZE)'
      <4>0. Filled(h, d)'
        <5>1. d <= Size(h)
          BY <2>1, <2>2 DEF Shaped
        <5> QED
          BY <5>1, <2>2, <2>7, SegmentStays
      <4> SUFFICES ASSUME NEW e \in Int, 0 <= e, e < d + PGSIZE, e % PGSIZE = 0
                   PROVE  mem'[Base(h) + e] = PageAt(h, e)
        BY DEF Filled
      <4>1. CASE e < d
        BY <4>0, <4>1 DEF Filled
      <4>2. CASE e = d
        BY <4>2, <2>7, <2>u
      <4>3. CASE e > d
        <5>1. d + PGSIZE <= e
          BY <4>3, <2>2, Sizes, MultipleGap
        <5> QED
          BY <5>1, Sizes
      <4> QED
        BY <4>1, <4>2, <4>3
    <3>2. /\ d + PGSIZE \in Int /\ 0 <= d + PGSIZE
          /\ (d + PGSIZE) % PGSIZE = 0
      <4>1. PGSIZE \in Nat \ {0}
        BY Sizes
      <4>2. PICK k \in Int : d = k * PGSIZE
        BY <4>1, <2>2, MultipleOf
      <4>3. d + PGSIZE = (k + 1) * PGSIZE + 0 /\ 0 \in 0 .. PGSIZE - 1 /\ k + 1 \in Int
        BY <4>1, <4>2
      <4>4. (d + PGSIZE) % PGSIZE = 0
        BY <4>1, <4>3, OfMultiple
      <4> QED
        BY <4>1, <4>4, <2>2
    <3>3. Reached(h, d + PGSIZE)'
      BY <3>1, <3>2, <2>1, <2>2, <2>3 DEF Reached
    <3> QED
      BY <3>2, <3>3, <2>8, <2>h DEF CurrentInv
  <2>14. OwnersInv'
    <3> SUFFICES ASSUME NEW a \in Pages, mem'[a].here
                 PROVE  \/ a = StackPage /\ esp # 0
                        \/ \E i \in 1 .. next - 1 : Covers(i, a)
                        \/ pc = "segment" /\ Covers(next, a)
      BY <2>8 DEF OwnersInv, Covers
    <3>1. CASE a = u
      <4>1. a < h.p_vaddr + h.p_memsz
        <5>1. /\ Base(h) \in Int /\ Off(h) \in Int /\ h.p_vaddr = Base(h) + Off(h)
              /\ h.p_memsz \in Int
          BY <2>2, PhdrTypes DEF Shaped
        <5> QED
          BY <5>1, <2>u, <3>1
      <4> QED
        BY <4>1, <2>u, <3>1, <2>h, <1>0 DEF Covers
    <3>2. CASE a # u
      BY <3>2, <2>7, <1>0 DEF LoaderInv, OwnersInv
    <3> QED
      BY <3>1, <3>2
  <2>15. RangeInv'
    BY <2>7, <2>u DEF LoaderInv, RangeInv
  <2>16. StrayInv'
    BY <2>8 DEF LoaderInv, StrayInv, Covers
  <2>17. CountInv'
    <3>0. free \in Nat /\ Cardinality(MappedPages) \in Nat /\ (Eager' <=> Eager)
      BY <2>8, PagesFinite DEF LoaderInv, LoaderTypeOK, Eager
    <3>1. CASE Eager
      <4>1. ~stray /\ free + Cardinality(MappedPages) = Pool
        BY <3>1 DEF LoaderInv, CountInv
      <4>2. free' = free - 1 /\ stray' = stray
        BY <3>1, <2>0, <2>8
      <4> QED
        BY <3>0, <3>1, <4>1, <4>2, <2>7 DEF CountInv
    <3>2. CASE ~Eager
      <4>1. free' = free
        BY <3>2, <2>0
      <4> QED
        BY <3>0, <3>2, <4>1, <2>8 DEF LoaderInv, CountInv
    <3> QED
      BY <3>1, <3>2
  <2> QED
    BY <2>10, <2>11, <2>12, <2>13, <2>14, <2>15, <2>16, <2>17 DEF LoaderInv
<1> QED
  BY <1>1, <1>2

LEMMA SeqUpdate ==
  ASSUME NEW s \in Seq(Nat), NEW i, NEW n \in Nat
  PROVE  [s EXCEPT ![i] = n] \in Seq(Nat)
<1>1. CASE i \in 1 .. Len(s)
  BY <1>1
<1>2. CASE i \notin 1 .. Len(s)
  <2>1. [s EXCEPT ![i] = n] = s
    BY <1>2
  <2> QED
    BY <2>1
<1> QED
  BY <1>1, <1>2

LEMMA SetupStackKeeps ==
  ASSUME LoaderInv, SetupStack PROVE LoaderInv'
<1>0. pc = "phdr" /\ esp = 0 /\ ~stray /\ LoaderTypeOK
  BY DEF SetupStack, LoaderInv, StageInv, Early, Reading
<1>s. /\ StackPage \in Pages /\ StackPage \in Int /\ PGSIZE <= StackPage /\ StackPage < PHYS_BASE
      /\ PHYS_BASE \in Nat \ {0} /\ PGSIZE \in Nat \ {0}
  <2>1. PHYS_BASE \in Nat \ {0} /\ PGSIZE \in Nat \ {0} /\ PHYS_BASE % PGSIZE = 0 /\ Words \in Nat
        /\ 2 * PGSIZE <= PHYS_BASE /\ PHYS_BASE + PGSIZE <= Words
    BY Sizes
  <2>2. PICK k \in Int : PHYS_BASE = k * PGSIZE
    BY <2>1, MultipleOf
  <2>3. StackPage = (k - 1) * PGSIZE + 0 /\ k - 1 \in Int /\ 0 \in 0 .. PGSIZE - 1
    BY <2>1, <2>2 DEF StackPage
  <2>4. StackPage % PGSIZE = 0
    BY <2>1, <2>3, OfMultiple
  <2>5. StackPage \in Int /\ PGSIZE <= StackPage /\ StackPage < PHYS_BASE
    BY <2>1 DEF StackPage
  <2>6. StackPage \in Uint
    BY <2>1, <2>5 DEF Uint
  <2> QED
    BY <2>1, <2>4, <2>5, <2>6 DEF Pages
<1>1. CASE Fail
  BY <1>0, <1>1, FailKeeps
<1>2. CASE /\ Demand /\ mem[StackPage].here /\ free > 0 /\ stray' = TRUE /\ free' = free - 1
           /\ End("failed") /\ UNCHANGED <<file_vars, next, seg, mem, stack_vars>>
  <2>1. locked
    BY <1>2, <1>0 DEF LoaderInv, StageInv, Reading
  <2>2. /\ pc' = "failed" /\ locked' = FALSE /\ free' \in Nat
        /\ UNCHANGED <<variant, phdrs, args, opened, next, mem, esp, argv>>
    BY <1>2, <2>1, <1>0 DEF End, Goto, Released, file_vars, stack_vars, LoaderTypeOK
  <2>3. LoaderTypeOK'
    BY <1>0, <1>2, <2>2 DEF LoaderTypeOK, Ended
  <2>4. StageInv'
    BY <1>0, <2>2 DEF StageInv, Early, Reading, Stacking
  <2>5. SegsInv' /\ CurrentInv' /\ RangeInv' /\ OwnersInv'
    BY <2>2 DEF LoaderInv, SegsInv, CurrentInv, RangeInv, OwnersInv, Filled
  <2>6. StrayInv'
    <3>1. \E i \in 1 .. next - 1 : Covers(i, StackPage)
      BY <1>0, <1>2, <1>s DEF LoaderInv, OwnersInv
    <3> QED
      BY <3>1, <2>2 DEF StrayInv, Covers
  <2>7. CountInv'
    <3>1. ~Eager /\ ~Eager' /\ free \in Nat /\ free = Pool
      BY <1>0, <1>2, <2>2 DEF Eager, Demand, LoaderInv, LoaderTypeOK, CountInv
    <3> QED
      BY <3>1, <1>0, <1>2, <2>2, Sizes DEF CountInv
  <2> QED
    BY <2>3, <2>4, <2>5, <2>6, <2>7 DEF LoaderInv
<1>3. CASE /\ ~mem[StackPage].here /\ free > 0
           /\ mem' = [mem EXCEPT ![StackPage] = PageOf(0, 0, TRUE)]
           /\ free' = free - 1 /\ esp' = PHYS_BASE
           /\ argv' = [i \in 1 .. Len(args) |-> 0] /\ pc' = "strings"
           /\ UNCHANGED <<file_vars, next, seg, stray, locked, stack>>
  <2>1. PageOf(0, 0, TRUE) \in PageRec /\ PageOf(0, 0, TRUE).here
    BY DEF PageOf, PageRec
  <2>2. /\ mem' \in [Pages -> PageRec]
        /\ \A a \in Pages : a # StackPage => mem'[a] = mem[a]
        /\ \A a \in Pages : mem[a].here => mem'[a] = mem[a]
        /\ Cardinality(MappedPages)' = Cardinality(MappedPages) + 1
    BY <1>0, <1>s, <1>3, <2>1, NewPage
  <2>3. /\ free' = free - 1 /\ free \in Nat /\ free' \in Nat /\ argv' \in Seq(Nat)
        /\ UNCHANGED <<variant, phdrs, args, opened, next, stray, locked>>
    BY <1>0, <1>3 DEF LoaderTypeOK, file_vars
  <2>4. LoaderTypeOK'
    BY <1>0, <1>3, <1>s, <2>2, <2>3 DEF LoaderTypeOK, Stacking
  <2>5. StageInv'
    BY <1>0, <1>3, <1>s, <2>3 DEF LoaderInv, StageInv, Early, Reading, Stacking, Demand
  <2>6. SegsInv'
    <3> SUFFICES ASSUME NEW i \in 1 .. next - 1, phdrs[i].p_type = "load"
                 PROVE  Shaped(phdrs[i]) /\ Filled(phdrs[i], Size(phdrs[i]))'
      BY <2>3 DEF SegsInv, Filled
    <3>1. PICK g : g = phdrs[i]
      OBVIOUS
    <3>2. Shaped(g) /\ Filled(g, Size(g)) /\ Size(g) \in Int
      BY <3>1 DEF LoaderInv, SegsInv, Shaped
    <3>3. Filled(g, Size(g))'
      BY <3>2, <2>2, SegmentStays
    <3> QED
      BY <3>1, <3>2, <3>3, <2>3 DEF Filled
  <2>7. CurrentInv'
    BY <1>3 DEF CurrentInv
  <2>8. OwnersInv'
    BY <1>0, <1>3, <1>s, <2>2, <2>3 DEF LoaderInv, OwnersInv, Covers
  <2>9. RangeInv'
    BY <1>s, <2>2 DEF LoaderInv, RangeInv
  <2>10. StrayInv'
    BY <1>0, <2>3 DEF StrayInv
  <2>11. CountInv'
    <3>0. Cardinality(MappedPages) \in Nat /\ (Eager' <=> Eager)
      BY <2>3, PagesFinite DEF Eager
    <3>1. CASE Eager
      <4>1. free + Cardinality(MappedPages) = Pool
        BY <3>1 DEF LoaderInv, CountInv
      <4> QED
        BY <3>0, <3>1, <4>1, <1>0, <2>2, <2>3 DEF CountInv
    <3>2. CASE ~Eager
      <4>1. free + 0 + 0 = Pool
        BY <3>2, <1>0 DEF LoaderInv, CountInv
      <4> QED
        BY <3>0, <3>2, <4>1, <1>0, <1>3, <1>s, <2>3 DEF CountInv
    <3> QED
      BY <3>1, <3>2
  <2> QED
    BY <2>4, <2>5, <2>6, <2>7, <2>8, <2>9, <2>10, <2>11 DEF LoaderInv
<1> QED
  BY <1>1, <1>2, <1>3 DEF SetupStack, Goto

-----------------------------------------------------------------------------

\* What is pushed on the stack changes nothing but the stack.
LEMMA PushKeeps ==
  ASSUME LoaderInv, pc \in Stacking, NEW bytes, Len(bytes) \in Nat,
         NEW label \in Stacking, Push(bytes, label), argv' \in Seq(Nat),
         UNCHANGED <<file_vars, next, seg, mem, free, stray>>
  PROVE  LoaderInv'
<1>0. /\ esp \in Nat /\ esp # 0 /\ StackPage \in Nat \ {0}
      /\ locked \in BOOLEAN /\ variant \in {"eager", "demand"} /\ (locked <=> Demand)
  BY Sizes DEF LoaderInv, LoaderTypeOK, StageInv, Stacking, StackPage
<1>1. CASE esp - Len(bytes) >= StackPage
  <2>1. /\ esp' = esp - Len(bytes) /\ pc' = label /\ locked' = locked
        /\ esp' \in Nat /\ esp' # 0 /\ esp' >= StackPage
    BY <1>0, <1>1 DEF Push, Goto
  <2>2. LoaderTypeOK'
    BY <2>1 DEF LoaderInv, LoaderTypeOK, file_vars
  <2>3. StageInv'
    BY <2>1 DEF LoaderInv, StageInv, Early, Reading, Stacking, Demand, file_vars
  <2> QED
    BY <1>0, <2>1, <2>2, <2>3, MemoryKept DEF Stacking
<1>2. CASE ~(esp - Len(bytes) >= StackPage)
  <2>1. /\ esp' = esp
        /\ \/ Eager /\ pc' = "failed" /\ locked' = FALSE
           \/ ~Eager /\ pc' = "fault" /\ locked' = locked
    BY <1>0, <1>2 DEF Push, Goto, End, Released, Eager, Demand
  <2>2. LoaderTypeOK'
    BY <2>1 DEF LoaderInv, LoaderTypeOK, Ended, file_vars
  <2>3. StageInv'
    BY <2>1 DEF LoaderInv, StageInv, Early, Reading, Stacking, Demand, file_vars
  <2> QED
    BY <1>0, <2>1, <2>2, <2>3, MemoryKept DEF Stacking
<1> QED
  BY <1>1, <1>2

LEMMA PushStringKeeps ==
  ASSUME LoaderInv, PushString PROVE LoaderInv'
<1>0. pc = "strings" /\ args \in Seq(Nat \ {0}) /\ argv \in Seq(Nat) /\ esp \in Nat
  BY DEF PushString, LoaderInv, LoaderTypeOK
<1>1. CASE Fail
  BY <1>0, <1>1, FailKeeps
<1>2. CASE ~Fail
  <2>1. PICK i \in Unplaced :
          /\ Push([k \in 1 .. args[i] + 1 |-> <<"char", i, k - 1>>], "strings")
          /\ argv' = [argv EXCEPT ![i] = esp']
          /\ UNCHANGED <<file_vars, next, seg, mem, free, stray>>
    BY <1>2 DEF PushString
  <2>2. PICK bytes : bytes = [k \in 1 .. args[i] + 1 |-> <<"char", i, k - 1>>]
    OBVIOUS
  <2>3. Len(bytes) \in Nat
    <3>1. args[i] \in Nat
      BY <1>0 DEF Unplaced
    <3>2. Len(bytes) = args[i] + 1
      BY <2>2, <3>1
    <3> QED
      BY <3>1, <3>2
  <2>4. Push(bytes, "strings")
    BY <2>1, <2>2
  <2>5. esp' \in Nat
    <3>1. StackPage \in Nat
      BY Sizes DEF StackPage
    <3> QED
      BY <2>3, <2>4, <3>1, <1>0 DEF Push
  <2>6. argv' \in Seq(Nat)
    BY <1>0, <2>1, <2>5, SeqUpdate
  <2> QED
    BY <1>0, <2>1, <2>3, <2>4, <2>6, PushKeeps DEF Stacking
<1> QED
  BY <1>1, <1>2

LEMMA AlignKeeps ==
  ASSUME LoaderInv, Align PROVE LoaderInv'
<1>1. /\ pc = "strings" /\ Push(Padding, "pointers") /\ argv' = argv
      /\ UNCHANGED <<file_vars, next, seg, mem, free, stray>>
  BY DEF Align
<1>2. argv' \in Seq(Nat)
  BY <1>1 DEF LoaderInv, LoaderTypeOK
<1>3. Len(Padding) \in Nat
  <2>1. PICK n \in Nat : n = esp % WORD_SIZE
    <3>1. esp \in Nat /\ WORD_SIZE \in Nat \ {0}
      BY Sizes DEF LoaderInv, LoaderTypeOK
    <3> QED
      BY <3>1, Remainder
  <2>2. Padding = [k \in 1 .. n |-> <<"zero">>]
    BY <2>1 DEF Padding
  <2>3. Len(Padding) = n
    BY <2>2
  <2> QED
    BY <2>3
<1> QED
  BY <1>1, <1>2, <1>3, PushKeeps DEF Stacking

LEMMA BytesLength ==
  ASSUME NEW words, Len(words) \in Nat
  PROVE  Len(BytesOf(words)) \in Nat
<1>1. PICK n \in Nat : n = WORD_SIZE * Len(words)
  BY Sizes
<1> DEFINE byte(k) == <<"word", words[Len(words) - (k - 1) \div WORD_SIZE], (k - 1) % WORD_SIZE>>
<1>2. BytesOf(words) = [k \in 1 .. n |-> byte(k)]
  BY <1>1 DEF BytesOf
<1> HIDE DEF byte
<1>3. Len([k \in 1 .. n |-> byte(k)]) = n
  OBVIOUS
<1> QED
  BY <1>2, <1>3

LEMMA PushPointersKeeps ==
  ASSUME LoaderInv, PushPointers PROVE LoaderInv'
<1>1. /\ pc = "pointers" /\ Push(BytesOf(Pointers), "rest") /\ argv' = argv
      /\ UNCHANGED <<file_vars, next, seg, mem, free, stray>>
  BY DEF PushPointers
<1>2. argv \in Seq(Nat) /\ argv' \in Seq(Nat)
  BY <1>1 DEF LoaderInv, LoaderTypeOK
<1>3. Reverse(argv) \in Seq(Nat)
  BY <1>2 DEF Reverse
<1>4. Len(Pointers) \in Nat
  BY <1>3 DEF Pointers
<1> QED
  BY <1>1, <1>2, <1>4, BytesLength, PushKeeps DEF Stacking

LEMMA PushRestKeeps ==
  ASSUME LoaderInv, PushRest PROVE LoaderInv'
<1>1. /\ pc = "rest" /\ Push(BytesOf(<<esp, Len(args), 0>>), "entry") /\ argv' = argv
      /\ UNCHANGED <<file_vars, next, seg, mem, free, stray>>
  BY DEF PushRest
<1>2. argv' \in Seq(Nat)
  BY <1>1 DEF LoaderInv, LoaderTypeOK
<1>3. Len(<<esp, Len(args), 0>>) \in Nat
  OBVIOUS
<1> QED
  BY <1>1, <1>2, <1>3, BytesLength, PushKeeps DEF Stacking

LEMMA SucceedKeeps ==
  ASSUME LoaderInv, Succeed PROVE LoaderInv'
<1>1. /\ pc = "entry" /\ (locked <=> Demand)
      /\ UNCHANGED <<file_vars, next, seg, mem, free, stray, stack_vars>>
  BY DEF Succeed, LoaderInv, StageInv, Stacking
<1>2. pc' = "done" /\ locked' = FALSE
  BY <1>1 DEF Succeed, End, Goto, Released
<1>3. LoaderTypeOK'
  BY <1>1, <1>2 DEF LoaderInv, LoaderTypeOK, Ended, file_vars, stack_vars
<1>4. StageInv'
  BY <1>1, <1>2 DEF LoaderInv, StageInv, Early, Reading, Stacking, file_vars, stack_vars
<1> QED
  BY <1>1, <1>2, <1>3, <1>4, MemoryKept DEF stack_vars

-----------------------------------------------------------------------------

LEMMA InitInv == Init => LoaderInv
<1> SUFFICES ASSUME Init PROVE LoaderInv
  OBVIOUS
<1>0. \A a \in Pages : mem[a] = Unmapped /\ ~mem[a].here
  BY DEF Init, Unmapped
<1>1. LoaderTypeOK
  <2>1. mem \in [Pages -> PageRec]
    BY DEF Init, Unmapped, PageRec
  <2>2. phdrs \in Seq(Phdr) /\ args \in Seq(Nat \ {0})
    BY LoaderInputs DEF Init
  <2>3. next - 1 <= Len(phdrs) /\ argv \in Seq(Nat)
    BY <2>2 DEF Init
  <2>4. next \in Nat \ {0} /\ free \in Nat /\ esp \in Nat
    BY Sizes DEF Init
  <2>5. variant \in {"eager", "demand"} /\ pc \in Early /\ stray \in BOOLEAN /\ locked \in BOOLEAN
        /\ opened \in BOOLEAN
    BY DEF Init, Early
  <2> QED
    BY <2>1, <2>2, <2>3, <2>4, <2>5 DEF LoaderTypeOK
<1>2. StageInv
  BY <1>0 DEF Init, StageInv, Early, Reading, Stacking
<1>3. SegsInv /\ CurrentInv /\ OwnersInv /\ RangeInv /\ StrayInv
  BY <1>0 DEF Init, SegsInv, CurrentInv, OwnersInv, RangeInv, StrayInv
<1>4. CountInv
  <2>1. MappedPages = {}
    BY <1>0 DEF MappedPages
  <2> QED
    BY <2>1, Sizes, FS_EmptySet DEF Init, CountInv
<1> QED
  BY <1>1, <1>2, <1>3, <1>4 DEF LoaderInv

LEMMA StutterKeeps ==
  ASSUME LoaderInv, UNCHANGED vars PROVE LoaderInv'
BY DEF vars, file_vars, stack_vars, LoaderInv, LoaderTypeOK, StageInv, SegsInv, CurrentInv,
       Reached, Filled, OwnersInv, Covers, RangeInv, StrayInv, CountInv, MappedPages, Eager, Demand

LEMMA NextKeeps == LoaderInv /\ [Next]_vars => LoaderInv'
BY TokenizeKeeps, PagedirKeeps, OpenKeeps, PhdrKeeps, LoadPageKeeps, SegmentLoadedKeeps, SetupStackKeeps,
   PushStringKeeps, AlignKeeps, PushPointersKeeps, PushRestKeeps, SucceedKeeps, StutterKeeps
   DEF Next

LEMMA Invariant == Spec => []LoaderInv
BY InitInv, NextKeeps, PTL DEF Spec

-----------------------------------------------------------------------------

\* The byte at distance k from the start of a segment.
LEMMA SegmentByte ==
  ASSUME LoaderTypeOK, NEW h \in Phdr, Shaped(h), Filled(h, Size(h)),
         NEW k \in 0 .. h.p_memsz - 1, NEW a, a = h.p_vaddr + k
  PROVE  /\ mem[pg_round_down(a)].here
         /\ mem[pg_round_down(a)].writable = h.writable
         /\ Byte(a) = IF k < h.p_filesz THEN h.p_offset + k ELSE None
<1>0. /\ PGSIZE \in Nat \ {0} /\ h.p_memsz \in Int /\ k \in Int /\ 0 <= k /\ k < h.p_memsz
      /\ h.p_filesz \in Int /\ 0 <= h.p_filesz
  BY Sizes, PhdrTypes
<1>1. /\ Base(h) \in Int /\ From(h) \in Int /\ Off(h) \in Int /\ FileBytes(h) \in Int /\ Size(h) \in Int
      /\ Base(h) % PGSIZE = 0 /\ 0 <= Off(h)
      /\ h.p_vaddr = Base(h) + Off(h) /\ h.p_offset = From(h) + Off(h)
      /\ Off(h) + h.p_memsz <= Size(h)
  BY DEF Shaped
<1>2. PICK n \in Int : n = Off(h) + k /\ 0 <= n /\ n < Size(h)
  BY <1>0, <1>1
<1>3. PICK r \in Int : r = n % PGSIZE /\ 0 <= r /\ r < PGSIZE
  BY <1>0, <1>2, Remainder
<1>4. PICK d \in Int : d = n - r /\ d % PGSIZE = 0
  BY <1>0, <1>2, <1>3, RoundDown
<1>5. 0 <= d /\ d < Size(h)
  <2>1. d <= n
    BY <1>2, <1>3, <1>4
  <2>2. CASE d < 0
    <3>1. d + PGSIZE <= 0
      BY <1>0, <1>4, <2>2, Small, MultipleGap
    <3> QED
      BY <3>1, <1>0, <1>2, <1>3, <1>4
  <2> QED
    BY <2>1, <2>2, <1>1, <1>2
<1>6. pg_ofs(a) = r /\ pg_round_down(a) = Base(h) + d
  <2>1. PICK b \in Int : b = Base(h) + d /\ b % PGSIZE = 0
    BY <1>0, <1>1, <1>4, MultipleSum
  <2>2. a = b + r /\ r \in 0 .. PGSIZE - 1
    <3>1. a = Base(h) + Off(h) + k
      BY <1>1
    <3>2. b = Base(h) + d /\ d = n - r /\ n = Off(h) + k
      BY <2>1, <1>2, <1>4
    <3>3. r \in 0 .. PGSIZE - 1
      BY <1>0, <1>3
    <3>4. Base(h) \in Int /\ Off(h) \in Int /\ k \in Int /\ r \in Int
      BY <1>0, <1>1
    <3> QED
      BY ONLY <3>1, <3>2, <3>3, <3>4
  <2>3. pg_ofs(a) = r
    BY <2>1, <2>2, <1>0, MultiplePlus DEF pg_ofs
  <2>4. pg_round_down(a) = a - r
    BY <2>3 DEF pg_round_down
  <2> QED
    BY <2>1, <2>2, <2>3, <2>4, <1>3
<1>7. mem[pg_round_down(a)] = PageAt(h, d)
  BY <1>4, <1>5, <1>6 DEF Filled
<1>8. PICK before \in Int : before = Before(h, d)
  BY <1>1 DEF Before
<1>9. PICK here \in Int : here = Here(h, d)
  BY <1>0, <1>1, <1>8 DEF Here
<1>10. /\ mem[pg_round_down(a)].here /\ mem[pg_round_down(a)].writable = h.writable
       /\ mem[pg_round_down(a)].n = here /\ mem[pg_round_down(a)].ofs = From(h) + before
  BY <1>7, <1>8, <1>9 DEF PageAt, PageOf
<1>11. Byte(a) = IF r < here THEN From(h) + before + r ELSE None
  BY <1>10, <1>6 DEF Byte
<1>12. here = (IF FileBytes(h) - before < PGSIZE THEN FileBytes(h) - before ELSE PGSIZE)
  BY <1>8, <1>9 DEF Here
<1>13. before = (IF d < FileBytes(h) THEN d ELSE FileBytes(h))
  BY <1>8 DEF Before
<1>14. r < here <=> n < FileBytes(h)
  BY <1>0, <1>1, <1>2, <1>3, <1>4, <1>12, <1>13
<1>15. n < FileBytes(h) <=> k < h.p_filesz
  BY <1>0, <1>1, <1>2 DEF FileBytes
<1>16. CASE k < h.p_filesz
  <2>1. r < here /\ before = d
    BY <1>0, <1>1, <1>2, <1>3, <1>4, <1>13, <1>14, <1>15, <1>16
  <2>2. From(h) + d + r = h.p_offset + k
    BY <1>0, <1>1, <1>2, <1>3, <1>4
  <2> QED
    BY <1>10, <1>11, <1>16, <2>1, <2>2
<1>17. CASE ~(k < h.p_filesz)
  BY <1>10, <1>11, <1>14, <1>15, <1>17
<1> QED
  BY <1>16, <1>17

LEMMA MemoryIsRight == LoaderInv => MemoryRight
<1> SUFFICES ASSUME LoaderInv PROVE MemoryRight
  OBVIOUS
<1>1. \A a \in MappedPages : PGSIZE <= a /\ a < PHYS_BASE
  BY DEF LoaderInv, RangeInv, MappedPages
<1>s. \A h \in Segments : h \in Phdr /\ Shaped(h) /\ Filled(h, Size(h))
  <2> SUFFICES ASSUME NEW i \in 1 .. next - 1, phdrs[i].p_type = "load"
               PROVE  phdrs[i] \in Phdr /\ Shaped(phdrs[i]) /\ Filled(phdrs[i], Size(phdrs[i]))
    BY DEF Segments
  <2>1. phdrs[i] \in Phdr
    BY DEF LoaderInv, LoaderTypeOK
  <2> QED
    BY <2>1 DEF LoaderInv, SegsInv
<1>2. ASSUME NEW h \in Segments PROVE h.p_vaddr + h.p_memsz < PHYS_BASE
  BY <1>s DEF Shaped
<1>3. ASSUME NEW h \in Segments, NEW k \in 0 .. h.p_memsz - 1
      PROVE  LET a == h.p_vaddr + k IN
             /\ mem[pg_round_down(a)].here
             /\ mem[pg_round_down(a)].writable = h.writable
             /\ Byte(a) = IF k < h.p_filesz THEN h.p_offset + k ELSE None
  <2>1. h \in Phdr /\ Shaped(h) /\ Filled(h, Size(h)) /\ LoaderTypeOK
    BY <1>s DEF LoaderInv
  <2>2. PICK a : a = h.p_vaddr + k
    OBVIOUS
  <2> QED
    BY <2>1, <2>2, SegmentByte
<1>4. ASSUME pc = "done", NEW a \in MappedPages \ {StackPage}
      PROVE  \E h \in Segments : h.p_vaddr < a + PGSIZE /\ a < h.p_vaddr + h.p_memsz
  <2>1. PICK i \in 1 .. next - 1 : Covers(i, a)
    BY <1>4 DEF LoaderInv, OwnersInv, MappedPages
  <2> QED
    BY <2>1 DEF Covers, Segments
<1> QED
  BY <1>1, <1>2, <1>3, <1>4 DEF MemoryRight

LEMMA NothingIsLeft == LoaderInv => NothingLeft
<1> SUFFICES ASSUME LoaderInv PROVE NothingLeft
  OBVIOUS
<1>0. /\ esp \in Nat /\ free \in Nat /\ Pool \in Nat /\ stray \in BOOLEAN
      /\ stray => esp = 0
  BY Sizes DEF LoaderInv, LoaderTypeOK, StageInv
<1> DEFINE extra == {x \in {"stack", "stray"} : IF x = "stack" THEN esp # 0 ELSE stray}
<1>1. Eager => free + Cardinality(MappedPages) = Pool
  BY DEF LoaderInv, CountInv
<1>2. ~Eager => free + Cardinality(extra) = Pool
  <2>1. CASE esp # 0
    <3>1. extra = {"stack"}
      BY <1>0, <2>1
    <3>2. Cardinality(extra) = 1
      BY <3>1, FS_Singleton
    <3> QED
      BY <1>0, <2>1, <3>2 DEF LoaderInv, CountInv
  <2>2. CASE esp = 0 /\ stray
    <3>1. extra = {"stray"}
      BY <2>2
    <3>2. Cardinality(extra) = 1
      BY <3>1, FS_Singleton
    <3> QED
      BY <1>0, <2>2, <3>2 DEF LoaderInv, CountInv
  <2>3. CASE esp = 0 /\ ~stray
    <3>1. extra = {}
      BY <2>3
    <3>2. Cardinality(extra) = 0
      BY <3>1, FS_EmptySet
    <3> QED
      BY <1>0, <2>3, <3>2 DEF LoaderInv, CountInv
  <2> QED
    BY <1>0, <2>1, <2>2, <2>3
<1>3. pc \in {"done", "failed", "refused"} => ~locked
  BY DEF LoaderInv, StageInv
<1>4. pc = "panic" => Demand /\ MappedPages = {}
  BY DEF LoaderInv, StageInv, MappedPages
<1>5. stray => \E h \in Segments : h.p_vaddr + h.p_memsz > StackPage
  <2> SUFFICES ASSUME stray PROVE \E h \in Segments : h.p_vaddr + h.p_memsz > StackPage
    OBVIOUS
  <2>1. PICK i \in 1 .. next - 1 : Covers(i, StackPage)
    BY DEF LoaderInv, StrayInv
  <2>2. phdrs[i] \in Segments
    BY <2>1 DEF Covers, Segments
  <2>3. /\ phdrs[i] \in Phdr /\ StackPage \in Int
    BY Sizes DEF LoaderInv, LoaderTypeOK, StackPage
  <2>4. phdrs[i].p_vaddr + phdrs[i].p_memsz > StackPage
    <3>1. phdrs[i].p_vaddr \in Int /\ phdrs[i].p_memsz \in Int
      BY <2>3, PhdrTypes
    <3> QED
      BY <2>1, <2>3, <3>1 DEF Covers
  <2> QED
    BY <2>2, <2>4
<1>6. pc = "done" => opened
  BY DEF LoaderInv, StageInv
<1> QED
  BY <1>1, <1>2, <1>3, <1>4, <1>5, <1>6 DEF NothingLeft

-----------------------------------------------------------------------------

\* The types of the variables of load (process.c), in every state.
THEOREM LoaderTypes == Spec => []LoaderTypeOK
<1>1. LoaderInv => LoaderTypeOK
  BY DEF LoaderInv
<1> QED
  BY <1>1, Invariant, PTL

\* load (process.c), for every executable, size of page and address space: no
\* page outside the user's part of the address space, and, when load succeeds,
\* in each segment the bytes of the file, then zeros, with its protection.
THEOREM SegmentsAreLoaded == Spec => []MemoryRight
BY Invariant, MemoryIsRight, PTL

\* load (process.c), for every executable and arguments: whichever step fails,
\* the pages are accounted for, file_lock is released, the executable of a program
\* that runs is open, and the only panic is the release of file_lock that was not
\* acquired.
THEOREM LoadLeavesNothing == Spec => []NothingLeft
BY Invariant, NothingIsLeft, PTL

-----------------------------------------------------------------------------

\* The stack of the program.

Room == StackPage .. PHYS_BASE - 1

\* Word w at address a.
WordAt(a, w) == \A k \in 0 .. WORD_SIZE - 1 : a + k \in Room /\ stack[a + k] = <<"word", w, k>>

\* The arguments that have an address are there.
StringsInv ==
  \A i \in 1 .. Len(args) : argv[i] # 0 =>
    /\ esp <= argv[i] /\ argv[i] + args[i] < PHYS_BASE
    /\ \A k \in 0 .. args[i] : stack[argv[i] + k] = <<"char", i, k>>

\* The vector of the program's arguments at address a.
VectorAt(a) ==
  /\ \A i \in 1 .. Len(args) : WordAt(a + (i - 1) * WORD_SIZE, argv[i])
  /\ WordAt(a + Len(args) * WORD_SIZE, 0)

StackInv ==
  /\ DOMAIN stack = Room
  /\ pc \in Stacking \cup {"done"} =>
       /\ esp \in StackPage .. PHYS_BASE /\ Len(argv) = Len(args) /\ StringsInv
       /\ pc # "strings" => esp % WORD_SIZE = 0 /\ \A i \in 1 .. Len(args) : argv[i] # 0
       /\ pc = "rest" => VectorAt(esp)
       /\ pc \in {"entry", "done"} =>
            \E start \in Int : /\ start % WORD_SIZE = 0 /\ VectorAt(start)
                               /\ WordAt(esp + 2 * WORD_SIZE, start)
                               /\ WordAt(esp + WORD_SIZE, Len(args))

LEMMA RoomIs ==
  /\ StackPage \in Nat /\ StackPage > 0 /\ PHYS_BASE \in Nat /\ WORD_SIZE \in Nat /\ WORD_SIZE > 0
  /\ \A a \in Room : a \in Int /\ StackPage <= a /\ a < PHYS_BASE
BY Sizes DEF Room, StackPage

LEMMA Pushes ==
  ASSUME DOMAIN stack = Room, esp \in StackPage .. PHYS_BASE,
         NEW n \in Nat, NEW bytes, Len(bytes) = n, NEW label, Push(bytes, label)
  PROVE  /\ DOMAIN stack' = Room
         /\ \/ pc' \in {"failed", "fault", "panic"}
            \/ /\ pc' = label /\ esp' = esp - n /\ esp' \in StackPage .. PHYS_BASE
               /\ \A a \in Room : a >= esp => stack'[a] = stack[a]
               /\ \A j \in 0 .. n - 1 : esp' + j \in Room /\ stack'[esp' + j] = bytes[j + 1]
<1>0. esp \in Int /\ StackPage \in Int /\ PHYS_BASE \in Int /\ StackPage <= esp /\ esp <= PHYS_BASE
  BY RoomIs
<1>1. CASE esp - n >= StackPage
  <2>1. stack' = Pushed(bytes) /\ esp' = esp - n /\ pc' = label
    BY <1>1 DEF Push, Goto
  <2>2. PICK p \in Int : p = esp - n
    BY <1>0
  <2>3. stack' = [a \in Room |-> IF p <= a /\ a < esp THEN bytes[a - p + 1] ELSE stack[a]]
    BY <2>1, <2>2 DEF Pushed
  <2>4. \A a \in Room : a >= esp => stack'[a] = stack[a]
    BY <1>0, <2>3, RoomIs
  <2>5. ASSUME NEW j \in 0 .. n - 1 PROVE p + j \in Room /\ stack'[p + j] = bytes[j + 1]
    <3>1. p + j \in Room /\ p <= p + j /\ p + j < esp /\ (p + j) - p + 1 = j + 1
      BY <1>0, <1>1, <2>2 DEF Room
    <3> QED
      BY <2>3, <3>1
  <2>6. esp' = p /\ esp' \in StackPage .. PHYS_BASE
    BY <1>0, <1>1, <2>1, <2>2
  <2>7. \A j \in 0 .. n - 1 : esp' + j \in Room /\ stack'[esp' + j] = bytes[j + 1]
    BY <2>5, <2>6
  <2>8. DOMAIN stack' = Room
    BY <2>3
  <2> QED
    BY <2>1, <2>4, <2>6, <2>7, <2>8
<1>2. CASE ~(esp - n >= StackPage)
  BY <1>2 DEF Push, End, Goto
<1> QED
  BY <1>1, <1>2

LEMMA PlaceInWords ==
  ASSUME NEW P \in Nat \ {0}, NEW m \in Nat, NEW j \in 0 .. m - 1, NEW r \in 0 .. P - 1
  PROVE  /\ j * P + r \in 0 .. P * m - 1 /\ j * P \in Int
         /\ (j * P + r) \div P = j /\ (j * P + r) % P = r
<1>1. (j * P + r) \div P = j /\ (j * P + r) % P = r
  OBVIOUS
<1>2. j + 1 <= m /\ j \in Nat /\ j * P \in Nat /\ P * m \in Nat /\ (j + 1) * P = j * P + P
  OBVIOUS
<1>3. (j + 1) * P <= m * P /\ m * P = P * m
  BY <1>2
<1> QED
  BY <1>1, <1>2, <1>3

LEMMA WordsPushed ==
  ASSUME DOMAIN stack = Room, esp \in StackPage .. PHYS_BASE,
         NEW m \in Nat, NEW words, Len(words) = m, NEW label, Push(BytesOf(words), label)
  PROVE  /\ DOMAIN stack' = Room
         /\ \/ pc' \in {"failed", "fault", "panic"}
            \/ /\ pc' = label /\ esp' = esp - m * WORD_SIZE /\ esp' \in StackPage .. PHYS_BASE
               /\ \A a \in Room : a >= esp => stack'[a] = stack[a]
               /\ \A j \in 0 .. m - 1, k \in 0 .. WORD_SIZE - 1 :
                    /\ (esp' + j * WORD_SIZE) + k \in Room
                    /\ stack'[(esp' + j * WORD_SIZE) + k] = <<"word", words[m - j], k>>
<1>1. PICK n \in Nat : n = WORD_SIZE * m /\ n = m * WORD_SIZE
  BY Sizes
<1> DEFINE byte(k) == <<"word", words[m - (k - 1) \div WORD_SIZE], (k - 1) % WORD_SIZE>>
<1>2. PICK bytes : bytes = [k \in 1 .. n |-> byte(k)]
  OBVIOUS
<1>3. BytesOf(words) = bytes
  BY <1>1, <1>2 DEF BytesOf
<1>4. Len(bytes) = n
  <2> HIDE DEF byte
  <2> QED
    BY <1>2
<1>5. /\ DOMAIN stack' = Room
      /\ \/ pc' \in {"failed", "fault", "panic"}
         \/ /\ pc' = label /\ esp' = esp - n /\ esp' \in StackPage .. PHYS_BASE
            /\ \A a \in Room : a >= esp => stack'[a] = stack[a]
            /\ \A j \in 0 .. n - 1 : esp' + j \in Room /\ stack'[esp' + j] = bytes[j + 1]
  BY <1>3, <1>4, Pushes
<1>6. ASSUME NEW j \in 0 .. m - 1, NEW k \in 0 .. WORD_SIZE - 1, esp' \in Int,
             \A i \in 0 .. n - 1 : esp' + i \in Room /\ stack'[esp' + i] = bytes[i + 1]
      PROVE  /\ (esp' + j * WORD_SIZE) + k \in Room
             /\ stack'[(esp' + j * WORD_SIZE) + k] = <<"word", words[m - j], k>>
  <2>1. PICK i \in Int : /\ i = j * WORD_SIZE + k /\ i \in 0 .. n - 1
                         /\ i \div WORD_SIZE = j /\ i % WORD_SIZE = k
    BY <1>1, Sizes, PlaceInWords
  <2>2. (esp' + j * WORD_SIZE) + k = esp' + i
    <3>1. j * WORD_SIZE \in Int
      BY RoomIs
    <3> QED
      BY <1>6, <2>1, <3>1, RoomIs
  <2>3. i + 1 \in 1 .. n /\ (i + 1) - 1 = i
    BY <2>1
  <2>4. bytes[i + 1] = <<"word", words[m - j], k>>
    BY <1>2, <2>1, <2>3
  <2> QED
    BY <1>6, <2>1, <2>2, <2>4
<1>7. \A a \in StackPage .. PHYS_BASE : a \in Int
  BY RoomIs
<1>8. CASE pc' \in {"failed", "fault", "panic"}
  BY <1>5, <1>8
<1>9. CASE pc' \notin {"failed", "fault", "panic"}
  <2>1. /\ pc' = label /\ esp' = esp - n /\ esp' \in StackPage .. PHYS_BASE
        /\ \A a \in Room : a >= esp => stack'[a] = stack[a]
        /\ \A j \in 0 .. n - 1 : esp' + j \in Room /\ stack'[esp' + j] = bytes[j + 1]
    BY <1>5, <1>9
  <2>2. \A j \in 0 .. m - 1, k \in 0 .. WORD_SIZE - 1 :
          /\ (esp' + j * WORD_SIZE) + k \in Room
          /\ stack'[(esp' + j * WORD_SIZE) + k] = <<"word", words[m - j], k>>
    BY <1>6, <1>7, <2>1
  <2>3. esp' = esp - m * WORD_SIZE
    BY <1>1, <2>1
  <2> QED
    BY <1>5, <2>1, <2>2, <2>3
<1> QED
  BY <1>8, <1>9

\* Words and strings that were there stay there.
LEMMA WordStays ==
  ASSUME esp \in Int, NEW a \in Int, esp <= a, NEW w, WordAt(a, w),
         \A b \in Room : b >= esp => stack'[b] = stack[b]
  PROVE  WordAt(a, w)'
<1> SUFFICES ASSUME NEW k \in 0 .. WORD_SIZE - 1
             PROVE  a + k \in Room /\ stack'[a + k] = <<"word", w, k>>
  BY DEF WordAt, Room, StackPage
<1>1. a + k \in Room /\ stack[a + k] = <<"word", w, k>> /\ a + k >= esp
  BY DEF WordAt
<1> QED
  BY <1>1

LEMMA StringsStay ==
  ASSUME LoaderTypeOK, StringsInv, Len(argv) = Len(args), esp \in StackPage .. PHYS_BASE,
         esp' \in Int, esp' <= esp, args' = args, argv' = argv,
         \A b \in Room : b >= esp => stack'[b] = stack[b]
  PROVE  StringsInv'
<1> SUFFICES ASSUME NEW i \in 1 .. Len(args), argv[i] # 0
             PROVE  /\ esp' <= argv[i] /\ argv[i] + args[i] < PHYS_BASE
                    /\ \A k \in 0 .. args[i] : stack'[argv[i] + k] = <<"char", i, k>>
  BY DEF StringsInv
<1>1. argv[i] \in Int /\ args[i] \in Int /\ esp \in Int /\ StackPage \in Int /\ PHYS_BASE \in Int
  <2>1. args \in Seq(Nat \ {0}) /\ argv \in Seq(Nat)
    BY DEF LoaderTypeOK
  <2>2. i \in DOMAIN args /\ i \in DOMAIN argv
    BY ONLY <2>1, i \in 1 .. Len(args), Len(argv) = Len(args)
  <2>3. argv[i] \in Nat /\ args[i] \in Nat
    BY ONLY <2>1, <2>2
  <2>4. StackPage \in Int /\ PHYS_BASE \in Int
    BY ONLY RoomIs
  <2> QED
    BY ONLY <2>3, <2>4, esp \in StackPage .. PHYS_BASE
<1>2. /\ esp <= argv[i] /\ argv[i] + args[i] < PHYS_BASE
      /\ \A k \in 0 .. args[i] : stack[argv[i] + k] = <<"char", i, k>>
  BY DEF StringsInv
<1>3. ASSUME NEW k \in 0 .. args[i] PROVE argv[i] + k \in Room /\ argv[i] + k >= esp
  BY <1>1, <1>2 DEF Room
<1>4. \A k \in 0 .. args[i] : stack'[argv[i] + k] = <<"char", i, k>>
  BY <1>2, <1>3
<1>5. esp' <= argv[i]
  BY <1>1, <1>2
<1> QED
  BY <1>2, <1>4, <1>5

-----------------------------------------------------------------------------

\* Where there is no stack of the program to speak of.
LEMMA StackElsewhere ==
  ASSUME DOMAIN stack' = Room, pc' \notin Stacking \cup {"done"}
  PROVE  StackInv'
BY DEF StackInv, Room, StackPage

LEMMA StackStart == Init => StackInv
<1> SUFFICES ASSUME Init PROVE StackInv
  OBVIOUS
<1>1. DOMAIN stack = Room /\ pc = "tokenize"
  BY DEF Init, Room
<1> QED
  BY <1>1 DEF StackInv, Stacking

LEMMA BeforeStack ==
  ASSUME LoaderInv, StackInv,
         Tokenize \/ CreatePagedir \/ OpenFile \/ ReadPhdr \/ LoadPage \/ SegmentLoaded
  PROVE  StackInv'
<1>1. stack' = stack /\ DOMAIN stack = Room
  BY DEF StackInv, Tokenize, CreatePagedir, OpenFile, ReadPhdr, LoadPage, SegmentLoaded, Fail, stack_vars
<1>2. pc' \in {"refused", "pagedir", "failed", "panic", "open", "phdr", "segment"}
  BY DEF Tokenize, CreatePagedir, OpenFile, ReadPhdr, LoadPage, SegmentLoaded, Fail, End, Goto
<1>3. pc' \notin Stacking \cup {"done"}
  BY <1>2 DEF Stacking
<1> QED
  BY <1>1, <1>3, StackElsewhere

LEMMA SetupStackStack ==
  ASSUME LoaderInv, StackInv, SetupStack
  PROVE  StackInv'
<1>0. DOMAIN stack = Room /\ LoaderTypeOK
  BY DEF StackInv, LoaderInv
<1>1. CASE pc' \in {"failed", "panic"}
  <2>1. stack' = stack /\ pc' \notin Stacking \cup {"done"}
    BY <1>1 DEF SetupStack, Fail, Goto, stack_vars, Stacking
  <2> QED
    BY <1>0, <2>1, StackElsewhere
<1>2. CASE pc' \notin {"failed", "panic"}
  <2>1. /\ pc' = "strings" /\ esp' = PHYS_BASE /\ argv' = [i \in 1 .. Len(args) |-> 0]
        /\ args' = args /\ stack' = stack
    BY <1>2 DEF SetupStack, Fail, End, Goto, stack_vars, file_vars
  <2>2. PICK n \in Nat : n = Len(args)
    BY <1>0 DEF LoaderTypeOK
  <2>3. Len(argv') = n /\ \A i \in 1 .. n : argv'[i] = 0
    BY <2>1, <2>2
  <2>4. StringsInv'
    BY <2>1, <2>2, <2>3 DEF StringsInv
  <2>5. esp' \in StackPage .. PHYS_BASE
    BY <2>1, Sizes DEF StackPage
  <2> QED
    BY <1>0, <2>1, <2>2, <2>3, <2>4, <2>5 DEF StackInv, Room, StackPage
<1> QED
  BY <1>1, <1>2

LEMMA PushStringStack ==
  ASSUME LoaderInv, StackInv, PushString
  PROVE  StackInv'
<1>0. /\ pc = "strings" /\ args \in Seq(Nat \ {0}) /\ argv \in Seq(Nat) /\ LoaderTypeOK
      /\ DOMAIN stack = Room /\ esp \in StackPage .. PHYS_BASE /\ Len(argv) = Len(args) /\ StringsInv
  BY DEF PushString, LoaderInv, LoaderTypeOK, StackInv, Stacking
<1>1. CASE Fail
  <2>1. stack' = stack /\ pc' \notin Stacking \cup {"done"}
    BY <1>1 DEF Fail, End, Goto, stack_vars, Stacking
  <2> QED
    BY <1>0, <2>1, StackElsewhere
<1>2. CASE ~Fail
  <2>1. PICK i \in Unplaced :
          /\ Push([k \in 1 .. args[i] + 1 |-> <<"char", i, k - 1>>], "strings")
          /\ argv' = [argv EXCEPT ![i] = esp']
          /\ args' = args
    BY <1>2 DEF PushString, file_vars
  <2>2. PICK bytes : bytes = [k \in 1 .. args[i] + 1 |-> <<"char", i, k - 1>>]
    OBVIOUS
  <2>3. i \in 1 .. Len(args) /\ argv[i] = 0 /\ args[i] \in Nat
    BY <1>0 DEF Unplaced
  <2>4. PICK n \in Nat : n = args[i] + 1 /\ n > 0
    BY <2>3
  <2>5. Len(bytes) = n /\ \A k \in 0 .. args[i] : bytes[k + 1] = <<"char", i, k>>
    BY <2>2, <2>3, <2>4
  <2>6. /\ DOMAIN stack' = Room
        /\ \/ pc' \in {"failed", "fault", "panic"}
           \/ /\ pc' = "strings" /\ esp' = esp - n /\ esp' \in StackPage .. PHYS_BASE
              /\ \A a \in Room : a >= esp => stack'[a] = stack[a]
              /\ \A j \in 0 .. n - 1 : esp' + j \in Room /\ stack'[esp' + j] = bytes[j + 1]
    <3>1. Push(bytes, "strings")
      BY <2>1, <2>2
    <3> QED
      BY ONLY <1>0, <2>4, <2>5, <3>1, Pushes
  <2>7. CASE pc' \in {"failed", "fault", "panic"}
    <3>1. pc' \notin Stacking \cup {"done"}
      BY <2>7 DEF Stacking
    <3> QED
      BY <2>6, <3>1, StackElsewhere
  <2>8. CASE pc' \notin {"failed", "fault", "panic"}
    <3>1. /\ pc' = "strings" /\ esp' = esp - n /\ esp' \in StackPage .. PHYS_BASE
          /\ \A a \in Room : a >= esp => stack'[a] = stack[a]
          /\ \A j \in 0 .. n - 1 : esp' + j \in Room /\ stack'[esp' + j] = bytes[j + 1]
      BY <2>6, <2>8
    <3>2. /\ Len(argv') = Len(args) /\ argv'[i] = esp' /\ DOMAIN argv = 1 .. Len(args)
          /\ \A m \in 1 .. Len(args) : m # i => argv'[m] = argv[m]
      BY <1>0, <2>1, <2>3
    <3>3. esp \in Int /\ esp' \in Int /\ PHYS_BASE \in Int /\ esp' < esp /\ esp' # 0 /\ esp <= PHYS_BASE
      <4>1. PICK e, f : e = esp /\ f = esp'
        OBVIOUS
      <4>2. e \in StackPage .. PHYS_BASE /\ f \in StackPage .. PHYS_BASE /\ f = e - n
        BY <1>0, <3>1, <4>1
      <4>3. e \in Int /\ f \in Int /\ PHYS_BASE \in Int /\ f < e /\ f # 0 /\ e <= PHYS_BASE
        BY ONLY <2>4, <4>2, n \in Nat, RoomIs
      <4> QED
        BY <4>1, <4>3
    <3>4. ASSUME NEW m \in 1 .. Len(args), argv'[m] # 0
          PROVE  /\ esp' <= argv'[m] /\ argv'[m] + args[m] < PHYS_BASE
                 /\ \A k \in 0 .. args[m] : stack'[argv'[m] + k] = <<"char", m, k>>
      <4>1. CASE m = i
        <5>1. esp' + args[i] < PHYS_BASE
          <6>1. PICK e, f : e = esp /\ f = esp'
            OBVIOUS
          <6>2. f = e - n /\ e \in Int /\ f \in Int /\ PHYS_BASE \in Int /\ e <= PHYS_BASE
            BY ONLY <3>1, <3>3, <6>1
          <6>3. f + args[i] < PHYS_BASE
            BY ONLY <2>3, <2>4, <6>2, n \in Nat
          <6> QED
            BY <6>1, <6>3
        <5>2. ASSUME NEW k \in 0 .. args[i] PROVE stack'[esp' + k] = <<"char", i, k>>
          <6>1. k \in 0 .. n - 1
            BY <2>3, <2>4
          <6> QED
            BY <2>5, <3>1, <6>1
        <5> QED
          BY <3>2, <3>3, <4>1, <5>1, <5>2
      <4>2. CASE m # i
        <5>1. argv'[m] = argv[m] /\ argv[m] # 0 /\ argv[m] \in Nat /\ args[m] \in Nat
          BY <1>0, <3>2, <3>4, <4>2
        <5>2. /\ esp <= argv[m] /\ argv[m] + args[m] < PHYS_BASE
              /\ \A k \in 0 .. args[m] : stack[argv[m] + k] = <<"char", m, k>>
          BY <1>0, <5>1 DEF StringsInv
        <5>3. ASSUME NEW k \in 0 .. args[m] PROVE argv[m] + k \in Room /\ argv[m] + k >= esp
          <6>1. StackPage <= esp /\ StackPage \in Int
            BY <1>0, RoomIs
          <6> QED
            BY <3>3, <5>1, <5>2, <6>1 DEF Room
        <5>4. \A k \in 0 .. args[m] : stack'[argv[m] + k] = <<"char", m, k>>
          BY <3>1, <5>2, <5>3
        <5>5. esp' <= argv[m]
          BY <3>3, <5>1, <5>2
        <5> QED
          BY <5>1, <5>2, <5>4, <5>5
      <4> QED
        BY <4>1, <4>2
    <3>5. StringsInv'
      BY <2>1, <3>4 DEF StringsInv
    <3> QED
      BY <2>1, <2>6, <3>1, <3>2, <3>5 DEF StackInv, Room, StackPage
  <2> QED
    BY <2>7, <2>8
<1> QED
  BY <1>1, <1>2

LEMMA AlignStack ==
  ASSUME LoaderInv, StackInv, Align
  PROVE  StackInv'
<1>0. /\ pc = "strings" /\ argv' = argv /\ args' = args /\ Unplaced = {} /\ LoaderTypeOK
      /\ Push(Padding, "pointers")
      /\ DOMAIN stack = Room /\ esp \in StackPage .. PHYS_BASE /\ Len(argv) = Len(args) /\ StringsInv
  BY DEF Align, LoaderInv, StackInv, Stacking, file_vars
<1>1. esp \in Int /\ WORD_SIZE \in Nat \ {0}
  BY <1>0, RoomIs
<1>2. PICK n \in Nat : n = esp % WORD_SIZE
  BY <1>1, Remainder
<1>3. Padding = [k \in 1 .. n |-> <<"zero">>]
  BY <1>2 DEF Padding
<1>4. Len(Padding) = n
  BY <1>3
<1>5. /\ DOMAIN stack' = Room
      /\ \/ pc' \in {"failed", "fault", "panic"}
         \/ /\ pc' = "pointers" /\ esp' = esp - n /\ esp' \in StackPage .. PHYS_BASE
            /\ \A a \in Room : a >= esp => stack'[a] = stack[a]
  BY <1>0, <1>4, Pushes
<1>6. CASE pc' \in {"failed", "fault", "panic"}
  <2>1. pc' \notin Stacking \cup {"done"}
    BY <1>6 DEF Stacking
  <2> QED
    BY <1>5, <2>1, StackElsewhere
<1>7. CASE pc' \notin {"failed", "fault", "panic"}
  <2>1. /\ pc' = "pointers" /\ esp' = esp - n /\ esp' \in StackPage .. PHYS_BASE
        /\ \A a \in Room : a >= esp => stack'[a] = stack[a]
    BY <1>5, <1>7
  <2>2. esp' \in Int /\ esp' <= esp
    BY <1>1, <1>2, <2>1
  <2>3. StringsInv'
    BY <1>0, <2>1, <2>2, StringsStay
  <2>4. esp' % WORD_SIZE = 0
    BY <1>1, <1>2, <2>1, RoundDown
  <2>5. \A i \in 1 .. Len(args) : argv[i] # 0
    BY <1>0 DEF Unplaced
  <2> QED
    BY <1>0, <1>5, <2>1, <2>3, <2>4, <2>5 DEF StackInv, Room, StackPage
<1> QED
  BY <1>6, <1>7

LEMMA PointerWords ==
  ASSUME argv \in Seq(Nat), NEW n \in Nat, n = Len(argv)
  PROVE  /\ Len(Pointers) = n + 1 /\ Pointers[1] = 0
         /\ \A i \in 1 .. n : Pointers[(n + 1) - (i - 1)] = argv[i]
<1>1. PICK r : r = [i \in 1 .. n |-> argv[(n - i) + 1]]
  OBVIOUS
<1>2. Reverse(argv) = r
  BY <1>1 DEF Reverse
<1>3. ASSUME NEW i \in 1 .. n PROVE r[i] = argv[(n - i) + 1] /\ r[i] \in Nat
  BY <1>1
<1>4. r \in Seq(Nat) /\ Len(r) = n
  BY <1>1, <1>3
<1>5. /\ Len(<<0>> \o r) = n + 1 /\ (<<0>> \o r)[1] = 0
      /\ \A m \in 2 .. n + 1 : (<<0>> \o r)[m] = r[m - 1]
  BY <1>4
<1>6. ASSUME NEW i \in 1 .. n PROVE (<<0>> \o r)[(n + 1) - (i - 1)] = argv[i]
  <2>0. PICK m : m = (n + 1) - (i - 1)
    OBVIOUS
  <2>1. m \in 2 .. n + 1 /\ m = (n + 1) - (i - 1) /\ m - 1 \in 1 .. n /\ (n - (m - 1)) + 1 = i
    BY <2>0
  <2>2. r[m - 1] = argv[i]
    BY <1>3, <2>1
  <2> QED
    BY <1>5, <2>1, <2>2
<1> QED
  BY <1>2, <1>5, <1>6 DEF Pointers

LEMMA PushPointersStack ==
  ASSUME LoaderInv, StackInv, PushPointers
  PROVE  StackInv'
<1>0. /\ pc = "pointers" /\ argv' = argv /\ args' = args /\ LoaderTypeOK
      /\ Push(BytesOf(Pointers), "rest") /\ argv \in Seq(Nat)
      /\ DOMAIN stack = Room /\ esp \in StackPage .. PHYS_BASE /\ Len(argv) = Len(args) /\ StringsInv
      /\ esp % WORD_SIZE = 0 /\ \A i \in 1 .. Len(args) : argv[i] # 0
  BY DEF PushPointers, LoaderInv, LoaderTypeOK, StackInv, Stacking, file_vars
<1>1. esp \in Int /\ WORD_SIZE \in Nat \ {0} /\ StackPage \in Int /\ PHYS_BASE \in Int
  BY <1>0, RoomIs
<1>2. PICK n \in Nat : n = Len(argv) /\ n = Len(args)
  BY <1>0
<1>3. /\ Len(Pointers) = n + 1 /\ Pointers[1] = 0
      /\ \A i \in 1 .. n : Pointers[(n + 1) - (i - 1)] = argv[i]
  BY <1>0, <1>2, PointerWords
<1>4. /\ DOMAIN stack' = Room
      /\ \/ pc' \in {"failed", "fault", "panic"}
         \/ /\ pc' = "rest" /\ esp' = esp - (n + 1) * WORD_SIZE /\ esp' \in StackPage .. PHYS_BASE
            /\ \A a \in Room : a >= esp => stack'[a] = stack[a]
            /\ \A j \in 0 .. (n + 1) - 1, k \in 0 .. WORD_SIZE - 1 :
                 /\ (esp' + j * WORD_SIZE) + k \in Room
                 /\ stack'[(esp' + j * WORD_SIZE) + k] = <<"word", Pointers[(n + 1) - j], k>>
  <2>1. /\ DOMAIN stack = Room /\ esp \in StackPage .. PHYS_BASE
        /\ n + 1 \in Nat /\ Len(Pointers) = n + 1 /\ Push(BytesOf(Pointers), "rest")
    BY <1>0, <1>3
  <2> QED
    BY ONLY <2>1, WordsPushed
<1>5. CASE pc' \in {"failed", "fault", "panic"}
  <2>1. pc' \notin Stacking \cup {"done"}
    BY <1>5 DEF Stacking
  <2> QED
    BY <1>4, <2>1, StackElsewhere
<1>6. CASE pc' \notin {"failed", "fault", "panic"}
  <2>1. /\ pc' = "rest" /\ esp' = esp - (n + 1) * WORD_SIZE /\ esp' \in StackPage .. PHYS_BASE
        /\ \A a \in Room : a >= esp => stack'[a] = stack[a]
        /\ \A j \in 0 .. (n + 1) - 1, k \in 0 .. WORD_SIZE - 1 :
             /\ (esp' + j * WORD_SIZE) + k \in Room
             /\ stack'[(esp' + j * WORD_SIZE) + k] = <<"word", Pointers[(n + 1) - j], k>>
    BY <1>4, <1>6
  <2>2. (n + 1) * WORD_SIZE \in Nat /\ ((n + 1) * WORD_SIZE) % WORD_SIZE = 0
    <3>1. PICK m \in Nat : m = n + 1
      OBVIOUS
    <3>2. m * WORD_SIZE \in Nat /\ m * WORD_SIZE + 0 = m * WORD_SIZE /\ 0 \in 0 .. WORD_SIZE - 1
      BY <1>1
    <3>3. (m * WORD_SIZE + 0) % WORD_SIZE = 0
      BY <1>1, <3>2, OfMultiple
    <3> QED
      BY <3>1, <3>2, <3>3
  <2>3. esp' \in Int /\ esp' <= esp
    BY <1>1, <2>1, <2>2
  <2>4. esp' % WORD_SIZE = 0
    <3>0. PICK w \in Int : w = (n + 1) * WORD_SIZE /\ w % WORD_SIZE = 0
      BY <2>2
    <3>1. (esp - w) % WORD_SIZE = 0
      BY <1>0, <1>1, <3>0, MultipleSum
    <3> QED
      BY <2>1, <3>0, <3>1
  <2>5. StringsInv'
    BY <1>0, <2>1, <2>3, StringsStay
  <2>6. ASSUME NEW i \in 1 .. n, NEW k \in 0 .. WORD_SIZE - 1
        PROVE  /\ (esp' + (i - 1) * WORD_SIZE) + k \in Room
               /\ stack'[(esp' + (i - 1) * WORD_SIZE) + k] = <<"word", argv[i], k>>
    <3>1. i - 1 \in 0 .. (n + 1) - 1
      OBVIOUS
    <3> QED
      BY <1>3, <2>1, <3>1
  <2>7. ASSUME NEW k \in 0 .. WORD_SIZE - 1
        PROVE  /\ (esp' + n * WORD_SIZE) + k \in Room
               /\ stack'[(esp' + n * WORD_SIZE) + k] = <<"word", 0, k>>
    <3>1. n \in 0 .. (n + 1) - 1 /\ (n + 1) - n = 1
      OBVIOUS
    <3> QED
      BY <1>3, <2>1, <3>1
  <2>8. VectorAt(esp)'
    BY <1>0, <1>2, <2>6, <2>7 DEF VectorAt, WordAt, Room, StackPage
  <2> QED
    BY <1>0, <1>4, <2>1, <2>4, <2>5, <2>8 DEF StackInv, Room, StackPage
<1> QED
  BY <1>5, <1>6

-----------------------------------------------------------------------------

\* The vector stays where it is when words are pushed below it.
LEMMA VectorStays ==
  ASSUME LoaderTypeOK, Len(argv) = Len(args), esp \in Int, NEW a \in Int, esp <= a, VectorAt(a),
         args' = args, argv' = argv, \A b \in Room : b >= esp => stack'[b] = stack[b]
  PROVE  VectorAt(a)'
<1>1. PICK n \in Nat : n = Len(args)
  BY DEF LoaderTypeOK
<1>2. WORD_SIZE \in Nat
  BY RoomIs
<1>3. ASSUME NEW i \in 0 .. n PROVE a + i * WORD_SIZE \in Int /\ esp <= a + i * WORD_SIZE
  <2>1. i \in Nat /\ i * WORD_SIZE \in Nat
    BY <1>2
  <2> QED
    BY <2>1
<1>4. ASSUME NEW i \in 1 .. n PROVE WordAt(a + (i - 1) * WORD_SIZE, argv[i])'
  <2>1. i - 1 \in 0 .. n
    OBVIOUS
  <2>2. PICK b \in Int : b = a + (i - 1) * WORD_SIZE /\ esp <= b
    BY <1>3, <2>1
  <2>3. PICK w : w = argv[i]
    OBVIOUS
  <2>4. WordAt(b, w)
    BY <1>1, <2>2, <2>3 DEF VectorAt
  <2>5. WordAt(b, w)'
    BY <2>2, <2>4, WordStays
  <2> QED
    BY <2>2, <2>3, <2>5
<1>5. WordAt(a + n * WORD_SIZE, 0)'
  <2>1. PICK b \in Int : b = a + n * WORD_SIZE /\ esp <= b
    BY <1>3
  <2>2. WordAt(b, 0)
    BY <1>1, <2>1 DEF VectorAt
  <2>3. WordAt(b, 0)'
    BY <2>1, <2>2, WordStays
  <2> QED
    BY <2>1, <2>3
<1> QED
  BY <1>1, <1>4, <1>5 DEF VectorAt

LEMMA PushRestStack ==
  ASSUME LoaderInv, StackInv, PushRest
  PROVE  StackInv'
<1>0. /\ pc = "rest" /\ argv' = argv /\ args' = args /\ LoaderTypeOK
      /\ Push(BytesOf(<<esp, Len(args), 0>>), "entry")
      /\ DOMAIN stack = Room /\ esp \in StackPage .. PHYS_BASE /\ Len(argv) = Len(args) /\ StringsInv
      /\ esp % WORD_SIZE = 0 /\ \A i \in 1 .. Len(args) : argv[i] # 0
      /\ VectorAt(esp)
  BY DEF PushRest, LoaderInv, StackInv, Stacking, file_vars
<1>1. esp \in Int /\ WORD_SIZE \in Nat \ {0} /\ StackPage \in Int /\ PHYS_BASE \in Int
  BY <1>0, RoomIs
<1>2. PICK words, e : words = <<esp, Len(args), 0>> /\ e = esp
  OBVIOUS
<1>3. PICK m \in Nat : m = 3 /\ Len(words) = m /\ words[1] = e /\ words[2] = Len(args)
  BY <1>2
<1>4. /\ DOMAIN stack' = Room
      /\ \/ pc' \in {"failed", "fault", "panic"}
         \/ /\ pc' = "entry" /\ esp' = esp - m * WORD_SIZE /\ esp' \in StackPage .. PHYS_BASE
            /\ \A a \in Room : a >= esp => stack'[a] = stack[a]
            /\ \A j \in 0 .. m - 1, k \in 0 .. WORD_SIZE - 1 :
                 /\ (esp' + j * WORD_SIZE) + k \in Room
                 /\ stack'[(esp' + j * WORD_SIZE) + k] = <<"word", words[m - j], k>>
  <2>1. Push(BytesOf(words), "entry") /\ Len(words) = m
    BY <1>3, <1>0, <1>2
  <2> QED
    BY ONLY <1>0, m \in Nat, <2>1, WordsPushed
<1>5. CASE pc' \in {"failed", "fault", "panic"}
  <2>1. pc' \notin Stacking \cup {"done"}
    BY <1>5 DEF Stacking
  <2> QED
    BY <1>4, <2>1, StackElsewhere
<1>6. CASE pc' \notin {"failed", "fault", "panic"}
  <2>1. /\ pc' = "entry" /\ esp' = esp - m * WORD_SIZE /\ esp' \in StackPage .. PHYS_BASE
        /\ \A a \in Room : a >= esp => stack'[a] = stack[a]
        /\ \A j \in 0 .. m - 1, k \in 0 .. WORD_SIZE - 1 :
             /\ (esp' + j * WORD_SIZE) + k \in Room
             /\ stack'[(esp' + j * WORD_SIZE) + k] = <<"word", words[m - j], k>>
    BY <1>4, <1>6
  <2>2. PICK w \in Int : w = 3 * WORD_SIZE /\ w % WORD_SIZE = 0 /\ w >= 0
    <3>1. 3 * WORD_SIZE + 0 = 3 * WORD_SIZE /\ 3 * WORD_SIZE \in Int /\ 0 \in 0 .. WORD_SIZE - 1 /\ 3 \in Int
      BY <1>1
    <3>2. (3 * WORD_SIZE + 0) % WORD_SIZE = 0
      BY <1>1, <3>1, OfMultiple
    <3> QED
      BY <1>1, <3>1, <3>2
  <2>3. esp' \in Int /\ esp' <= esp
    BY <1>1, <1>3, <2>1, <2>2
  <2>4. esp' % WORD_SIZE = 0
    <3>1. (esp - w) % WORD_SIZE = 0
      BY <1>0, <1>1, <2>2, MultipleSum
    <3> QED
      BY <1>3, <2>1, <2>2, <3>1
  <2>5. StringsInv'
    BY <1>0, <2>1, <2>3, StringsStay
  <2>6. e % WORD_SIZE = 0 /\ e \in Int /\ VectorAt(e)'
    <3>1. VectorAt(e) /\ e \in Int /\ esp <= e
      BY <1>0, <1>1, <1>2
    <3>2. VectorAt(e)'
      BY ONLY <1>0, <1>1, <2>1, <3>1, VectorStays
    <3> QED
      BY <1>0, <1>2, <3>1, <3>2
  <2>7. WordAt(esp + 2 * WORD_SIZE, e)'
    <3>1. 2 \in 0 .. m - 1 /\ m - 2 = 1
      BY <1>3
    <3>2. \A k \in 0 .. WORD_SIZE - 1 : /\ (esp' + 2 * WORD_SIZE) + k \in Room
                                        /\ stack'[(esp' + 2 * WORD_SIZE) + k] = <<"word", e, k>>
      BY <1>3, <2>1, <3>1
    <3> QED
      BY <3>2 DEF WordAt, Room, StackPage
  <2>8. WordAt(esp + WORD_SIZE, Len(args))'
    <3>1. 1 \in 0 .. m - 1 /\ m - 1 = 2 /\ 1 * WORD_SIZE = WORD_SIZE
      BY <1>1, <1>3
    <3>2. \A k \in 0 .. WORD_SIZE - 1 : /\ (esp' + WORD_SIZE) + k \in Room
                                        /\ stack'[(esp' + WORD_SIZE) + k] = <<"word", Len(args), k>>
      BY <1>3, <2>1, <3>1
    <3> QED
      BY <1>0, <3>2 DEF WordAt, Room, StackPage
  <2>9. (\E start \in Int : /\ start % WORD_SIZE = 0 /\ VectorAt(start)
                            /\ WordAt(esp + 2 * WORD_SIZE, start)
                            /\ WordAt(esp + WORD_SIZE, Len(args)))'
    BY <2>6, <2>7, <2>8
  <2> QED
    BY <1>0, <1>4, <2>1, <2>4, <2>5, <2>9 DEF StackInv, Room, StackPage
<1> QED
  BY <1>5, <1>6

LEMMA SucceedStack ==
  ASSUME LoaderInv, StackInv, Succeed
  PROVE  StackInv'
<1>1. UNCHANGED <<args, esp, argv, stack>> /\ pc = "entry"
  BY DEF Succeed, file_vars, stack_vars
<1>2. pc' \in {"done", "panic"}
  BY DEF Succeed, End, Goto
<1> QED
  BY <1>1, <1>2 DEF StackInv, Stacking, StringsInv, VectorAt, WordAt, Room, StackPage

LEMMA StackStutters ==
  ASSUME StackInv, UNCHANGED vars PROVE StackInv'
BY DEF vars, file_vars, stack_vars, StackInv, StringsInv, VectorAt, WordAt, Room, StackPage

LEMMA StackStep == LoaderInv /\ StackInv /\ [Next]_vars => StackInv'
BY BeforeStack, SetupStackStack, PushStringStack, AlignStack, PushPointersStack, PushRestStack,
   SucceedStack, StackStutters DEF Next

LEMMA WordIs ==
  ASSUME DOMAIN stack = Room, NEW a \in Int, a % WORD_SIZE = 0, NEW w, WordAt(a, w)
  PROVE  Word(a) = w
<1>1. 0 \in 0 .. WORD_SIZE - 1 /\ a + 0 = a
  BY RoomIs
<1>2. a \in Room /\ stack[a] = <<"word", w, 0>>
  BY <1>1 DEF WordAt
<1>3. stack[a][2] = w
  BY <1>2
<1>4. \A k \in 0 .. WORD_SIZE - 1 : stack[a + k] = <<"word", stack[a][2], k>>
  BY <1>3 DEF WordAt
<1> QED
  BY <1>2, <1>3, <1>4 DEF Word

LEMMA MultipleMore ==
  ASSUME NEW P \in Nat \ {0}, NEW a \in Int, a % P = 0, NEW i \in Nat
  PROVE  a + i * P \in Int /\ (a + i * P) % P = 0
<1>1. PICK j \in Int : a = j * P
  BY MultipleOf
<1>2. a + i * P = (j + i) * P + 0 /\ j + i \in Int /\ 0 \in 0 .. P - 1 /\ a + i * P \in Int
  BY <1>1
<1>3. ((j + i) * P + 0) % P = 0
  BY <1>2, OfMultiple
<1> QED
  BY <1>2, <1>3

LEMMA StackIsRight == LoaderInv /\ StackInv => StackRight
<1> SUFFICES ASSUME LoaderInv, StackInv, pc = "done" PROVE StackRight
  BY DEF StackRight
<1>0. /\ args \in Seq(Nat \ {0}) /\ argv \in Seq(Nat) /\ LoaderTypeOK
      /\ DOMAIN stack = Room /\ esp \in StackPage .. PHYS_BASE /\ Len(argv) = Len(args) /\ StringsInv
      /\ esp % WORD_SIZE = 0 /\ \A i \in 1 .. Len(args) : argv[i] # 0
  BY DEF LoaderInv, LoaderTypeOK, StackInv
<1>1. PICK start \in Int : /\ start % WORD_SIZE = 0 /\ VectorAt(start)
                           /\ WordAt(esp + 2 * WORD_SIZE, start)
                           /\ WordAt(esp + WORD_SIZE, Len(args))
  BY DEF StackInv
<1>2. esp \in Int /\ WORD_SIZE \in Nat \ {0}
  BY <1>0, RoomIs
<1>3. PICK n \in Nat : n = Len(args)
  BY <1>0
<1>4. ASSUME NEW a \in Int, a % WORD_SIZE = 0, NEW i \in Nat
      PROVE  a + i * WORD_SIZE \in Int /\ (a + i * WORD_SIZE) % WORD_SIZE = 0
  BY <1>2, <1>4, MultipleMore
<1>5. Word(esp + 2 * WORD_SIZE) = start
  BY <1>0, <1>1, <1>2, <1>4, WordIs
<1>6. Word(esp + WORD_SIZE) = Len(args)
  <2>1. esp + 1 * WORD_SIZE = esp + WORD_SIZE
    BY <1>2
  <2>2. esp + WORD_SIZE \in Int /\ (esp + WORD_SIZE) % WORD_SIZE = 0
    <3>1. 1 \in Nat
      OBVIOUS
    <3> QED
      BY <1>0, <1>2, <1>4, <2>1, <3>1
  <2> QED
    BY <1>0, <1>1, <2>2, WordIs
<1>7. Word(start + Len(args) * WORD_SIZE) = 0
  BY <1>0, <1>1, <1>3, <1>4, WordIs DEF VectorAt
<1>8. ASSUME NEW i \in 1 .. Len(args), NEW k \in 0 .. args[i]
      PROVE  stack[Word(start + (i - 1) * WORD_SIZE) + k] = <<"char", i, k>>
  <2>1. i - 1 \in Nat
    BY <1>0
  <2>2. PICK a \in Int : a = start + (i - 1) * WORD_SIZE /\ a % WORD_SIZE = 0
    BY <1>1, <1>4, <2>1
  <2>3. WordAt(a, argv[i])
    BY <1>1, <2>2 DEF VectorAt
  <2>4. Word(a) = argv[i]
    BY <1>0, <2>2, <2>3, WordIs
  <2> QED
    BY <1>0, <2>2, <2>4 DEF StringsInv
<1> QED
  BY <1>5, <1>6, <1>7, <1>8 DEF StackRight

\* The stack that a program starts with (push_args_to_stack, setup_stack), for
\* every command line and size of words and pages: aligned, with argc, and an
\* argv that leads to each argument and ends with NULL, in whatever order the
\* two variants of load push the arguments.
THEOREM StackIsBuilt == Spec => []StackRight
<1>1. Init => LoaderInv /\ StackInv
  BY InitInv, StackStart
<1>2. LoaderInv /\ StackInv /\ [Next]_vars => LoaderInv' /\ StackInv'
  BY NextKeeps, StackStep
<1> QED
  BY <1>1, <1>2, StackIsRight, PTL DEF Spec
=============================================================================
