------------------------------- MODULE Loader -------------------------------
(***************************************************************************)
(* argument_tokenize and load: the pages of an executable and the stack    *)
(* that a program starts with.  There are two: Project 3/Original Files/   *)
(* process.c reads every page at once ("eager"), Project 3/userprog/       *)
(* process.c only enters it into the supplemental page table ("demand").   *)
(* Addresses are below Words, and arithmetic on them is modulo Words; byte *)
(* i of the executable is i itself.                                        *)
(***************************************************************************)
EXTENDS Integers, Sequences, FiniteSets, SequencesExt

CONSTANTS
  PGSIZE, WORD_SIZE, PHYS_BASE,
  Words,        \* 2 ^ 32 in the code
  FileSize,     \* length of every executable
  Executables,  \* sequences of program headers
  Commands,     \* sequences of lengths of arguments
  Pool          \* pages in the user pool

ASSUME LoaderConstants ==
  /\ {PGSIZE, WORD_SIZE, PHYS_BASE, Words, Pool} \subseteq Nat \ {0}
  /\ PHYS_BASE % PGSIZE = 0 /\ 2 * PGSIZE <= PHYS_BASE /\ PHYS_BASE + PGSIZE <= Words
  /\ FileSize \in Nat

Uint == 0 .. Words - 1

\* Elf32_Phdr.  Types that load ignores are "ignore", and types that it does not
\* accept "refuse".
Phdr == [p_type : {"load", "ignore", "refuse"}, p_offset : Uint, p_vaddr : Uint,
         p_filesz : Uint, p_memsz : Uint, writable : BOOLEAN]

ASSUME LoaderInputs == Executables \subseteq Seq(Phdr) /\ Commands \subseteq Seq(Nat \ {0})

VARIABLES
  variant,  \* "eager" or "demand"
  phdrs,    \* the executable
  args,     \* the lengths of the arguments
  opened,   \* the executable is open, for process_exit to close, and not writable
  pc,
  next,     \* the program header that is next
  seg,      \* locals of load_segment
  mem,      \* what the page directory or the page table says of each page
  free,     \* free pages of the pool
  stray,    \* a stack page in the page directory that the page table misses
  locked,   \* load holds file_lock
  esp,
  argv,     \* addresses of the arguments on the stack
  stack     \* bytes of the stack page

file_vars == <<variant, phdrs, args, opened>>
stack_vars == <<esp, argv, stack>>
vars == <<file_vars, pc, next, seg, mem, free, stray, locked, stack_vars>>

Pages == {a \in Uint : a % PGSIZE = 0}
StackPage == PHYS_BASE - PGSIZE
Unmapped == [ofs |-> 0, n |-> 0, writable |-> FALSE, here |-> FALSE]

\* A page with n bytes of the file from ofs on, and zeros.
PageOf(ofs, n, writable) == [ofs |-> ofs, n |-> n, writable |-> writable, here |-> TRUE]

Init ==
  /\ variant \in {"eager", "demand"}
  /\ phdrs \in Executables
  /\ args \in Commands
  /\ opened = FALSE
  /\ pc = "tokenize"
  /\ next = 1
  /\ seg = [ofs |-> 0, upage |-> 0, read |-> 0, zero |-> 0, writable |-> FALSE]
  /\ mem = [a \in Pages |-> Unmapped]
  /\ free = Pool
  /\ stray = FALSE
  /\ locked = FALSE
  /\ esp = 0
  /\ argv = <<>>
  /\ stack = [a \in StackPage .. PHYS_BASE - 1 |-> <<"zero">>]

Goto(label) == pc' = label
Eager == variant = "eager"
Demand == variant = "demand"

-----------------------------------------------------------------------------

\* process.h: half of the argument page holds the words, and the rest of it, but
\* for argc, pointers to them.
ARGS_SIZE == PGSIZE \div 2
ARGV_SIZE == (PGSIZE - ARGS_SIZE - WORD_SIZE) \div WORD_SIZE

\* argument_tokenize refuses more arguments than there are pointers; there is no
\* limit in the other load.
Tokenize ==
  /\ pc = "tokenize"
  /\ Goto(IF Eager /\ Len(args) > ARGV_SIZE THEN "refused" ELSE "pagedir")
  /\ UNCHANGED <<file_vars, next, seg, mem, free, stray, locked, stack_vars>>

\* bug: an early return that does not pass the label done.
KeptOnFailure(result) == IF result = "failed" THEN locked ELSE FALSE

\* lock_release at the label done.
Released(result) == FALSE

\* The end of load.  At done, lock_release asserts that file_lock is held.
End(result) ==
  /\ Goto(IF Demand /\ ~locked THEN "panic" ELSE result)
  /\ locked' = Released(result)

\* load returns false where pc is.
Fail ==
  /\ End("failed")
  /\ UNCHANGED <<file_vars, next, seg, mem, free, stray, stack_vars>>

CreatePagedir ==
  /\ pc = "pagedir"
  /\ \/ Fail
     \/ /\ Goto("open")
        /\ locked' = Demand
        /\ UNCHANGED <<file_vars, next, seg, mem, free, stray, stack_vars>>

\* filesys_open and file_deny_write.  The file is kept in the list of files, if
\* there is memory for a descriptor (eager), or in t->executable (demand).  Then
\* the executable header is right or not.
OpenFile ==
  /\ pc = "open"
  /\ opened' \in BOOLEAN
  /\ \/ End("failed")
     \/ opened' /\ Goto("phdr") /\ UNCHANGED locked
  /\ UNCHANGED <<variant, phdrs, args, next, seg, mem, free, stray, stack_vars>>

-----------------------------------------------------------------------------

pg_ofs(a) == a % PGSIZE
pg_round_down(a) == a - pg_ofs(a)
ROUND_UP(n) == (((n + PGSIZE - 1) % Words) \div PGSIZE) * PGSIZE
is_user_vaddr(a) == a < PHYS_BASE

End32(h) == (h.p_vaddr + h.p_memsz) % Words

\* bug: the region may wrap around.
NoWrapTest(h) ==
  /\ pg_ofs(h.p_offset) = pg_ofs(h.p_vaddr)
  /\ h.p_offset <= FileSize
  /\ h.p_memsz >= h.p_filesz
  /\ h.p_memsz # 0
  /\ is_user_vaddr(h.p_vaddr)
  /\ is_user_vaddr(End32(h))
  /\ h.p_vaddr >= PGSIZE

validate_segment(h) ==
  /\ pg_ofs(h.p_offset) = pg_ofs(h.p_vaddr)
  /\ h.p_offset <= FileSize
  /\ h.p_memsz >= h.p_filesz
  /\ h.p_memsz # 0
  /\ is_user_vaddr(h.p_vaddr)
  /\ is_user_vaddr(End32(h))
  /\ End32(h) >= h.p_vaddr
  /\ h.p_vaddr >= PGSIZE

\* load_segment's arguments: whole pages, of which read bytes come from the file.
Segment(h) ==
  LET page_offset == pg_ofs(h.p_vaddr)
      read == IF h.p_filesz > 0 THEN (page_offset + h.p_filesz) % Words ELSE 0
  IN [ofs |-> pg_round_down(h.p_offset),
      upage |-> pg_round_down(h.p_vaddr),
      read |-> read,
      zero |-> (ROUND_UP((page_offset + h.p_memsz) % Words) - read) % Words,
      writable |-> h.writable]

\* The next program header; its read fails, or it is dealt with by its type.
ReadPhdr ==
  /\ pc = "phdr" /\ next <= Len(phdrs)
  /\ LET h == phdrs[next] IN
     \/ Fail
     \/ /\ h.p_type = "refuse" \/ (h.p_type = "load" /\ ~validate_segment(h))
        /\ Fail
     \/ /\ h.p_type = "ignore"
        /\ next' = next + 1
        /\ UNCHANGED <<file_vars, pc, seg, mem, free, stray, locked, stack_vars>>
     \/ /\ h.p_type = "load" /\ validate_segment(h)
        /\ seg' = Segment(h)
        /\ Goto("segment")
        /\ UNCHANGED <<file_vars, next, mem, free, stray, locked, stack_vars>>

\* page_read_bytes.
ReadHere == IF seg.read < PGSIZE THEN seg.read ELSE PGSIZE

\* bug: each page is counted as zeroed in full.
AdvancedByPage ==
  [ofs |-> seg.ofs + ReadHere, upage |-> (seg.upage + PGSIZE) % Words,
   read |-> seg.read - ReadHere, zero |-> IF seg.zero < PGSIZE THEN 0 ELSE seg.zero - PGSIZE,
   writable |-> seg.writable]

\* The end of the loop's body.  The file position moves with ofs.
Advanced ==
  [ofs |-> seg.ofs + ReadHere, upage |-> (seg.upage + PGSIZE) % Words,
   read |-> seg.read - ReadHere, zero |-> (seg.zero - (PGSIZE - ReadHere)) % Words,
   writable |-> seg.writable]

\* One page in the loop of load_segment.  Eager: palloc, file_read, install_page,
\* each of which may fail.  Demand: add_file_page_tbl, which fails without memory
\* or if there is an entry for the page.
LoadPage ==
  /\ pc = "segment" /\ (seg.read > 0 \/ seg.zero > 0)
  /\ \/ Fail
     \/ /\ ~mem[seg.upage].here
        /\ Eager => free > 0 /\ (ReadHere > 0 => seg.ofs + ReadHere <= FileSize)
        /\ mem' = [mem EXCEPT ![seg.upage] = PageOf(seg.ofs, ReadHere, seg.writable)]
        /\ free' = IF Eager THEN free - 1 ELSE free
        /\ seg' = Advanced
        /\ UNCHANGED <<file_vars, pc, next, stray, locked, stack_vars>>

SegmentLoaded ==
  /\ pc = "segment" /\ seg.read = 0 /\ seg.zero = 0
  /\ next' = next + 1
  /\ Goto("phdr")
  /\ UNCHANGED <<file_vars, seg, mem, free, stray, locked, stack_vars>>

-----------------------------------------------------------------------------

\* setup_stack gets a page.  Eager: install_page fails if a segment is there, and
\* the page goes back.  Demand: the segment's page is not yet in the page
\* directory, and stack_growth maps the new one before hash_insert refuses it.
SetupStack ==
  /\ pc = "phdr" /\ next > Len(phdrs)
  /\ \/ Fail
     \/ /\ Demand /\ mem[StackPage].here /\ free > 0
        /\ stray' = TRUE
        /\ free' = free - 1
        /\ End("failed")
        /\ UNCHANGED <<file_vars, next, seg, mem, stack_vars>>
     \/ /\ ~mem[StackPage].here /\ free > 0
        /\ mem' = [mem EXCEPT ![StackPage] = PageOf(0, 0, TRUE)]
        /\ free' = free - 1
        /\ esp' = PHYS_BASE
        /\ argv' = [i \in 1 .. Len(args) |-> 0]
        /\ Goto("strings")
        /\ UNCHANGED <<file_vars, next, seg, stray, locked, stack>>

\* The stack after the bytes were pushed.
Pushed(bytes) ==
  [a \in DOMAIN stack |->
     IF esp - Len(bytes) <= a /\ a < esp THEN bytes[a - (esp - Len(bytes)) + 1] ELSE stack[a]]

\* Bytes of words, the last one pushed first in memory.
BytesOf(words) ==
  [k \in 1 .. WORD_SIZE * Len(words) |->
     <<"word", words[Len(words) - (k - 1) \div WORD_SIZE], (k - 1) % WORD_SIZE>>]

\* Push the bytes and go on.  Eager looks before each write and fails at the end
\* of the page; demand writes on, into a page fault of the kernel (PageTable).
Push(bytes, label) ==
  IF esp - Len(bytes) >= StackPage
  THEN /\ stack' = Pushed(bytes)
       /\ esp' = esp - Len(bytes)
       /\ Goto(label)
       /\ UNCHANGED locked
  ELSE /\ IF Eager THEN End("failed") ELSE Goto("fault") /\ UNCHANGED locked
       /\ UNCHANGED <<stack, esp>>

\* The arguments without an address, eager from the last and demand from the
\* first one.  In demand, memory for argv may run out.
Unplaced == {i \in 1 .. Len(args) : argv[i] = 0}

PushString ==
  /\ pc = "strings" /\ Unplaced # {}
  /\ \/ Demand /\ Fail
     \/ \E i \in Unplaced :
          /\ \A j \in Unplaced : IF Eager THEN j <= i ELSE i <= j
          /\ Push([k \in 1 .. args[i] + 1 |-> <<"char", i, k - 1>>], "strings")
          /\ argv' = [argv EXCEPT ![i] = esp']
          /\ UNCHANGED <<file_vars, next, seg, mem, free, stray>>

Padding == [k \in 1 .. esp % WORD_SIZE |-> <<"zero">>]

Align ==
  /\ pc = "strings" /\ Unplaced = {}
  /\ Push(Padding, "pointers")
  /\ UNCHANGED <<file_vars, next, seg, mem, free, stray, argv>>

\* bug: the pointers in the order of the arguments.
InOrder == <<0>> \o argv

\* NULL and the pointers to the arguments, from the last to the first.
Pointers == <<0>> \o Reverse(argv)

PushPointers ==
  /\ pc = "pointers"
  /\ Push(BytesOf(Pointers), "rest")
  /\ UNCHANGED <<file_vars, next, seg, mem, free, stray, argv>>

\* argv, argc, a return address; then load succeeds.
PushRest ==
  /\ pc = "rest"
  /\ Push(BytesOf(<<esp, Len(args), 0>>), "entry")
  /\ UNCHANGED <<file_vars, next, seg, mem, free, stray, argv>>

Succeed ==
  /\ pc = "entry"
  /\ End("done")
  /\ UNCHANGED <<file_vars, next, seg, mem, free, stray, stack_vars>>

Next ==
  \/ Tokenize \/ CreatePagedir \/ OpenFile \/ ReadPhdr \/ LoadPage \/ SegmentLoaded
  \/ SetupStack \/ PushString \/ Align \/ PushPointers \/ PushRest \/ Succeed

Spec == Init /\ [][Next]_vars

-----------------------------------------------------------------------------

Segments == {phdrs[i] : i \in {j \in 1 .. next - 1 : phdrs[j].p_type = "load"}}
MappedPages == {a \in Pages : mem[a].here}

\* The byte of the file at address a, or None for zero.
None == -1
Byte(a) ==
  LET m == mem[pg_round_down(a)] IN IF pg_ofs(a) < m.n THEN m.ofs + pg_ofs(a) ELSE None

\* Every page of load lies between page 0 and the kernel.  When load succeeds, a
\* segment's p_filesz bytes are those of the file, the rest up to p_memsz is
\* zero, as writable as it says, and nothing else is mapped but the stack.
MemoryRight ==
  /\ \A a \in MappedPages : PGSIZE <= a /\ a < PHYS_BASE
  /\ pc = "done" =>
       /\ \A h \in Segments :
            /\ h.p_vaddr + h.p_memsz < PHYS_BASE
            /\ \A k \in 0 .. h.p_memsz - 1 :
                 LET a == h.p_vaddr + k IN
                 /\ mem[pg_round_down(a)].here
                 /\ mem[pg_round_down(a)].writable = h.writable
                 /\ Byte(a) = IF k < h.p_filesz THEN h.p_offset + k ELSE None
       /\ \A a \in MappedPages \ {StackPage} : \E h \in Segments :
            h.p_vaddr < a + PGSIZE /\ a < h.p_vaddr + h.p_memsz

\* The word at address a of the stack, or None.
Word(a) ==
  IF /\ a % WORD_SIZE = 0 /\ a \in DOMAIN stack
     /\ \A k \in 0 .. WORD_SIZE - 1 : stack[a + k] = <<"word", stack[a][2], k>>
  THEN stack[a][2] ELSE None

\* A program starts with an aligned stack, argc, and an argv that leads to each
\* argument and ends with NULL, whatever the order they were pushed in.
StackRight ==
  pc = "done" =>
    LET start == Word(esp + 2 * WORD_SIZE) IN
    /\ Word(esp + WORD_SIZE) = Len(args)
    /\ Word(start + Len(args) * WORD_SIZE) = 0
    /\ \A i \in 1 .. Len(args) : \A k \in 0 .. args[i] :
         stack[Word(start + (i - 1) * WORD_SIZE) + k] = <<"char", i, k>>

\* Pages in the pool and pages in use are all the pages, however load ends, and
\* file_lock is free then; the executable of a program that runs is open.  The
\* kernel stops only in load without a page directory, when it releases file_lock
\* that it does not hold; a stack page that the page table does not know of is
\* left only by an executable with a segment at the stack.
NothingLeft ==
  /\ LET used == IF Eager THEN Cardinality(MappedPages)
                 ELSE Cardinality({x \in {"stack", "stray"} : IF x = "stack" THEN esp # 0 ELSE stray})
     IN free + used = Pool
  /\ pc \in {"done", "failed", "refused"} => ~locked
  /\ pc = "done" => opened
  /\ pc = "panic" => Demand /\ MappedPages = {}
  /\ stray => \E h \in Segments : h.p_vaddr + h.p_memsz > StackPage
=============================================================================
