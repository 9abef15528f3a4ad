----------------------------- MODULE MCLoader -----------------------------
EXTENDS Loader, TLC

Header(t, o, v, f, m, w) ==
  [p_type |-> t, p_offset |-> o, p_vaddr |-> v, p_filesz |-> f, p_memsz |-> m, writable |-> w]

\* Offsets and addresses around page 0, a page's end, the stack, the kernel and
\* the end of the address space.
Loads ==
  {Header("load", o, v, f, m, v > 32) :
     o \in {0, 8, 16, 33, 40, 48}, v \in {8, 16, 17, 24, 56, 64, 72, 80, 120},
     f \in {0, 1, 8, 16, 17, 33}, m \in {0, 1, 7, 8, 16, 17, 33, 48, 104, 120}}

\* Pairs overlap, touch, or leave pages in between, and come in any order.
Firsts ==
  {Header("load", o, v, f, m, v > 32) : o \in {0, 24}, v \in {16, 40, 48}, f \in {0, 9}, m \in {9, 20}}
    \cup {Header(t, 0, 16, 0, 16, TRUE) : t \in {"ignore", "refuse"}}

MCExecutables == {<<>>} \cup {<<h>> : h \in Loads} \cup {<<h, g>> : h \in Firsts, g \in Firsts}

\* Up to ARGS_SIZE bytes; two of one byte fill the stack page, the last has too many
\* words.
MCCommands == {<<1>>, <<2>>, <<1, 1>>, <<2, 1>>, <<6>>, <<1, 1, 1, 1>>}
=============================================================================
