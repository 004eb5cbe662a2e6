----------------------------- MODULE MCPlanning -----------------------------
(***************************************************************************)
(* Files of up to three program headers, for pages of 4 bytes and words    *)
(* of 5 bits: every sequence over a pool of headers that meets each check  *)
(* of the parser from both sides.                                          *)
(***************************************************************************)
EXTENDS Planning

CONSTANTS
  Types, TableAt, SizeKnown,  \* e_type, e_phoff, and whether size() is Some
  Pairs, Triples              \* the headers, by their place in the pool, that
                              \* tables of one or two, and of three, draw from

Ph(type, flags, off, va, filesz, memsz, align) ==
  [p_type |-> type, p_flags |-> flags, p_offset |-> off, p_vaddr |-> va,
   p_filesz |-> filesz, p_memsz |-> memsz, p_align |-> align]

Pool ==
  << \* loadable
     Ph("LOAD", 5, 0, 0, 3, 3, 4),     \* partial last page
     Ph("LOAD", 5, 1, 5, 2, 2, 0),     \* starts inside a page
     Ph("LOAD", 6, 0, 8, 4, 9, 8),     \* bss over a page boundary
     Ph("LOAD", 6, 3, 7, 1, 1, 4),     \* the last byte of a page
     Ph("LOAD", 6, 0, 9, 0, 3, 1),     \* no file part
     Ph("LOAD", 4, 0, 10, 0, 0, 4),    \* nothing at all
     Ph("LOAD", 5, 8, 16, 2, 2, 16),   \* aligned beyond MAX_SEG_ALIGN
     Ph("LOAD", 4, 0, 24, 4, 4, 4),    \* at the top
     Ph("LOAD", 6, 10, 14, 4, 4, 4),   \* may lie past the end of the file
     Ph("LOAD", 4, 1, 29, 2, 2, 4),    \* its last page ends past the last word
     \* refused by validate_load
     Ph("LOAD", 4, 0, 0, 2, 1, 4),
     Ph("LOAD", 4, 0, 4, 1, 1, 3),
     Ph("LOAD", 4, 2, 30, 1, 5, 4),
     Ph("LOAD", 4, 28, 4, 4, 4, 4),
     Ph("LOAD", 4, 1, 4, 1, 1, 4),
     \* the others
     Ph("INTERP", 4, 5, 5, 2, 2, 1),
     Ph("INTERP", 4, 5, 5, 0, 0, 1),
     Ph("INTERP", 4, 5, 5, 4, 4, 1),
     Ph("INTERP", 4, 11, 11, 2, 2, 1),
     Ph("INTERP", 4, 30, 30, 3, 3, 1),
     Ph("PHDR", 4, 2, 2, 2, 2, 4),
     Ph("PHDR", 4, 12, 12, 2, 2, 4),
     Ph("STACK", 6, 0, 0, 0, 0, 4),
     Ph("STACK", 7, 0, 0, 0, 0, 4),
     Ph("OTHER", 4, 0, 0, 0, 0, 4) >>

Drawn(n, from) == [1..n -> {Pool[i] : i \in from}]

Tables == Drawn(1, Pairs) \cup Drawn(2, Pairs) \cup Drawn(3, Triples)

Plain(phs, type, phoff, known) ==
  [name |-> "f", size |-> 12, sized |-> known,
   elf |-> TRUE, osabi |-> TRUE, machine |-> TRUE, version |-> TRUE,
   e_type |-> type, e_entry |-> 4, e_phoff |-> phoff, e_phnum |-> Len(phs),
   e_phentsize |-> 1, phdrs |-> phs, interp |-> "ld"]

\* Well-formed ELF headers before every table.
WellFormed ==
  {Plain(phs, t, o, k) : phs \in Tables, t \in Types, o \in TableAt, k \in SizeKnown}

\* One field of the ELF header wrong, or the table somewhere else.
Odd ==
  LET one == Plain(<<Pool[1]>>, "DYN", 2, TRUE)
  IN  {[one EXCEPT !.size = 1], [one EXCEPT !.elf = FALSE], [one EXCEPT !.osabi = FALSE],
       [one EXCEPT !.machine = FALSE], [one EXCEPT !.e_type = "REL"],
       [one EXCEPT !.version = FALSE], [one EXCEPT !.e_phnum = PnXnum],
       [one EXCEPT !.e_phnum = 0, !.phdrs = <<>>], [one EXCEPT !.e_phnum = PhnumMax + 1],
       [one EXCEPT !.e_phentsize = 0], [one EXCEPT !.e_phoff = WordMax],
       [one EXCEPT !.e_phoff = 12], [one EXCEPT !.e_phoff = 12, !.sized = FALSE],
       [one EXCEPT !.e_phentsize = 10], [one EXCEPT !.e_phentsize = 11],
       [one EXCEPT !.e_phentsize = 11, !.sized = FALSE],
       [one EXCEPT !.e_entry = WordMax]}

MCFiles == WellFormed \cup Odd
=============================================================================
