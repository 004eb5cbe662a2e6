------------------------------ MODULE MCLoader ------------------------------
(***************************************************************************)
(* Small images for the loader: pages of 4 bytes, alignments up to 8.      *)
(***************************************************************************)
EXTENDS Loader

CONSTANTS Names   \* the images this run loads

Load_(flags, off, va, filesz, memsz, align) ==
  [p_type |-> "LOAD", p_flags |-> flags, p_offset |-> off, p_vaddr |-> va,
   p_filesz |-> filesz, p_memsz |-> memsz, p_align |-> align]

Image(type, entry, phs) ==
  [e_type |-> type, e_entry |-> entry, e_phoff |-> 0, loads |-> phs,
   interp |-> FALSE, phdr_seg |-> None, exec_stack |-> FALSE]

RX == 5
RW == 6
RO == 4

Catalogue ==
  [ \* code with a partial last page, a gap, data with a bss page; 8-aligned
    pie   |-> Image("DYN", 0, <<Load_(RX, 0, 0, 3, 3, 8), Load_(RW, 5, 9, 2, 6, 4)>>),
    \* bss in the middle of a page and no file bytes at all
    bss   |-> Image("DYN", 0, <<Load_(RX, 4, 4, 2, 6, 4), Load_(RW, 0, 14, 0, 3, 0)>>),
    \* linked at its own address
    exec  |-> Image("EXEC", 8, <<Load_(RX, 0, 8, 6, 6, 4)>>),
    \* its entry point cannot be relocated
    entry |-> Image("DYN", 127, <<Load_(RX, 0, 0, 3, 3, 4)>>),
    \* linked above where the system places it
    high  |-> Image("DYN", 64, <<Load_(RX, 0, 64, 3, 3, 4)>>),
    \* asks for more than MAX_SEG_ALIGN, a single read-only page
    big   |-> Image("DYN", 0, <<Load_(RO, 0, 0, 4, 4, 16)>>) ]

MCSources == {[name |-> n, image |-> Catalogue[n], size |-> 11] : n \in Names}
=============================================================================
