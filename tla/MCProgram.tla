----------------------------- MODULE MCProgram -----------------------------
(***************************************************************************)
(* A small disk: programs that start, and one for each way not to.         *)
(***************************************************************************)
EXTENDS Program

CONSTANT OnDisk   \* the files this run has

Ph(type, flags, off, va, filesz, memsz, align) ==
  [p_type |-> type, p_flags |-> flags, p_offset |-> off, p_vaddr |-> va,
   p_filesz |-> filesz, p_memsz |-> memsz, p_align |-> align]

Text(va) == Ph("LOAD", 5, va % PageSize, va, 3, 3, 4)
Data     == Ph("LOAD", 6, 5, 9, 1, 2, 4)
Wants    == Ph("INTERP", 4, 1, 1, 1, 1, 1)

File(name, type, entry_, phs, ld) ==
  [name |-> name, size |-> 8, sized |-> TRUE,
   elf |-> TRUE, osabi |-> TRUE, machine |-> TRUE, version |-> TRUE,
   e_type |-> type, e_entry |-> entry_, e_phoff |-> 1, e_phnum |-> Len(phs),
   e_phentsize |-> 1, phdrs |-> phs, interp |-> ld]

Library ==
  [ static  |-> File("static", "DYN", 2, <<Text(0)>>, NoPath),
    dyn     |-> File("dyn", "DYN", 1, <<Wants, Text(0)>>, "ld"),
    two     |-> File("two", "DYN", 1, <<Wants, Data, Text(0)>>, "ld"),
    fixed   |-> File("fixed", "EXEC", 9, <<Wants, Text(8)>>, "ld"),
    ld      |-> File("ld", "DYN", 5, <<Text(4)>>, NoPath),
    orphan  |-> File("orphan", "DYN", 1, <<Wants, Text(0)>>, "nowhere"),
    strange |-> File("strange", "DYN", 1, <<Wants, Text(0)>>, "fixed"),
    nested  |-> File("nested", "DYN", 1, <<Wants, Text(0)>>, "dyn"),
    unnamed |-> File("unnamed", "DYN", 1, <<Wants, Text(0)>>, NoPath),
    stack   |-> File("stack", "DYN", 1, <<Text(0), Ph("STACK", 7, 0, 0, 0, 0, 4)>>, NoPath),
    broken  |-> File("broken", "DYN", 1, <<Text(0), Text(1)>>, NoPath),
    script  |-> [File("script", "DYN", 1, <<Text(0)>>, NoPath) EXCEPT !.elf = FALSE],
    alien   |-> [File("alien", "DYN", 1, <<Text(0)>>, NoPath) EXCEPT !.machine = FALSE] ]

MCDisk    == [n \in OnDisk |-> Library[n]]
MCSources == {sourceOf(Library[n]) : n \in {k \in OnDisk : parse(Library[k], FALSE) = "none"}}
MCJobs    == Procs \X {"main", "interp"}
=============================================================================
