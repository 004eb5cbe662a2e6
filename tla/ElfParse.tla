------------------------------ MODULE ElfParse ------------------------------
(***************************************************************************)
(* rust/src/elf.rs: Image::parse, from the bytes of a file to an Image or  *)
(* a reason to refuse it, and Image::interp_path.                          *)
(* A file is a record                                                      *)
(*    size               its length in bytes;                              *)
(*    sized              whether ImageSource::size is Some;                *)
(*    elf, osabi, machine, version                                         *)
(*                       whether e_ident and the fixed fields fit;         *)
(*    e_type, e_entry, e_phoff, e_phnum, e_phentsize                       *)
(*                       as in the ELF header;                             *)
(*    phdrs              what the program header table holds;              *)
(*    interp             the path the PT_INTERP bytes spell, or NoPath if  *)
(*                       they are empty or not terminated.                 *)
(***************************************************************************)
EXTENDS Elf, SequencesExt

CONSTANTS
  EhdrSize, PhdrSize,   \* EHDR_SIZE, PHDR_SIZE
  PnXnum, PhnumMax,     \* PN_XNUM, PHNUM_MAX
  InterpMax,            \* INTERP_MAX
  NoPath                \* not a path

ASSUME ParseAssumption ==
  /\ {EhdrSize, PhdrSize, PhnumMax, InterpMax} \subseteq Nat \ {0}
  /\ PhnumMax < PnXnum

-----------------------------------------------------------------------------
(***************************************************************************)
(* A check is a condition and the Reject it leads to; the first condition  *)
(* that holds decides.                                                     *)
(***************************************************************************)
Check(bad, why) == [bad |-> bad, why |-> why]

FirstReject(checks) ==
  LET failing == {i \in DOMAIN checks : checks[i].bad}
  IN  IF failing = {} THEN "none" ELSE checks[Min(failing)].why

phtab_len(f) == f.e_phnum * f.e_phentsize

\* Up to the loop that reads the table; oom: its try_reserve fails.
EhdrChecks(f, oom) ==
  << Check(f.size < EhdrSize, "NotElf"),
     Check(~f.elf, "NotElf"),
     Check(~f.osabi, "Unsupported"),
     Check(~f.machine, "Unsupported"),
     Check(f.e_type \notin {"DYN", "EXEC"}, "Unsupported"),
     Check(~f.version, "Malformed"),
     Check(f.e_phnum = PnXnum, "Unsupported"),
     Check(f.e_phnum = 0, "Malformed"),
     Check(f.e_phnum > PhnumMax, "Malformed"),
     Check(f.e_phentsize < PhdrSize, "Malformed"),
     Check(checked_add(f.e_phoff, phtab_len(f)) = None, "Malformed"),
     Check(f.sized /\ f.e_phoff + phtab_len(f) > f.size, "Malformed"),
     Check(oom, "Malformed"),
     Check(f.e_phoff + phtab_len(f) - f.e_phentsize + PhdrSize > f.size, "Malformed") >>

\* Mutant: the end is not compared with the size of the file.
PastEndUnchecked(f, ph) == checked_add(ph.p_offset, ph.p_filesz) = None

\* offset+filesz overflows, or the file is known to be shorter.
PastEnd(f, ph) ==
  \/ checked_add(ph.p_offset, ph.p_filesz) = None
  \/ f.sized /\ ph.p_offset + ph.p_filesz > f.size

validate_load(f, ph) ==
  FirstReject(<< Check(~ValidLoad(ph), "Malformed"), Check(PastEnd(f, ph), "Malformed") >>)

validate_interp(f, i) ==
  LET ph == f.phdrs[i]
  IN  FirstReject(<< Check(\E k \in 1..(i - 1) : f.phdrs[k].p_type = "INTERP", "Unsupported"),
                     Check(ph.p_filesz = 0 \/ ph.p_filesz > InterpMax, "Malformed"),
                     Check(f.sized /\ PastEnd(f, ph), "Malformed") >>)

\* The classification loop, stopping at the first header it refuses.
PhdrChecks(f) ==
  [i \in 1..f.e_phnum |->
     LET why == CASE f.phdrs[i].p_type = "LOAD"   -> validate_load(f, f.phdrs[i])
                  [] f.phdrs[i].p_type = "INTERP" -> validate_interp(f, i)
                  [] OTHER -> "none"
     IN  Check(why # "none", why)]

-----------------------------------------------------------------------------
(***************************************************************************)
(* The Image.                                                              *)
(***************************************************************************)
OfType(f, t) == {i \in DOMAIN f.phdrs : f.phdrs[i].p_type = t}

\* sort_by_key is stable.
sorted_loads(f) ==
  LET before(a, b) == \/ f.phdrs[a].p_vaddr < f.phdrs[b].p_vaddr
                      \/ f.phdrs[a].p_vaddr = f.phdrs[b].p_vaddr /\ a < b
      order        == SetToSortSeq(OfType(f, "LOAD"), before)
  IN  [i \in DOMAIN order |-> f.phdrs[order[i]]]

\* Mutant: neighbours are not compared.
LoadChecksNone(f) == << Check(OfType(f, "LOAD") = {}, "Malformed") >>

LoadChecks(f) ==
  << Check(OfType(f, "LOAD") = {}, "Malformed"),
     Check(\E i \in 1..(Len(sorted_loads(f)) - 1) : Overlap(sorted_loads(f)[i], sorted_loads(f)[i + 1]),
           "Malformed") >>

\* Of several PT_PHDR or PT_GNU_STACK the last one counts.
LastOf(f, t) == f.phdrs[Max(OfType(f, t))]

ImageOf(f) ==
  [e_type     |-> f.e_type,
   e_entry    |-> f.e_entry,
   e_phoff    |-> f.e_phoff,
   loads      |-> sorted_loads(f),
   interp     |-> OfType(f, "INTERP") # {},
   phdr_seg   |-> IF OfType(f, "PHDR") = {} THEN None ELSE LastOf(f, "PHDR").p_vaddr,
   exec_stack |-> OfType(f, "STACK") # {} /\ is_exec(LastOf(f, "STACK"))]

\* Image::parse: "none", or the Reject.
parse(f, oom) ==
  LET header == FirstReject(EhdrChecks(f, oom))
      table  == FirstReject(PhdrChecks(f))
  IN  IF header # "none" THEN header
      ELSE IF table # "none" THEN table
      ELSE FirstReject(LoadChecks(f))

\* From<Reject> for Error.
errno(why) == CASE why = "none" -> "none"
                [] why \in {"NotElf", "Malformed"} -> "ENOEXEC"
                [] why = "Unsupported" -> "ENOTSUP"

\* Image::interp_path: the bytes may lie past the end when size is unknown.
interp_err(f) ==
  LET ph == f.phdrs[Min(OfType(f, "INTERP"))]
  IN  IF ph.p_offset + ph.p_filesz > f.size \/ f.interp = NoPath THEN "ENOEXEC" ELSE "none"
=============================================================================
