------------------------------ MODULE Program ------------------------------
(***************************************************************************)
(* rust/src/program.rs: load_program, which loads a program and then the   *)
(* interpreter it names, LoadedProgram::unload, and what the auxiliary     *)
(* vector says of the two.  It is built on Loader: the two images of a     *)
(* process are two jobs, and every call of loader::load or Loaded::unload  *)
(* is the Loader's own sequence of steps.                                  *)
(***************************************************************************)
EXTENDS Loader, ElfParse

CONSTANTS
  Procs,      \* processes being started
  Disk,       \* the files by their paths
  Boot,       \* paths given to load_program, some possibly not on the disk
  Openers     \* "vfs": app.rs or binfmt.rs; "initrd": app.rs without a VFS

main(p)   == <<p, "main">>
interp(p) == <<p, "interp">>

ASSUME ProgramAssumption ==
  /\ Jobs = {main(p) : p \in Procs} \cup {interp(p) : p \in Procs}
  /\ Openers \subseteq {"vfs", "initrd"}

VARIABLES
  stage,      \* where each call of load_program is
  path,       \* the path it was given
  opener,     \* the Opener it was given
  fds,        \* the jobs whose source is open
  result      \* the error it returned

pvars == <<stage, path, opener, fds, result>>
allvars == <<vars, pvars>>

mainFile(p)   == Disk[path[p]]
interpFile(p) == Disk[mainFile(p).interp]

sourceOf(f) == [name |-> f.name, image |-> ImageOf(f), size |-> f.size]

\* Opened::fd is Some only from a VFS on a build with mmap.
hasFd(p) == opener[p] = "vfs" /\ HaveMmap

-----------------------------------------------------------------------------
Enter(p, s) == stage' = [stage EXCEPT ![p] = s]

Close(js) == fds' = fds \ js

SetResult(p, e) == result' = [result EXCEPT ![p] = e]

\* Mutant: only the source of the program itself is dropped.
ReturnMainOnly(p, s, e) ==
  Enter(p, s) /\ SetResult(p, e) /\ Close({main(p)})

\* load_program returns; the sources it opened are dropped.
Return(p, s, e) ==
  Enter(p, s) /\ SetResult(p, e) /\ Close({main(p), interp(p)})

-----------------------------------------------------------------------------
(***************************************************************************)
(* load_program up to the load of the program itself.                      *)
(***************************************************************************)
Exec(p, n, op) ==
  /\ stage[p] = "idle"
  /\ pc[main(p)] = "idle" /\ pc[interp(p)] = "idle"
  /\ loads[main(p)] < MaxLoads
  /\ path' = [path EXCEPT ![p] = n]
  /\ opener' = [opener EXCEPT ![p] = op]
  /\ \/ /\ n \in DOMAIN Disk
        /\ Enter(p, "parse") /\ SetResult(p, "none")
        /\ fds' = fds \cup {main(p)}
     \/ /\ n \notin DOMAIN Disk
        /\ Enter(p, "failed") /\ SetResult(p, "ENOENT")
        /\ UNCHANGED fds
  /\ UNCHANGED vars

\* A failed read of the headers is reported as a Reject like any other.
parseErr(f) == {errno(parse(f, oom)) : oom \in BOOLEAN}
               \cup (IF "read" \in Faults THEN {"ENOEXEC"} ELSE {})

\* Sources are the files parse accepts, with or without a descriptor to map.
ASSUME DiskAssumption ==
  /\ \A n \in DOMAIN Disk : "none" \in parseErr(Disk[n]) => sourceOf(Disk[n]) \in Sources
  /\ \A op \in Openers : (op = "vfs" /\ HaveMmap) \in Fds

\* Mutant: what parse says is not looked at.
mainErrIgnored(f) == {"none"}

\* parse, check_stack_request, interp_path: the error they end with.
mainErr(f) ==
  LET im == ImageOf(f)
  IN  UNION {CASE e # "none" -> {e}
               [] e = "none" /\ im.exec_stack -> {"ENOTSUP"}
               [] e = "none" /\ ~im.exec_stack /\ im.interp -> {interp_err(f), "ENOMEM"}
               [] OTHER -> {"none"} : e \in parseErr(f)}

Inspect(p) ==
  /\ stage[p] = "parse"
  /\ \E e \in mainErr(mainFile(p)) :
       IF e = "none" THEN Enter(p, "main") /\ UNCHANGED <<fds, result>>
                     ELSE Return(p, "failed", e)
  /\ UNCHANGED <<vars, path, opener>>

LoadMain(p) ==
  /\ stage[p] = "main"
  /\ Load(main(p), sourceOf(mainFile(p)), hasFd(p))
  /\ UNCHANGED pvars

Ended(j) == pc[j] \in {"loaded", "failed", "leaked"}

MainDone(p) ==
  /\ stage[p] = "main" /\ Ended(main(p))
  /\ \/ /\ pc[main(p)] # "loaded"
        /\ Return(p, "failed", err[main(p)])
     \/ /\ pc[main(p)] = "loaded" /\ ~image(main(p)).interp
        /\ Return(p, "ready", "none")
     \/ /\ pc[main(p)] = "loaded" /\ image(main(p)).interp
        /\ Enter(p, "iopen") /\ UNCHANGED <<fds, result>>
  /\ UNCHANGED <<vars, path, opener>>

-----------------------------------------------------------------------------
(***************************************************************************)
(* load_interp.                                                            *)
(***************************************************************************)
\* load_interp returns its error: its own source is dropped, main is unloaded.
InterpError(p, e) == Enter(p, "undo") /\ SetResult(p, e) /\ Close({interp(p)})

\* An initrd has no filesystem to open the interpreter from.
OpenInterp(p) ==
  /\ stage[p] = "iopen"
  /\ IF opener[p] = "vfs" /\ mainFile(p).interp \in DOMAIN Disk
     THEN Enter(p, "iparse") /\ fds' = fds \cup {interp(p)} /\ UNCHANGED result
     ELSE InterpError(p, "ENOENT")
  /\ UNCHANGED <<vars, path, opener>>

interpErr(f) ==
  LET im == ImageOf(f)
  IN  {IF e = "none" /\ (im.e_type # "DYN" \/ im.interp) THEN "ENOEXEC" ELSE e :
         e \in parseErr(f)}

InspectInterp(p) ==
  /\ stage[p] = "iparse"
  /\ \E e \in interpErr(interpFile(p)) :
       IF e = "none" THEN Enter(p, "interp") /\ UNCHANGED <<fds, result>>
                     ELSE InterpError(p, e)
  /\ UNCHANGED <<vars, path, opener>>

LoadInterp(p) ==
  /\ stage[p] = "interp"
  /\ Load(interp(p), sourceOf(interpFile(p)), hasFd(p))
  /\ UNCHANGED pvars

InterpDone(p) ==
  /\ stage[p] = "interp" /\ Ended(interp(p))
  /\ IF pc[interp(p)] = "loaded" THEN Return(p, "ready", "none")
                                 ELSE InterpError(p, err[interp(p)])
  /\ UNCHANGED <<vars, path, opener>>


UndoMain(p) ==
  /\ stage[p] = "undo"
  /\ Unload(main(p))
  /\ Return(p, "failed", result[p])
  /\ UNCHANGED <<path, opener>>

-----------------------------------------------------------------------------
(***************************************************************************)
(* LoadedProgram::unload, called by app.rs and binfmt.rs when they cannot  *)
(* start the program, and by libukbinfmt when the program is gone: the     *)
(* interpreter first, then the program.                                    *)
(***************************************************************************)
UnloadInterp(p) ==
  /\ stage[p] = "ready"
  /\ image(main(p)).interp
  /\ Unload(interp(p))
  /\ Enter(p, "unload")
  /\ UNCHANGED <<path, opener, fds, result>>


UnloadMain(p) ==
  /\ \/ stage[p] = "unload"
     \/ stage[p] = "ready" /\ ~image(main(p)).interp
  /\ Unload(main(p))
  /\ Enter(p, "idle")
  /\ UNCHANGED <<path, opener, fds, result>>

-----------------------------------------------------------------------------
ProgInit ==
  /\ Init
  /\ stage = [p \in Procs |-> "idle"]
  /\ path = [p \in Procs |-> NoPath]
  /\ opener = [p \in Procs |-> "vfs"]
  /\ fds = {}
  /\ result = [p \in Procs |-> "none"]

\* The steps of load_program once called.
Continue(p) ==
  \/ Inspect(p) \/ LoadMain(p) \/ MainDone(p)
  \/ OpenInterp(p) \/ InspectInterp(p) \/ LoadInterp(p) \/ InterpDone(p)
  \/ UndoMain(p)
  \/ LoadStep(main(p)) /\ UNCHANGED pvars
  \/ LoadStep(interp(p)) /\ UNCHANGED pvars

ProcStep(p) ==
  \/ \E n \in Boot, op \in Openers : Exec(p, n, op)
  \/ Continue(p)
  \/ UnloadInterp(p)
  \/ UnloadMain(p)

ProgNext ==
  \/ \E p \in Procs : ProcStep(p)
  \/ \E o \in Others : (OtherMap(o) \/ OtherUnmap(o)) /\ UNCHANGED pvars

ProgSpec == ProgInit /\ [][ProgNext]_allvars

\* The thread in load_program keeps running; no step of it waits for another.
FairProgSpec == ProgSpec /\ \A p \in Procs : WF_allvars(Continue(p))

-----------------------------------------------------------------------------
(***************************************************************************)
(* LoadedProgram::entry, interp_base and auxv.                             *)
(***************************************************************************)
entry(p) == IF image(main(p)).interp THEN thePlan(interp(p)).entry
                                     ELSE thePlan(main(p)).entry

\* Mutant: the address of the interpreter's first segment, as in the C loader.
interp_base_first(p) == IF image(main(p)).interp THEN thePlan(interp(p)).base ELSE 0

interp_base(p) == IF image(main(p)).interp THEN thePlan(interp(p)).bias ELSE 0

auxv(p) == [phdr  |-> phdr_addr(image(main(p)), thePlan(main(p))),
            base  |-> interp_base(p),
            entry |-> thePlan(main(p)).entry]

-----------------------------------------------------------------------------
(***************************************************************************)
(* Properties.                                                             *)
(***************************************************************************)
\* load_program uses the loader only as the loader expects: what is proved of
\* Loader holds of every program start.
UsesLoader == Spec


\* "no error path can leak a descriptor": whenever load_program is not running
\* its sources are closed, and its mappings do not depend on them.
SourcesClosed ==
  \A p \in Procs : stage[p] \in {"idle", "ready", "unload", "failed"} =>
    {main(p), interp(p)} \cap fds = {}


\* The byte of a file that the link address va stands for.
LinkedByte(f, va) ==
  LET im == ImageOf(f)
      i  == CHOOSE i \in DOMAIN im.loads :
              im.loads[i].p_vaddr <= va /\ va < im.loads[i].p_vaddr + im.loads[i].p_filesz
  IN  [of |-> f.name, at |-> im.loads[i].p_offset + (va - im.loads[i].p_vaddr)]

\* A program that is ready starts at the first instruction of its interpreter,
\* or at its own; AT_ENTRY is the program's own first instruction, AT_BASE is
\* what turns a link address of the interpreter into where it lies in memory,
\* and AT_PHDR is where the program header table of the file lies.
AuxvDescribesMemory ==
  \A p \in Procs : stage[p] = "ready" =>
    LET m == mainFile(p)
        i == interpFile(p)
    IN  /\ val[auxv(p).entry] = LinkedByte(m, m.e_entry)
        /\ auxv(p).phdr # None => val[auxv(p).phdr] = [of |-> m.name, at |-> m.e_phoff]
        /\ image(main(p)).interp =>
             /\ val[entry(p)] = LinkedByte(i, i.e_entry)
             /\ \A ph \in Range(ImageOf(i).loads) : ph.p_filesz > 0 =>
                  val[auxv(p).base + ph.p_vaddr] = LinkedByte(i, ph.p_vaddr)
        /\ ~image(main(p)).interp => entry(p) = auxv(p).entry /\ auxv(p).base = 0

\* Every call of load_program returns.
ProgramStarts ==
  \A p \in Procs :
    stage[p] \in {"parse", "main", "iopen", "iparse", "interp", "undo"}
      ~> stage[p] \in {"ready", "failed"}

\* "ENOEXEC means not an ELF; anything else is a real failure and must not be
\* masked": load_program reports ENOEXEC only for a program that is no ELF.
OnlyNotElfIsENOEXEC ==
  \A p \in Procs : stage[p] = "failed" /\ result[p] = "ENOEXEC" =>
    FirstReject(EhdrChecks(mainFile(p), FALSE)) = "NotElf"
=============================================================================
