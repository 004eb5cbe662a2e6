--------------------------- MODULE ProgramProofs ---------------------------
(***************************************************************************)
(* Theorems about Program: for every disk, number of processes and         *)
(* interleaving, load_program is a user of the loader as Loader describes  *)
(* it, and it closes what it opens.                                        *)
(***************************************************************************)
EXTENDS Program, LoaderProofs

Stages == {"idle", "parse", "main", "iopen", "iparse", "interp", "undo",
           "ready", "unload", "failed"}

(***************************************************************************)
(* What load_program knows at each of its stages.  That a call is a step   *)
(* of Loader rests on the file being one that parse accepted, and on the   *)
(* descriptor being one the opener can give.                               *)
(***************************************************************************)
Knows(p) ==
  /\ stage[p] # "idle" => opener[p] \in Openers
  /\ stage[p] \in Stages \ {"idle", "failed"} => path[p] \in DOMAIN Disk
  /\ stage[p] = "main" => "none" \in parseErr(mainFile(p))
  /\ stage[p] \in {"iparse", "interp"} => mainFile(p).interp \in DOMAIN Disk
  /\ stage[p] = "interp" => "none" \in parseErr(interpFile(p))

CallType ==
  /\ stage \in [Procs -> Stages]
  /\ path \in [Procs -> Boot \cup {NoPath}]
  /\ opener \in [Procs -> {"vfs", "initrd"}]

CallInv == CallType /\ SourcesClosed /\ \A p \in Procs : Knows(p)

-----------------------------------------------------------------------------
\* A call that goes on after parse was given a file that parse accepts.
LEMMA AcceptedMain ==
  ASSUME NEW f, "none" \in mainErr(f)
  PROVE  "none" \in parseErr(f)
  <1> DEFINE im == ImageOf(f)
  <1> DEFINE E(e) == CASE e # "none" -> {e}
                       [] e = "none" /\ im.exec_stack -> {"ENOTSUP"}
                       [] e = "none" /\ ~im.exec_stack /\ im.interp -> {interp_err(f), "ENOMEM"}
                       [] OTHER -> {"none"}
  <1>1. mainErr(f) = UNION {E(e) : e \in parseErr(f)}
    BY Zenon DEF mainErr
  <1>2. PICK e \in parseErr(f) : "none" \in E(e)
    <2> HIDE DEF E
    <2> QED
      BY <1>1
  <1>3. e # "none" => E(e) = {e}
    BY Zenon
  <1> QED
    <2> HIDE DEF E
    <2> QED
      BY <1>2, <1>3

\* So was one that goes on with an interpreter.
LEMMA AcceptedInterp ==
  ASSUME NEW f, "none" \in interpErr(f)
  PROVE  "none" \in parseErr(f)
  BY DEF interpErr

\* The two images of a process are jobs, and no two processes share one.
LEMMA JobsOfProcs ==
  ASSUME NEW p \in Procs
  PROVE  /\ main(p) \in Jobs /\ interp(p) \in Jobs
         /\ \A q \in Procs \ {p} :
              {main(p), interp(p)} \cap {main(q), interp(q)} = {}
  BY ProgramAssumption DEF main, interp

-----------------------------------------------------------------------------
(***************************************************************************)
(* The invariant.                                                          *)
(***************************************************************************)
\* Which part of the state a step of process p changes.
CallStep(p) ==
  /\ CallType' /\ Knows(p)'
  /\ stage'[p] \in {"idle", "ready", "unload", "failed"} => {main(p), interp(p)} \cap fds' = {}
  /\ \A q \in Procs \ {p} : /\ stage'[q] = stage[q] /\ path'[q] = path[q]
                            /\ opener'[q] = opener[q]
                            /\ {main(q), interp(q)} \cap fds' \subseteq fds

\* A call of load_program: the program is opened, or is not there.
LEMMA ExecStep ==
  ASSUME CallInv, NEW p \in Procs, NEW n \in Boot, NEW op \in Openers, Exec(p, n, op)
  PROVE  CallStep(p)
  <1>1. CallType /\ SourcesClosed /\ stage[p] = "idle"
    BY DEF CallInv, Exec
  <1>2. PICK s \in {"parse", "failed"} :
          /\ stage' = [stage EXCEPT ![p] = s]
          /\ s = "parse" => n \in DOMAIN Disk /\ fds' = fds \cup {main(p)}
          /\ s = "failed" => fds' = fds
    BY DEF Exec, Enter
  <1>3. path' = [path EXCEPT ![p] = n] /\ opener' = [opener EXCEPT ![p] = op]
    BY DEF Exec
  <1>4. op \in {"vfs", "initrd"}
    BY ProgramAssumption
  <1>5. CallType'
    BY <1>1, <1>2, <1>3, <1>4 DEF CallType, Stages
  <1>6. stage'[p] = s /\ path'[p] = n /\ opener'[p] = op
    BY <1>1, <1>2, <1>3 DEF CallType
  <1>7. Knows(p)'
    BY <1>2, <1>6 DEF Knows, Stages
  <1>8. s = "failed" => {main(p), interp(p)} \cap fds' = {}
    BY <1>1, <1>2 DEF SourcesClosed
  <1>9. \A q \in Procs \ {p} : /\ stage'[q] = stage[q] /\ path'[q] = path[q]
                               /\ opener'[q] = opener[q]
    BY <1>1, <1>2, <1>3 DEF CallType
  <1>10. \A q \in Procs \ {p} : {main(q), interp(q)} \cap fds' \subseteq fds
    BY <1>2, JobsOfProcs, Zenon
  <1> QED
    BY <1>2, <1>5, <1>6, <1>7, <1>8, <1>9, <1>10 DEF CallStep

\* A step of a call that keeps its path and its opener, and opens at most
\* what belongs to it.
LEMMA OwnStep ==
  ASSUME CallInv, NEW p \in Procs, NEW s \in Stages, Enter(p, s),
         UNCHANGED <<path, opener>>,
         fds' \subseteq fds \cup {interp(p)},
         stage[p] # "idle" \/ s = "idle",
         s \in {"idle", "ready", "unload", "failed"} => {main(p), interp(p)} \cap fds' = {},
         s \notin {"idle", "failed"} => path[p] \in DOMAIN Disk,
         s = "main" => "none" \in parseErr(mainFile(p)),
         s \in {"iparse", "interp"} => mainFile(p).interp \in DOMAIN Disk,
         s = "interp" => "none" \in parseErr(interpFile(p))
  PROVE  CallStep(p)
  <1>1. CallType /\ Knows(p)
    BY DEF CallInv
  <1>2. CallType' /\ stage'[p] = s /\ path'[p] = path[p] /\ opener'[p] = opener[p]
    BY <1>1 DEF CallType, Enter
  <1>3. mainFile(p)' = mainFile(p) /\ interpFile(p)' = interpFile(p)
    BY <1>2 DEF mainFile, interpFile
  <1>4. Knows(p)'
    BY <1>1, <1>2, <1>3 DEF Knows
  <1>5. \A q \in Procs \ {p} : /\ stage'[q] = stage[q] /\ path'[q] = path[q]
                               /\ opener'[q] = opener[q]
    BY <1>1 DEF CallType, Enter
  <1>6. \A q \in Procs \ {p} : {main(q), interp(q)} \cap fds' \subseteq fds
    BY JobsOfProcs, Zenon
  <1> QED
    BY <1>2, <1>4, <1>5, <1>6 DEF CallStep

\* A step that leaves load_program where it is.
LEMMA QuietCall ==
  ASSUME CallInv, NEW p \in Procs, UNCHANGED pvars
  PROVE  CallStep(p)
  <1>1. CallType' /\ (\A q \in Procs : Knows(q)') /\ SourcesClosed'
    BY DEF CallInv, CallType, Knows, SourcesClosed, pvars, mainFile, interpFile
  <1> QED
    BY <1>1 DEF CallStep, SourcesClosed, pvars

\* Every step of a process.
LEMMA ProcStepKeeps ==
  ASSUME CallInv, NEW p \in Procs, ProcStep(p)
  PROVE  CallStep(p)
  <1>1. CallType /\ Knows(p) /\ SourcesClosed
    BY DEF CallInv
  <1>2. CASE \E n \in Boot, op \in Openers : Exec(p, n, op)
    BY <1>2, ExecStep
  <1>3. CASE Inspect(p)
    <2>1. PICK e \in mainErr(mainFile(p)) :
            IF e = "none" THEN Enter(p, "main") /\ UNCHANGED <<fds, result>>
                          ELSE Return(p, "failed", e)
      BY <1>3 DEF Inspect
    <2>2. e = "none" => "none" \in parseErr(mainFile(p))
      BY AcceptedMain
    <2>3. stage[p] = "parse" /\ UNCHANGED <<path, opener>>
      BY <1>3 DEF Inspect
    <2> QED
      BY <1>1, <2>1, <2>2, <2>3, OwnStep DEF Return, Close, Knows, Stages
  <1>4. CASE MainDone(p)
    BY <1>1, <1>4, OwnStep DEF MainDone, Return, Close, Knows, Stages
  <1>5. CASE OpenInterp(p)
    <2>1. stage[p] = "iopen" /\ UNCHANGED <<path, opener>>
      BY <1>5 DEF OpenInterp
    <2>2. CASE /\ mainFile(p).interp \in DOMAIN Disk
               /\ Enter(p, "iparse") /\ fds' = fds \cup {interp(p)}
      BY <1>1, <2>1, <2>2, OwnStep DEF Knows, Stages
    <2>3. CASE InterpError(p, "ENOENT")
      BY <1>1, <2>1, <2>3, OwnStep DEF InterpError, Close, Knows, Stages
    <2> QED
      BY <1>5, <2>2, <2>3 DEF OpenInterp
  <1>6. CASE InspectInterp(p)
    <2>1. PICK e \in interpErr(interpFile(p)) :
            IF e = "none" THEN Enter(p, "interp") /\ UNCHANGED <<fds, result>>
                          ELSE InterpError(p, e)
      BY <1>6 DEF InspectInterp
    <2>2. e = "none" => "none" \in parseErr(interpFile(p))
      BY AcceptedInterp
    <2>3. stage[p] = "iparse" /\ UNCHANGED <<path, opener>>
      BY <1>6 DEF InspectInterp
    <2> QED
      BY <1>1, <2>1, <2>2, <2>3, OwnStep DEF InterpError, Close, Knows, Stages
  <1>7. CASE InterpDone(p)
    <2>1. stage[p] = "interp" /\ UNCHANGED <<path, opener>>
      BY <1>7 DEF InterpDone
    <2>2. CASE Return(p, "ready", "none")
      BY <1>1, <2>1, <2>2, OwnStep DEF Return, Close, Knows, Stages
    <2>3. CASE InterpError(p, err[interp(p)])
      BY <1>1, <2>1, <2>3, OwnStep DEF InterpError, Close, Knows, Stages
    <2> QED
      BY <1>7, <2>2, <2>3 DEF InterpDone
  <1>8. CASE UndoMain(p)
    BY <1>1, <1>8, OwnStep DEF UndoMain, Return, Close, Knows, Stages
  <1>9. CASE UnloadInterp(p)
    BY <1>1, <1>9, OwnStep DEF UnloadInterp, SourcesClosed, Knows, Stages
  <1>10. CASE UnloadMain(p)
    BY <1>1, <1>10, OwnStep DEF UnloadMain, SourcesClosed, Knows, Stages
  <1>11. CASE UNCHANGED pvars
    BY <1>11, QuietCall
  <1> QED
    BY <1>2, <1>3, <1>4, <1>5, <1>6, <1>7, <1>8, <1>9, <1>10, <1>11
       DEF ProcStep, Continue, LoadMain, LoadInterp

\* What load_program knows, and that it closes its sources, is an invariant.
LEMMA CallsPreserved == CallInv /\ [ProgNext]_allvars => CallInv'
  <1> SUFFICES ASSUME CallInv, [ProgNext]_allvars PROVE CallInv'
    OBVIOUS
  <1>1. ASSUME NEW p \in Procs, CallStep(p) PROVE CallInv'
    <2>1. CallType' /\ Knows(p)'
      BY <1>1 DEF CallStep
    <2>2. ASSUME NEW q \in Procs \ {p} PROVE Knows(q)'
      <3>1. stage'[q] = stage[q] /\ path'[q] = path[q] /\ opener'[q] = opener[q]
        BY <1>1 DEF CallStep
      <3>2. mainFile(q)' = mainFile(q) /\ interpFile(q)' = interpFile(q)
        BY <3>1 DEF mainFile, interpFile
      <3>3. Knows(q)
        BY DEF CallInv
      <3> QED
        BY <3>1, <3>2, <3>3 DEF Knows
    <2>3. SourcesClosed'
      BY <1>1 DEF CallStep, CallInv, SourcesClosed
    <2> QED
      BY <2>1, <2>2, <2>3 DEF CallInv
  <1>2. ASSUME UNCHANGED pvars PROVE CallInv'
    BY <1>2 DEF CallInv, CallType, Knows, SourcesClosed, pvars, mainFile, interpFile
  <1> QED
    BY <1>1, <1>2, ProcStepKeeps DEF ProgNext, allvars

-----------------------------------------------------------------------------
(***************************************************************************)
(* Every step of a process is a step of the loader, or none.               *)
(***************************************************************************)
\* load is called with a file that parse accepted and a descriptor the opener
\* gave; the other steps are steps of a load, unloads, or leave it alone.
LEMMA ProcStepIsLoad ==
  ASSUME CallInv, NEW p \in Procs, ProcStep(p)
  PROVE  JobStep(main(p)) \/ JobStep(interp(p)) \/ UNCHANGED vars
  <1>1. Knows(p) /\ opener[p] \in {"vfs", "initrd"}
    BY DEF CallInv, CallType
  <1>2. CASE LoadMain(p)
    <2>1. stage[p] = "main" /\ Load(main(p), sourceOf(mainFile(p)), hasFd(p))
      BY <1>2 DEF LoadMain
    <2>2. sourceOf(mainFile(p)) \in Sources /\ hasFd(p) \in Fds
      BY <1>1, <2>1, DiskAssumption DEF Knows, mainFile, hasFd, Stages
    <2> QED
      BY <2>1, <2>2 DEF JobStep
  <1>3. CASE LoadInterp(p)
    <2>1. stage[p] = "interp" /\ Load(interp(p), sourceOf(interpFile(p)), hasFd(p))
      BY <1>3 DEF LoadInterp
    <2>2. sourceOf(interpFile(p)) \in Sources /\ hasFd(p) \in Fds
      BY <1>1, <2>1, DiskAssumption DEF Knows, interpFile, hasFd, Stages
    <2> QED
      BY <2>1, <2>2 DEF JobStep
  <1>4. CASE Unload(main(p)) \/ Unload(interp(p)) \/ LoadStep(main(p)) \/ LoadStep(interp(p))
    BY <1>4 DEF JobStep
  <1>5. CASE UNCHANGED vars
    BY <1>5
  <1> QED
    BY <1>2, <1>3, <1>4, <1>5
       DEF ProcStep, Continue, Exec, Inspect, MainDone, OpenInterp, InspectInterp, InterpDone,
           UndoMain, UnloadInterp, UnloadMain

\* A step of load_program is a step of Loader.
LEMMA ProgStepIsLoad == CallInv /\ [ProgNext]_allvars => [Next]_vars
  <1> SUFFICES ASSUME CallInv, [ProgNext]_allvars PROVE [Next]_vars
    OBVIOUS
  <1>1. ASSUME NEW p \in Procs, ProcStep(p) PROVE [Next]_vars
    BY <1>1, ProcStepIsLoad, JobsOfProcs DEF Next
  <1>2. ASSUME NEW o \in Others, OtherMap(o) \/ OtherUnmap(o) PROVE Next
    BY <1>2 DEF Next
  <1>3. CASE UNCHANGED allvars
    BY <1>3 DEF allvars
  <1> QED
    BY <1>1, <1>2, <1>3 DEF ProgNext

\* Before the first call nothing is open and nothing is known.
LEMMA CallsInitially == ProgInit => CallInv
  BY DEF ProgInit, CallInv, CallType, SourcesClosed, Knows, Stages

-----------------------------------------------------------------------------
(***************************************************************************)
(* Theorems.                                                               *)
(***************************************************************************)
\* load_program always knows what Knows says.
THEOREM CallsInvariant == ProgSpec => []CallInv
  BY CallsInitially, CallsPreserved, PTL DEF ProgSpec

\* Whenever load_program is not running its sources are closed, for any number
\* of calls at the same time and however each of them ends.
THEOREM SourcesAreClosed == ProgSpec => []SourcesClosed
  <1>1. CallInv => SourcesClosed
    BY DEF CallInv
  <1> QED
    BY <1>1, CallsInvariant, PTL

\* Every behaviour of load_program is one of Loader: it calls load only with
\* files that parse accepted, and unload only on what it loaded.
THEOREM ProgramUsesLoader == ProgSpec => UsesLoader
  <1>1. ProgInit => Init
    BY DEF ProgInit
  <1> QED
    BY <1>1, ProgStepIsLoad, CallsInvariant, PTL DEF ProgSpec, UsesLoader, Spec

\* Hence no image of a program, and no interpreter, ever takes an address of
\* another one, and each owns its reservation as long as it is loaded.
THEOREM ProgramsApart == ProgSpec => NeverEvicts /\ []ReservationHeld
  <1>1. ProgSpec => Spec
    BY ProgramUsesLoader DEF UsesLoader
  <1> QED
    BY <1>1, NothingIsEvicted, ReservationIsHeld
=============================================================================
