---------------------------- MODULE LaunchProofs ----------------------------
(***************************************************************************)
(* Theorems about Launch: run and the binfmt handler use load_program as   *)
(* Program describes it, and a running program is left alone by every      *)
(* execve it makes, for any number of calls and any images.                *)
(***************************************************************************)
EXTENDS Launch, ProgramProofs

(***************************************************************************)
(* The program runs only once run is waiting, and from the moment run has  *)
(* checked its stack the program is ready.                                 *)
(***************************************************************************)
Entered == {"argv", "build", "context", "pthread", "schedule", "waiting"}

Tasks == Entered \cup {"start", "thread", "chdir", "load", "loading", "discard", "failed",
                       "starved", "handled", "refused", "release", "released"}

RunInv ==
  /\ task \in [Procs -> Tasks]
  /\ thread = "scheduled" => task[First] = "waiting"
  /\ task[First] \in Entered => stage[First] = "ready"

-----------------------------------------------------------------------------
(***************************************************************************)
(* Every step is one of load_program, or none.                             *)
(***************************************************************************)
\* run and the handler reach load_program and unload only by calling them.
LEMMA LaunchStepIsProg == [LaunchNext]_launched => [ProgNext]_allvars
  <1> SUFFICES ASSUME [LaunchNext]_launched PROVE [ProgNext]_allvars
    OBVIOUS
  <1>1. CASE Run
    <2>1. CASE CallLoad
      BY <2>1, LaunchAssumption DEF CallLoad, Only, ProgNext, ProcStep
    <2> QED
      BY <1>1, <2>1 DEF Run, Prepare, CreateThread, Chdir, LoadFailed, CheckStack, ReserveArgv,
                        BuildStack, SetContext, MakePthread, Schedule, Discarded, Only
  <1>2. ASSUME NEW c \in Calls, Serve(c) PROVE [ProgNext]_allvars
    <2>1. CASE Execve(c)
      BY <2>1, LaunchAssumption DEF Execve, Calls, ProgNext, ProcStep
    <2> QED
      BY <1>2, <2>1 DEF Serve, ExecveFailed, Handle, ExecveDiscarded, BinfmtUnload, Released, Only
  <1>3. ASSUME NEW p \in Procs, Below(p) PROVE [ProgNext]_allvars
    BY <1>3 DEF Below, ProgNext, ProcStep
  <1>4. CASE UNCHANGED launched
    BY <1>4 DEF launched
  <1> QED
    BY <1>1, <1>2, <1>3, <1>4 DEF LaunchNext

\* Every behaviour of run and the handler is one of load_program.
THEOREM LaunchUsesProgram == LaunchSpec => ProgSpec
  <1>1. LaunchInit => ProgInit
    BY DEF LaunchInit
  <1> QED
    BY <1>1, LaunchStepIsProg, PTL DEF LaunchSpec, ProgSpec

-----------------------------------------------------------------------------
(***************************************************************************)
(* While the program runs.                                                 *)
(***************************************************************************)
\* A step of run: its thread comes to be scheduled only as it comes to wait.
LEMMA RunStep ==
  ASSUME RunInv, Run
  PROVE  RunInv'
  <1>1. First \in Procs
    BY LaunchAssumption
  <1>2. CASE CallLoad
    BY <1>1, <1>2 DEF RunInv, CallLoad, Step, Bail, DropGuard, Only, Entered, Tasks
  <1>3. CASE Prepare \/ CreateThread \/ Chdir \/ LoadFailed \/ CheckStack
    BY <1>1, <1>3 DEF RunInv, Prepare, CreateThread, Chdir, LoadFailed, CheckStack,
                      Step, Bail, DropGuard, Only, allvars, pvars, Entered, Tasks
  <1>4. CASE ReserveArgv \/ BuildStack \/ SetContext
    BY <1>1, <1>4 DEF RunInv, ReserveArgv, BuildStack, SetContext,
                      Step, Bail, DropGuard, Only, allvars, pvars, Entered, Tasks
  <1>5. CASE MakePthread \/ Schedule \/ Discarded
    BY <1>1, <1>5 DEF RunInv, MakePthread, Schedule, Discarded,
                      Step, Bail, DropGuard, Only, allvars, pvars, Entered, Tasks
  <1> QED
    BY <1>2, <1>3, <1>4, <1>5 DEF Run

\* An execve is another process.
LEMMA ServeStep ==
  ASSUME RunInv, CallInv, NEW c \in Calls, Serve(c)
  PROVE  RunInv' /\ UNCHANGED <<thread, vars>>
  <1>1. c \in Procs /\ c # First /\ First \in Procs
    BY LaunchAssumption DEF Calls
  <1>2. task' \in [Procs -> Tasks] /\ task'[First] = task[First] /\ UNCHANGED thread
    BY <1>1 DEF Serve, Execve, ExecveFailed, Handle, ExecveDiscarded, BinfmtUnload, Released,
                Refuse, Step, Only, RunInv, Entered, Tasks
  <1>3. CASE Execve(c)
    <2>1. PICK n \in Boot : Exec(c, n, "vfs")
      BY <1>3 DEF Execve
    <2>2. CallStep(c)
      BY <1>1, <2>1, ExecStep, LaunchAssumption
    <2>3. stage'[First] = stage[First] /\ UNCHANGED vars
      BY <1>1, <2>1, <2>2 DEF CallStep, Exec
    <2> QED
      BY <1>2, <2>3 DEF RunInv
  <1>4. CASE UNCHANGED allvars
    BY <1>2, <1>4 DEF RunInv, allvars, pvars
  <1> QED
    BY <1>3, <1>4 DEF Serve, ExecveFailed, Handle, ExecveDiscarded, BinfmtUnload, Released, Only

\* load_program and unload run for a caller that is not waiting.
LEMMA BelowStep ==
  ASSUME RunInv, CallInv, NEW p \in Procs, Below(p)
  PROVE  RunInv' /\ ProcStep(p) /\ UNCHANGED thread /\ task[p] # "waiting"
  <1>1. ProcStep(p) /\ UNCHANGED lvars
    BY DEF Below, ProcStep
  <1>2. task[p] \notin Entered
    BY DEF Below, Entered
  <1>3. CallStep(p)
    BY <1>1, ProcStepKeeps
  <1>4. p # First => stage'[First] = stage[First]
    BY <1>3, LaunchAssumption DEF CallStep
  <1> QED
    BY <1>1, <1>2, <1>4 DEF RunInv, lvars, Entered

\* RunInv is inductive.
LEMMA RunPreserved == RunInv /\ CallInv /\ [LaunchNext]_launched => RunInv'
  <1> SUFFICES ASSUME RunInv, CallInv, [LaunchNext]_launched PROVE RunInv'
    OBVIOUS
  <1>1. CASE UNCHANGED launched
    BY <1>1 DEF launched, lvars, allvars, pvars, RunInv
  <1> QED
    BY <1>1, RunStep, ServeStep, BelowStep DEF LaunchNext

\* No step of the loader for another process reaches the running program.
LEMMA RunningStep ==
  ASSUME IInv, CallInv, RunInv, LaunchNext, thread = "scheduled"
  PROVE  /\ stage[First] = "ready" /\ thread' = "scheduled"
         /\ \A a \in Holdings(First) :
              own'[a] = own[a] /\ prot'[a] = prot[a] /\ val'[a] = val[a]
  <1>1. task[First] = "waiting" /\ stage[First] = "ready" /\ First \in Procs
    BY LaunchAssumption DEF RunInv, Entered
  <1>2. CASE Run
    BY <1>1, <1>2 DEF Run, Prepare, CreateThread, Chdir, CallLoad, LoadFailed, CheckStack,
                      ReserveArgv, BuildStack, SetContext, MakePthread, Schedule, Discarded
  <1>3. ASSUME NEW c \in Calls, Serve(c)
        PROVE  /\ thread' = "scheduled"
               /\ \A a \in Holdings(First) :
                    own'[a] = own[a] /\ prot'[a] = prot[a] /\ val'[a] = val[a]
    BY <1>3, ServeStep DEF vars, vmvars
  <1>4. ASSUME NEW p \in Procs, Below(p)
        PROVE  /\ thread' = "scheduled"
               /\ \A a \in Holdings(First) :
                    own'[a] = own[a] /\ prot'[a] = prot[a] /\ val'[a] = val[a]
    <2>1. p # First /\ ProcStep(p) /\ thread' = "scheduled"
      BY <1>1, <1>4, BelowStep
    <2>2. \A a \in Holdings(First) : a \in Space /\ own[a] \in {main(First), interp(First)}
      BY DEF Holdings, Owned
    <2>3. ASSUME NEW j \in {main(p), interp(p)}, JobStep(j)
          PROVE  \A a \in Holdings(First) :
                   own'[a] = own[a] /\ prot'[a] = prot[a] /\ val'[a] = val[a]
      <3>1. j \in Jobs /\ j \notin {main(First), interp(First)}
        BY <1>1, <2>1, JobsOfProcs, Zenon
      <3>2. main(First) \in Jobs /\ interp(First) \in Jobs
        BY <1>1, JobsOfProcs
      <3>3. Confined(j)
        BY <2>3, <3>1, JobStepSound DEF Sound, VmStep
      <3>4. \A a \in Holdings(First) : own[a] \notin {j, Nobody}
        BY <2>2, <3>1, <3>2, LoaderAssumption
      <3> QED
        BY <2>2, <3>3, <3>4 DEF Confined
    <2>4. JobStep(main(p)) \/ JobStep(interp(p)) \/ UNCHANGED vars
      BY <2>1, ProcStepIsLoad
    <2>5. CASE UNCHANGED vars
      BY <2>1, <2>5 DEF vars, vmvars
    <2> QED
      BY <2>1, <2>3, <2>4, <2>5
  <1> QED
    BY <1>1, <1>2, <1>3, <1>4 DEF LaunchNext

-----------------------------------------------------------------------------
(***************************************************************************)
(* Theorems.                                                               *)
(***************************************************************************)
\* The running program is ready, and its thread runs only with it in memory.
THEOREM RunInvariant == LaunchSpec => []RunInv
  <1>1. LaunchInit => RunInv
    BY LaunchAssumption DEF LaunchInit, RunInv, Entered, Tasks
  <1>2. LaunchSpec => []CallInv
    BY LaunchUsesProgram, CallsInvariant
  <1> QED
    BY <1>1, <1>2, RunPreserved, PTL DEF LaunchSpec

\* Nothing that is done for an execve, its failure and its unloading included,
\* changes an owner, a right or a byte of the program that runs, for any number
\* of calls at the same time, any images and any page size.
THEOREM RunningProgramIsUntouched == LaunchSpec => RunningProgramUntouched
  <1> DEFINE A == thread = "scheduled" =>
                    /\ stage[First] = "ready" /\ thread' = "scheduled"
                    /\ \A a \in Holdings(First) :
                         own'[a] = own[a] /\ prot'[a] = prot[a] /\ val'[a] = val[a]
  <1>1. IInv /\ CallInv /\ RunInv /\ [LaunchNext]_launched => [A]_launched
    BY RunningStep
  <1>2. LaunchSpec => []CallInv
    BY LaunchUsesProgram, CallsInvariant
  <1>3. LaunchSpec => []IInv
    BY LaunchUsesProgram, ProgramUsesLoader, Invariance DEF UsesLoader
  <1> QED
    BY <1>1, <1>2, <1>3, RunInvariant, PTL DEF LaunchSpec, RunningProgramUntouched
=============================================================================
