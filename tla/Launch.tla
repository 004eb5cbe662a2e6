------------------------------- MODULE Launch -------------------------------
(***************************************************************************)
(* The two callers of load_program: rust/src/app.rs, run, which starts the *)
(* first program on a thread of its own, and rust/src/binfmt.rs, which     *)
(* serves the execve calls that program makes.  build_stack is used by its *)
(* result here; Stack has its steps.                                       *)
(***************************************************************************)
EXTENDS Program

CONSTANT First   \* the process run starts; the others are execve calls

ASSUME LaunchAssumption == First \in Procs /\ "vfs" \in Openers

VARIABLES
  task,      \* where run, or elfrs_binfmt_load and _unload, are
  thread,    \* the application thread of run
  user,      \* the calls whose uk_binfmt_loader_args hold a LoadedProgram
  answer     \* what elfrs_binfmt_load returned

lvars    == <<task, thread, user, answer>>
launched == <<allvars, lvars>>

Calls == Procs \ {First}

Step(p, t) == task' = [task EXCEPT ![p] = t]

\* The local work of a caller: nothing below it moves.
Only(vs) == UNCHANGED <<allvars, vs>>

-----------------------------------------------------------------------------
(***************************************************************************)
(* run.                                                                    *)
(***************************************************************************)
\* ThreadGuard::drop.
DropGuard == thread' = IF thread = "none" THEN "none" ELSE "released"

\* run returns an error.
Bail == Step(First, "failed") /\ DropGuard

\* split_command_line, resolve, CString::new.
Prepare ==
  /\ task[First] = "start"
  /\ Step(First, "thread") \/ Step(First, "failed")
  /\ Only(<<thread, user, answer>>)

CreateThread ==
  /\ task[First] = "thread"
  /\ \/ Step(First, "chdir") /\ thread' = "container"
     \/ Bail
  /\ Only(<<user, answer>>)

Chdir ==
  /\ task[First] = "chdir"
  /\ \/ Step(First, "load") /\ UNCHANGED thread
     \/ Bail
  /\ Only(<<user, answer>>)

\* load_program, or no initrd to load from.
CallLoad ==
  /\ task[First] = "load"
  /\ \/ /\ \E n \in Boot, op \in Openers : Exec(First, n, op)
        /\ Step(First, "loading") /\ UNCHANGED <<thread, user, answer>>
     \/ /\ "initrd" \in Openers
        /\ Bail /\ Only(<<user, answer>>)

LoadFailed ==
  /\ task[First] = "loading" /\ stage[First] = "failed"
  /\ Bail
  /\ Only(<<user, answer>>)


\* The stack of the thread must have room.
CheckStack ==
  /\ task[First] = "loading" /\ stage[First] = "ready"
  /\ Step(First, "argv") \/ Step(First, "discard")
  /\ Only(<<thread, user, answer>>)

\* argv.try_reserve(...)? returns with the program still loaded.
ReserveArgv ==
  /\ task[First] = "argv"
  /\ \/ Step(First, "build") /\ UNCHANGED thread
     \/ Step(First, "starved") /\ DropGuard
  /\ Only(<<user, answer>>)

BuildStack ==
  /\ task[First] = "build"
  /\ Step(First, "context") \/ Step(First, "discard")
  /\ Only(<<thread, user, answer>>)

\* elfrs_ctx_init, elfrs_thread_set_runnable.
SetContext ==
  /\ task[First] = "context"
  /\ Step(First, "pthread") /\ thread' = "runnable"
  /\ Only(<<user, answer>>)

MakePthread ==
  /\ task[First] = "pthread"
  /\ Step(First, "schedule") \/ Step(First, "discard")
  /\ Only(<<thread, user, answer>>)

\* elfrs_thread_schedule has no way to fail; then elfrs_wait_forever.
Schedule ==
  /\ task[First] = "schedule"
  /\ Step(First, "waiting") /\ thread' = "scheduled"
  /\ Only(<<user, answer>>)

\* loaded.unload is through.
Discarded ==
  /\ task[First] = "discard" /\ stage[First] = "idle"
  /\ Bail
  /\ Only(<<user, answer>>)

-----------------------------------------------------------------------------
(***************************************************************************)
(* elfrs_binfmt_load and elfrs_binfmt_unload, for an execve of the first   *)
(* program.                                                                *)
(***************************************************************************)
Answer(c, a) == answer' = [answer EXCEPT ![c] = a]

\* ENOEXEC lets the next loader try.
Refuse(c, e) ==
  Step(c, "refused") /\ Answer(c, IF e = "ENOEXEC" THEN "NOT_HANDLED" ELSE e)

Execve(c) ==
  /\ task[c] = "start" /\ thread = "scheduled"
  /\ \E n \in Boot : Exec(c, n, "vfs")
  /\ Step(c, "loading")
  /\ UNCHANGED <<thread, user, answer>>

ExecveFailed(c) ==
  /\ task[c] = "loading" /\ stage[c] = "failed"
  /\ Refuse(c, result[c])
  /\ Only(<<thread, user>>)

\* The stack check and build_stack; then ownership passes to libukbinfmt.
Handle(c) ==
  /\ task[c] = "loading" /\ stage[c] = "ready"
  /\ \/ Step(c, "handled") /\ user' = user \cup {c} /\ Answer(c, "HANDLED")
     \/ Step(c, "discard") /\ UNCHANGED <<user, answer>>
  /\ Only(thread)

ExecveDiscarded(c) ==
  /\ task[c] = "discard" /\ stage[c] = "idle"
  /\ \E e \in {"EINVAL", "E2BIG", "ENOMEM"} : Refuse(c, e)
  /\ Only(<<thread, user>>)

\* A call without a program has nothing to unload.
BinfmtUnload(c) ==
  /\ task[c] \in {"handled", "refused", "released"}
  /\ IF c \in user THEN Step(c, "release") ELSE UNCHANGED task
  /\ Only(<<thread, user, answer>>)


Released(c) ==
  /\ task[c] = "release" /\ stage[c] = "idle"
  /\ Step(c, "released") /\ user' = user \ {c}
  /\ Only(<<thread, answer>>)

-----------------------------------------------------------------------------
LaunchInit ==
  /\ ProgInit
  /\ task = [p \in Procs |-> "start"]
  /\ thread = "none"
  /\ user = {}
  /\ answer = [c \in Calls |-> "none"]

\* load_program runs for its caller, LoadedProgram::unload when it is called.
Below(p) ==
  /\ \/ task[p] = "loading" /\ Continue(p)
     \/ task[p] \in {"discard", "release"} /\ (UnloadInterp(p) \/ UnloadMain(p))
  /\ UNCHANGED lvars

Run == Prepare \/ CreateThread \/ Chdir \/ CallLoad \/ LoadFailed \/ CheckStack
         \/ ReserveArgv \/ BuildStack \/ SetContext \/ MakePthread \/ Schedule \/ Discarded

Serve(c) == Execve(c) \/ ExecveFailed(c) \/ Handle(c) \/ ExecveDiscarded(c)
              \/ BinfmtUnload(c) \/ Released(c)

LaunchNext ==
  \/ Run
  \/ \E c \in Calls : Serve(c)
  \/ \E p \in Procs : Below(p)

LaunchSpec == LaunchInit /\ [][LaunchNext]_launched

\* The boot thread runs until it waits.
FairLaunchSpec == LaunchSpec /\ WF_launched(Run \/ Below(First))

-----------------------------------------------------------------------------
(***************************************************************************)
(* Properties.                                                             *)
(***************************************************************************)
Holdings(p) == Owned(main(p)) \cup Owned(interp(p))


\* The application thread runs only with its program and its interpreter in
\* memory, and nothing the loader does for anyone else ever changes a byte,
\* a right or the owner of them.
RunningProgramUntouched ==
  [][thread = "scheduled" =>
       /\ stage[First] = "ready" /\ thread' = "scheduled"
       /\ \A a \in Holdings(First) :
            own'[a] = own[a] /\ prot'[a] = prot[a] /\ val'[a] = val[a]]_launched


\* Started at boot, run comes to schedule the application or to return an error,
\* whatever load_program meets on the way.
RunEnds == <>(task[First] \in {"waiting", "failed", "starved"})
=============================================================================
