------------------------------- MODULE Stack -------------------------------
(***************************************************************************)
(* rust/src/auxv.rs: build_stack, writing the initial stack of a program   *)
(* into the stack of its thread (sys.rs, AppStack), one push at a time.    *)
(* A string is a record [id, len]; a byte of memory is a tuple that tells  *)
(* what it is a byte of, so that one write over another shows.             *)
(***************************************************************************)
EXTENDS Integers, Sequences, FiniteSetsExt

CONSTANTS
  WordBytes,    \* 8
  SpAlign,      \* SP_ALIGN, also the length of the random bytes
  ArgMax,       \* ARG_MAX
  Oom           \* whether an allocation may fail: a set of BOOLEANs

ASSUME StackAssumption ==
  /\ WordBytes \in Nat \ {0} /\ SpAlign \in Nat \ {0} /\ SpAlign % WordBytes = 0
  /\ ArgMax \in Nat
  /\ Oom \subseteq BOOLEAN /\ FALSE \in Oom

VARIABLES
  req,          \* what build_stack was given: bottom and top of the stack,
                \* argv, envp, platform, execfn, and the other auxv values
  stage,        \* the part it is at
  sp,           \* Pusher::sp
  mem,          \* the thread's stack
  at,           \* addresses of what was pushed, None before
  err           \* the error it returns

vars == <<req, stage, sp, mem, at, err>>

None == -1

-----------------------------------------------------------------------------
Stack == req.bottom..(req.top - 1)

\* Mutant: rounds up.
DownUp(v) == v + SpAlign - (v % SpAlign)

Down(v) == v - (v % SpAlign)

Nul        == <<"nul", 0, 0>>
Chars(s)   == [k \in 1..s.len |-> <<"str", s.id, k>>]
CStr(s)    == Append(Chars(s), Nul)
Random     == [k \in 1..SpAlign |-> <<"random", 0, k>>]
WordOf(v)  == [k \in 1..WordBytes |-> <<"word", v, k>>]

\* The bytes of a sequence of words, lowest address first.
Words(vs) == [k \in 1..(Len(vs) * WordBytes) |->
                WordOf(vs[((k - 1) \div WordBytes) + 1])[((k - 1) % WordBytes) + 1]]

Fail(e) == stage' = "failed" /\ err' = e /\ UNCHANGED <<req, sp, mem, at>>

\* AppStack::write of bytes at address a, checked once more by the writer.
Write(a, bytes) ==
  mem' = [x \in Stack |-> IF x \in a..(a + Len(bytes) - 1) THEN bytes[x - a + 1] ELSE mem[x]]

InStack(a, bytes) == req.bottom <= a /\ a + Len(bytes) <= req.top

\* push_bytes or push_cstr below a stack pointer; the addresses known then are
\* those in known.  A failed push_cstr may have written its terminator, in a
\* stack that nobody will look at.
Push(from, bytes, known, next) ==
  LET to == from - Len(bytes)
  IN  \/ /\ to >= req.bottom /\ InStack(to, bytes)
         /\ Write(to, bytes)
         /\ sp' = to /\ at' = known /\ stage' = next
         /\ UNCHANGED <<req, err>>
      \/ to >= req.bottom /\ ~InStack(to, bytes) /\ Fail("guard")
      \/ to < req.bottom /\ Fail("E2BIG")

\* The address push_cstr returns.
Below(s) == sp - Len(CStr(s))

-----------------------------------------------------------------------------
(***************************************************************************)
(* check_arg_env_size.                                                     *)
(***************************************************************************)
ArgEnvLen(strs) ==
  LET upto[n \in 0..Len(strs)] ==
        IF n = 0 THEN 0 ELSE upto[n - 1] + strs[n].len + 1 + WordBytes
  IN  upto[Len(strs)]

\* Mutant: the smaller of the two.
budget_min(size) == IF ArgMax < size \div 4 THEN ArgMax ELSE size \div 4

budget(size) == IF ArgMax > size \div 4 THEN ArgMax ELSE size \div 4

CheckSize ==
  /\ stage = "check"
  /\ IF ArgEnvLen(req.argv \o req.envp) > budget(req.top - req.bottom) THEN Fail("E2BIG")
     ELSE /\ sp' = Down(req.top)
          /\ stage' = IF req.platform.len = 0 THEN "execfn" ELSE "platform"
          /\ UNCHANGED <<req, mem, at, err>>

-----------------------------------------------------------------------------
(***************************************************************************)
(* Strings and other blobs, highest first.                                 *)
(***************************************************************************)
PushPlatform ==
  /\ stage = "platform"
  /\ Push(sp, CStr(req.platform), [at EXCEPT !.platform = Below(req.platform)], "execfn")

PushExecfn ==
  /\ stage = "execfn"
  /\ Push(sp, CStr(req.execfn), [at EXCEPT !.execfn = Below(req.execfn)], "random")

PushRandom ==
  /\ stage = "random"
  /\ Push(Down(sp), Random, [at EXCEPT !.random = Down(sp) - SpAlign], "envp")

\* One string of envp, from the last to the first.
PushEnv ==
  /\ stage = "envp"
  /\ \/ at.envp = <<>> /\ TRUE \in Oom /\ Fail("ENOMEM")
     \/ /\ Len(at.envp) < Len(req.envp)
        /\ LET s == req.envp[Len(req.envp) - Len(at.envp)]
           IN  Push(sp, CStr(s), [at EXCEPT !.envp = <<Below(s)>> \o @], "envp")
     \/ /\ Len(at.envp) = Len(req.envp)
        /\ stage' = "argv" /\ UNCHANGED <<req, sp, mem, at, err>>

\* One string of argv, from the last to the first.
PushArg ==
  /\ stage = "argv"
  /\ \/ at.argv = <<>> /\ TRUE \in Oom /\ Fail("ENOMEM")
     \/ /\ Len(at.argv) < Len(req.argv)
        /\ LET s == req.argv[Len(req.argv) - Len(at.argv)]
           IN  Push(sp, CStr(s), [at EXCEPT !.argv = <<Below(s)>> \o @], "argv")
     \/ /\ Len(at.argv) = Len(req.argv)
        /\ stage' = "block" /\ UNCHANGED <<req, sp, mem, at, err>>

-----------------------------------------------------------------------------
(***************************************************************************)
(* The auxiliary vector, and the block of words below the strings.         *)
(***************************************************************************)
AT_NULL == 0
AT_PHDR == 3
AT_PHENT == 4
AT_PHNUM == 5
AT_PLATFORM == 15
AT_RANDOM == 25
AT_EXECFN == 31
AT_SYSINFO_EHDR == 33
AT_MINSIGSTKSZ == 51

When(c, pairs) == IF c THEN pairs ELSE <<>>

\* req.aux.plain: AT_PAGESZ to AT_HWCAP2, whose values are passed through.
av ==
  LET x == req.aux
  IN  When(x.phdr # None, <<<<AT_PHDR, x.phdr>>, <<AT_PHENT, x.phent>>, <<AT_PHNUM, x.phnum>>>>)
      \o x.plain
      \o <<<<AT_RANDOM, at.random>>>>
      \o When(at.platform # None, <<<<AT_PLATFORM, at.platform>>>>)
      \o <<<<AT_EXECFN, at.execfn>>>>
      \o When(x.sysinfo_ehdr # None, <<<<AT_SYSINFO_EHDR, x.sysinfo_ehdr>>>>)
      \o When(x.minsigstksz # None, <<<<AT_MINSIGSTKSZ, x.minsigstksz>>>>)
      \o <<<<AT_NULL, 0>>>>

\* Mutant: the null pointer after the environment is not counted.
block_short == (1 + Len(req.argv) + 1 + Len(req.envp)) * WordBytes + Len(av) * 2 * WordBytes

block == (1 + Len(req.argv) + 1 + Len(req.envp) + 1) * WordBytes + Len(av) * 2 * WordBytes

BlockWords ==
  <<Len(req.argv)>> \o at.argv \o <<0>> \o at.envp \o <<0>>
    \o [i \in 1..(2 * Len(av)) |-> av[(i + 1) \div 2][IF i % 2 = 1 THEN 1 ELSE 2]]

WriteBlock ==
  /\ stage = "block"
  /\ LET to == Down(sp - block)
     IN  \/ /\ sp >= block /\ to >= req.bottom /\ InStack(to, Words(BlockWords))
            /\ Write(to, Words(BlockWords))
            /\ sp' = to /\ stage' = "done"
            /\ UNCHANGED <<req, at, err>>
         \/ sp >= block /\ to >= req.bottom /\ ~InStack(to, Words(BlockWords)) /\ Fail("guard")
         \/ (sp < block \/ to < req.bottom) /\ Fail("E2BIG")

-----------------------------------------------------------------------------
NothingPushed == [platform |-> None, execfn |-> None, random |-> None,
                  envp |-> <<>>, argv |-> <<>>]

Init ==
  /\ req = [bottom |-> 1, top |-> 1]
  /\ stage = "idle"
  /\ sp = 1
  /\ mem = [x \in {} |-> Nul]
  /\ at = NothingPushed
  /\ err = "none"

\* build_stack is called, for a stack that holds whatever it held.
Start(r) ==
  /\ stage = "idle"
  /\ req' = r /\ sp' = r.top
  /\ stage' = "check"
  /\ mem' = [x \in r.bottom..(r.top - 1) |-> <<"junk", 0, 0>>]
  /\ UNCHANGED <<at, err>>

BuildStep == CheckSize \/ PushPlatform \/ PushExecfn \/ PushRandom \/ PushEnv \/ PushArg
               \/ WriteBlock

-----------------------------------------------------------------------------
(***************************************************************************)
(* Properties.                                                             *)
(***************************************************************************)
\* What the program reads: the word, the string, the random bytes at x.
Holds(x, bytes) == \A k \in 1..Len(bytes) : x + k - 1 \in Stack /\ mem[x + k - 1] = bytes[k]
HasWord(x, v)   == Holds(x, WordOf(v))

\* A vector of pointers at x to the strings ss, ended by a null pointer.
HasStrings(x, ss) ==
  /\ \A i \in DOMAIN ss : \E a \in Stack :
       HasWord(x + (i - 1) * WordBytes, a) /\ Holds(a, CStr(ss[i]))
  /\ HasWord(x + Len(ss) * WordBytes, 0)

\* FakeStack::u64_at, where a whole word was written.
u64_at(x) == IF x \in Stack /\ mem[x][1] = "word" /\ HasWord(x, mem[x][2])
             THEN mem[x][2] ELSE None

\* FakeStack::auxv_value, the reader of the host tests: past argc and argv, past
\* the null pointer that ends the environment, up to the key or AT_NULL.
auxv_value(from, key) ==
  LET word(x, k) == u64_at(x + k * WordBytes)
      envp == from + (2 + u64_at(from)) * WordBytes
      auxv == envp + (1 + Min({k \in 0..Len(av \o req.envp) : word(envp, k) = 0})) * WordBytes
      i    == Min({k \in 0..Len(av) : word(auxv, 2 * k) \in {key, AT_NULL}})
  IN  IF word(auxv, 2 * i) = AT_NULL THEN None ELSE word(auxv, 2 * i + 1)

\* A program entered with the sp build_stack returns finds what it was given,
\* reading the stack the way a libc does: sp aligned, argc, the arguments, the
\* environment, and an auxiliary vector whose pointers lead to the random
\* bytes, the name and the platform.  No push has run over an earlier one.
ProgramReadsItsArguments ==
  stage = "done" =>
    /\ sp % SpAlign = 0
    /\ HasWord(sp, Len(req.argv))
    /\ HasStrings(sp + WordBytes, req.argv)
    /\ HasStrings(sp + (2 + Len(req.argv)) * WordBytes, req.envp)
    /\ Holds(auxv_value(sp, AT_RANDOM), Random)
    /\ Holds(auxv_value(sp, AT_EXECFN), CStr(req.execfn))
    /\ req.platform.len > 0 => Holds(auxv_value(sp, AT_PLATFORM), CStr(req.platform))
    /\ auxv_value(sp, AT_PHDR) = req.aux.phdr
    /\ \A i \in DOMAIN req.aux.plain :
         auxv_value(sp, req.aux.plain[i][1]) = req.aux.plain[i][2]

\* "build_stack already checks": the bounds check of AppStack::write, the last
\* before a raw store into another thread's stack, never fires.
WriterNeverRefuses == err # "guard"

\* What the stack holds besides strings of argv and envp and their pointers.
FixedPart == (3 + 2 * Len(av)) * WordBytes + Len(CStr(req.platform)) + Len(CStr(req.execfn))
               + 4 * SpAlign

\* Arguments and environment within the quarter of the stack that execve(2)
\* promises them are refused with E2BIG only if the other three quarters
\* cannot take the fixed part: check_arg_env_size counts what is written.
QuarterFits ==
  LET size == req.top - req.bottom
  IN  err = "E2BIG" /\ ArgEnvLen(req.argv \o req.envp) <= size \div 4
        => FixedPart > size - (size \div 4)
=============================================================================
