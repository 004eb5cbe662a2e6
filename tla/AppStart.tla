------------------------------ MODULE AppStart ------------------------------
(***************************************************************************)
(* rust/src/app.rs, run, seen from its data: from the command line and the *)
(* environment to the file that is opened and read, and to the strings on  *)
(* the stack of the program.  Launch has the same function seen from the   *)
(* resources it holds.  The file system is external: it is what stat,      *)
(* chdir, open and pread do for the shim.                                  *)
(***************************************************************************)
EXTENDS Stack, CommandLine

CONSTANTS
  Boots,        \* [c, args, env, fs, initrd]: the build, the command line, the system
  Stacks,       \* [bottom, top] records: stacks a thread may come with
  Systems,      \* [platform, aux] records: what else the auxv is made of
  Reads,        \* [off, len] records: what load_program may read
  FileLen       \* length of every file and of the initrd

ASSUME AppStartAssumption ==
  /\ FileLen \in Nat
  /\ \A r \in Reads : r.off \in Nat /\ r.len \in Nat
  /\ \A g \in Stacks : g.bottom \in Nat \ {0} /\ g.top \in Nat
  /\ \A b \in Boots :   \* what Config.uk allows
       /\ b.c.envpath => b.c.vfsexec /\ b.c.customappname /\ b.c.have_environ
       /\ b.c.envpwd => b.c.vfsexec /\ b.c.have_environ

VARIABLES
  boot,         \* the member of Boots this is about
  phase,        \* where run is
  target,       \* Target
  look,         \* the element of PATH to look at next
  skipped,      \* elements of PATH not looked at for want of memory
  found,        \* the file the lookup settled on
  cwd,          \* the current directory
  opened,       \* the file load_program reads
  want,         \* the read in progress
  buf           \* what it has read so far

inputs == <<boot, target, look, skipped, found, cwd>>
fvars  == <<phase, inputs, opened, want, buf>>

c == boot.c

-----------------------------------------------------------------------------
(***************************************************************************)
(* The file system: boot.fs gives the kind of each file, a sequence of     *)
(* component names.                                                        *)
(***************************************************************************)
NoFile == <<<<>>>>
Initrd == <<InitrdPath>>

Components(path) ==
  LET Named(n) == n \notin {<<>>, <<".">>} IN SelectSeq(Split(path, "/"), Named)

Kind(f) == IF f \in DOMAIN boot.fs THEN boot.fs[f] ELSE "none"

\* The file a path denotes in directory dir.
FileAt(dir, path) ==
  LET f == IF path # <<>> /\ path[1] = "/" THEN Components(path) ELSE dir \o Components(path)
  IN  IF path = <<>> \/ Kind(f) = "none" \/ (Last(path) = "/" /\ Kind(f) # "dir")
      THEN NoFile ELSE f

\* elfrs_path_is_exec, and elfrs_fd_is_exec where the build enforces it.
is_exec_file(f) == Kind(f) = "exec" \/ (Kind(f) = "plain" /\ ~c.execbit)

-----------------------------------------------------------------------------
\* run returns an error, before there is a stack to write.
Return(ph, e) ==
  /\ phase' = ph /\ Fail(e)
  /\ UNCHANGED <<inputs, opened, want, buf>>

\* resolve does nothing without ENVPATH, for a path, or without a PATH.
SearchPath(t) ==
  IF c.envpath /\ is_bare_name(t.path) THEN getenv(c, boot.env, "P") ELSE {}

SplitCommandLine ==
  /\ phase = "split"
  /\ LET t == split_command_line(c, boot.args)
     IN  \/ t.err # "none" /\ Return("failed", t.err)
         \/ /\ t.err = "none"
            /\ target' = t
            /\ \/ /\ phase' = IF SearchPath(t) = {} THEN "thread" ELSE "lookup"
                  /\ UNCHANGED skipped
               \/ \E path_env \in SearchPath(t) :   \* getenv has no memory: no PATH
                    /\ TRUE \in Oom
                    /\ phase' = "thread" /\ skipped' = DOMAIN Split(path_env, ":")
            /\ UNCHANGED <<vars, boot, look, found, cwd, opened, want, buf>>

\* locate_in_path, one candidate at a time.
LookUp ==
  /\ phase = "lookup"
  /\ \E path_env \in SearchPath(target) :
       LET cands == path_candidates(target.path, path_env)
           f     == FileAt(cwd, cands[look])
       IN  \/ /\ look > Len(cands)
              /\ phase' = "thread" /\ UNCHANGED <<target, look, skipped, found>>
           \/ /\ look <= Len(cands) /\ is_exec_file(f)
              /\ target' = [target EXCEPT !.path = cands[look]]
              /\ found' = f
              /\ phase' = "thread" /\ UNCHANGED <<look, skipped>>
           \/ /\ look <= Len(cands) /\ ~is_exec_file(f)
              /\ look' = look + 1 /\ UNCHANGED <<phase, target, skipped, found>>
           \/ /\ look <= Len(cands) /\ TRUE \in Oom
              /\ look' = look + 1 /\ skipped' = skipped \cup {look}
              /\ UNCHANGED <<phase, target, found>>
  /\ UNCHANGED <<vars, boot, cwd, opened, want, buf>>

\* CString::new of the name, elfrs_thread_create.
MakeThread ==
  /\ phase = "thread"
  /\ \/ TRUE \in Oom /\ Return("failed", "ENOMEM")
     \/ phase' = "chdir" /\ UNCHANGED <<vars, inputs, opened, want, buf>>

ChangeDir ==
  /\ phase = "chdir"
  /\ LET pwd == IF c.envpwd THEN getenv(c, boot.env, "W") ELSE {}
     IN  \/ /\ pwd = {} \/ TRUE \in Oom   \* getenv has no memory: no PWD
            /\ phase' = "open" /\ UNCHANGED <<vars, inputs, opened, want, buf>>
         \/ \E p \in pwd :
              LET d == FileAt(cwd, p)
              IN  \/ Kind(d) # "dir" /\ Return("failed", "ENOENT")
                  \/ TRUE \in Oom /\ Return("failed", "ENOMEM")
                  \/ /\ Kind(d) = "dir" /\ cwd' = d /\ phase' = "open"
                     /\ UNCHANGED <<vars, boot, target, look, skipped, found, opened, want, buf>>

-----------------------------------------------------------------------------
(***************************************************************************)
(* load_program: the openers, and a read it makes.  What it does with the  *)
(* bytes is the subject of Program.                                        *)
(***************************************************************************)
Opens(f) ==
  \E r \in Reads :
    /\ opened' = f /\ want' = r /\ buf' = <<>> /\ phase' = "read"
    /\ UNCHANGED <<vars, inputs>>

\* Mutant: opens the program under its bare name.
OpenNamed ==
  /\ phase = "open" /\ c.vfsexec
  /\ LET f == FileAt(cwd, target.progname)
     IN  \/ f = NoFile /\ Return("refused", "ENOENT")
         \/ f # NoFile /\ c.execbit /\ ~is_exec_file(f) /\ Return("refused", "EACCES")
         \/ f # NoFile /\ (c.execbit => is_exec_file(f)) /\ Opens(f)

\* VfsOpener: File::open and check_exec_bit.
OpenFile ==
  /\ phase = "open" /\ c.vfsexec
  /\ LET f == FileAt(cwd, target.path)
     IN  \/ TRUE \in Oom /\ Return("failed", "ENOMEM")
         \/ f = NoFile /\ Return("refused", "ENOENT")
         \/ f # NoFile /\ c.execbit /\ ~is_exec_file(f) /\ Return("refused", "EACCES")
         \/ f # NoFile /\ (c.execbit => is_exec_file(f)) /\ Opens(f)

\* InitrdOpener, if there is an initrd.
OpenInitrd ==
  /\ phase = "open" /\ ~c.vfsexec
  /\ \/ ~boot.initrd /\ Return("refused", "ENOENT")
     \/ boot.initrd /\ Opens(Initrd)

\* The bytes of the opened file from an offset on.
BytesAt(off, n) == [k \in 1..n |-> [of |-> opened, at |-> off + k - 1]]

\* Mutant: each pread starts at the same offset.
ReadSomeAgain(n) ==
  /\ phase = "read" /\ opened # Initrd /\ Kind(opened) # "dir"
  /\ Len(buf) + n <= want.len /\ want.off + n <= FileLen
  /\ buf' = buf \o BytesAt(want.off, n)
  /\ UNCHANGED <<vars, phase, inputs, opened, want>>

\* File::read_exact_at: one pread, which may return less than was asked.
ReadSome(n) ==
  /\ phase = "read" /\ opened # Initrd /\ Kind(opened) # "dir"
  /\ Len(buf) + n <= want.len /\ want.off + Len(buf) + n <= FileLen
  /\ buf' = buf \o BytesAt(want.off + Len(buf), n)
  /\ UNCHANGED <<vars, phase, inputs, opened, want>>

\* pread returns 0 at the end of the file, or fails.
ReadEnds ==
  /\ phase = "read" /\ opened # Initrd
  /\ Len(buf) < want.len
  /\ \/ want.off + Len(buf) >= FileLen /\ Return("failed", "ENOEXEC")
     \/ Return("failed", "EIO")

\* MemImage::read_exact_at.
ReadMem ==
  /\ phase = "read" /\ opened = Initrd /\ buf = <<>> /\ want.len > 0
  /\ \/ want.off + want.len > FileLen /\ Return("failed", "ENOEXEC")
     \/ /\ want.off + want.len <= FileLen
        /\ buf' = BytesAt(want.off, want.len)
        /\ UNCHANGED <<vars, phase, inputs, opened, want>>

\* The read is complete, and load_program succeeds or fails for its reasons.
FinishLoad ==
  /\ phase = "read" /\ Len(buf) = want.len
  /\ \/ phase' = "build" /\ UNCHANGED <<vars, inputs, opened, want, buf>>
     \/ Return("failed", "ENOEXEC")

-----------------------------------------------------------------------------
(***************************************************************************)
(* build_stack is given the stack of the thread, argv, and environ.        *)
(***************************************************************************)
Str(s) == [id |-> s, len |-> Len(s)]
Strs(ss) == [i \in DOMAIN ss |-> Str(ss[i])]

Request(g, y) ==
  [bottom |-> g.bottom, top |-> g.top,
   argv |-> Strs(<<target.progname>> \o target.rest),
   envp |-> Strs(environ(c, boot.env)),
   platform |-> y.platform, execfn |-> Str(target.path), aux |-> y.aux]

PrepareStack ==
  /\ phase = "build"
  /\ \E g \in Stacks :
       \/ g.top <= g.bottom /\ Return("failed", "EINVAL")
       \/ g.top > g.bottom /\ TRUE \in Oom /\ Return("failed", "ENOMEM")
       \/ /\ g.top > g.bottom
          /\ \E y \in Systems : Start(Request(g, y))
          /\ phase' = "stack" /\ UNCHANGED <<inputs, opened, want, buf>>

AppInit ==
  /\ Init
  /\ boot \in Boots
  /\ phase = "split"
  /\ target = NoTarget("none")
  /\ look = 1 /\ skipped = {} /\ found = NoFile
  /\ cwd = <<>>
  /\ opened = NoFile /\ want = [off |-> 0, len |-> 0] /\ buf = <<>>

AppNext ==
  \/ SplitCommandLine \/ LookUp \/ MakeThread \/ ChangeDir
  \/ OpenFile \/ OpenInitrd \/ ReadEnds \/ ReadMem \/ FinishLoad
  \/ \E n \in 1..want.len : ReadSome(n)
  \/ PrepareStack
  \/ phase = "stack" /\ BuildStep /\ UNCHANGED fvars

AppSpec == AppInit /\ [][AppNext]_<<vars, fvars>>

-----------------------------------------------------------------------------
(***************************************************************************)
(* Properties.                                                             *)
(***************************************************************************)
\* b is the last component of a path: free of slashes, after a slash or at the
\* start, with nothing but slashes behind it; empty only if all are slashes.
LastComponent(path, b) ==
  \E i \in 1..(Len(path) + 1), j \in 0..Len(path) :
    /\ b = SubSeq(path, i, j) /\ ~Contains(b, "/")
    /\ i = 1 \/ path[i - 1] = "/"
    /\ \A k \in DOMAIN path : k > j => path[k] = "/"
    /\ b = <<>> => \A k \in DOMAIN path : path[k] = "/"

\* A program entered on the stack that run built reads there what the command
\* line says: its arguments without the name of the kernel (and without its
\* own path under CUSTOMAPPNAME), the last component of its path as argv[0],
\* the whole environment, and an AT_EXECFN that, in the directory it starts
\* in, is the path of the file it was loaded from.
ProgramSeesCommandLine ==
  stage = "done" =>
    LET args == boot.args
        drop == IF c.customappname THEN 2 ELSE 1
        argc == 1 + Len(args) - drop
    IN  /\ HasWord(sp, argc)
        /\ \E a0 \in SubSeqs(target.path) \cup {args[drop]} :
             /\ IF c.vfsexec THEN LastComponent(target.path, a0) ELSE a0 = args[drop]
             /\ HasStrings(sp + WordBytes, <<Str(a0)>> \o Strs(From(args, drop + 1)))
        /\ HasStrings(sp + (2 + argc) * WordBytes, Strs(environ(c, boot.env)))
        /\ Holds(auxv_value(sp, AT_EXECFN), CStr(Str(target.path)))
        /\ c.vfsexec => FileAt(cwd, target.path) = opened

\* The elements of PATH, the directory each names to a shell, and those in
\* which the lookup could see an executable called name.
Elements(path_env) == Split(path_env, ":")
ElementDir(e) == IF e = <<>> THEN <<>> ELSE FileAt(<<>>, e \o <<"/">>)
Hits(path_env, name) ==
  {i \in DOMAIN Elements(path_env) \ skipped :
     /\ ElementDir(Elements(path_env)[i]) # NoFile
     /\ is_exec_file(Append(ElementDir(Elements(path_env)[i]), name))}

\* The lookup is that of execvp(3): a bare name is the file of that name in the
\* first element of PATH that has it as an executable, an empty element being
\* the current directory, and is left as it is when no element has it.
LookupIsExecvp ==
  phase \notin {"split", "lookup"} /\ target.err = "none" =>
    LET name == boot.args[2]
        pe   == IF c.envpath /\ is_bare_name(name) THEN getenv(c, boot.env, "P") ELSE {}
    IN  /\ pe = {} => found = NoFile
        /\ \A p \in pe :
             IF Hits(p, name) = {} THEN found = NoFile /\ target.path = name
             ELSE found = Append(ElementDir(Elements(p)[Min(Hits(p, name))]), name)

\* The file that is opened is the one the lookup found, and its executable bit
\* is not refused then, although run changes the directory in between: for an
\* absolute path, and where $PWD is the directory of the lookup.
FoundIsOpened ==
  found # NoFile /\ (target.path[1] = "/" \/ cwd = <<>>) =>
    phase # "refused" /\ opened \in {NoFile, found}

\* However short the reads of the file system, what read_exact_at returns is
\* the range it was asked for, and it reports a truncated file only if the
\* file ends within that range.
ReadsWhatItAsked ==
  /\ phase \in {"build", "stack"} => buf = BytesAt(want.off, want.len)
  /\ phase = "failed" /\ err = "ENOEXEC" /\ Len(buf) < want.len => want.off + want.len > FileLen
=============================================================================
