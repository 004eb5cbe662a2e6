---------------------------- MODULE CommandLine ----------------------------
(***************************************************************************)
(* rust/src/util.rs, and the parts of rust/src/app.rs and sys.rs that only *)
(* compute: what the command line, the build and the environment say to    *)
(* run.  A string is a sequence of characters; paths are taken apart and   *)
(* put together here, so their characters matter.                          *)
(***************************************************************************)
EXTENDS Integers, SequencesExt

IsSlash(ch)  == ch = "/"
NotSlash(ch) == ch # "/"

\* Mutant: what is behind the first slash.
basename_first(path) == SubSeq(path, SelectInSeq(path, IsSlash) + 1, Len(path))

basename(path) ==
  LET stripped == SubSeq(path, 1, SelectLastInSeq(path, NotSlash))
  IN  SubSeq(stripped, SelectLastInSeq(stripped, IsSlash) + 1, Len(stripped))

is_bare_name(name) == name # <<>> /\ name[1] \notin {"/", "."} /\ ~Contains(name, "/")

\* slice::split: the pieces between separators, one more than there are.
Split(s, sep) ==
  LET cuts == SetToSortSeq({i \in DOMAIN s : s[i] = sep} \cup {0, Len(s) + 1}, <)
  IN  [i \in 1..(Len(cuts) - 1) |-> SubSeq(s, cuts[i] + 1, cuts[i + 1] - 1)]

candidate(name, dir) ==
  LET d == IF dir = <<>> THEN <<".">> ELSE dir
  IN  (IF Last(d) = "/" THEN d ELSE Append(d, "/")) \o name

\* Mutant: empty elements are left out.
path_candidates_named(name, path_env) ==
  LET Named(dir) == dir # <<>>
      dirs       == SelectSeq(Split(path_env, ":"), Named)
  IN  [i \in DOMAIN dirs |-> candidate(name, dirs[i])]

\* Candidates for name in each element of a colon-separated search path.
path_candidates(name, path_env) ==
  LET dirs == Split(path_env, ":") IN [i \in DOMAIN dirs |-> candidate(name, dirs[i])]

-----------------------------------------------------------------------------
(***************************************************************************)
(* split_command_line under a configuration c: a Target, or EINVAL.        *)
(***************************************************************************)
InitrdPath == <<"<", "i", ">">>

Target(path, progname, rest) ==
  [err |-> "none", path |-> path, progname |-> progname, rest |-> rest]

NoTarget(e) == [Target(<<>>, <<>>, <<>>) EXCEPT !.err = e]

\* args[from..], empty when there is nothing from there on.
From(args, from) == SubSeq(args, from, Len(args))

split_command_line(c, args) ==
  CASE c.customappname /\ Len(args) < 2 -> NoTarget("EINVAL")
    [] c.customappname /\ Len(args) >= 2 /\ c.vfsexec ->
         Target(args[2], basename(args[2]), From(args, 3))
    [] c.customappname /\ Len(args) >= 2 /\ ~c.vfsexec ->
         Target(InitrdPath, args[2], From(args, 3))
    [] ~c.customappname /\ args = <<>> -> NoTarget("EINVAL")
    [] ~c.customappname /\ args # <<>> /\ ~c.vfsexec ->
         Target(InitrdPath, args[1], From(args, 2))
    [] ~c.customappname /\ args # <<>> /\ c.vfsexec ->
         IF c.vfsexec_path = <<>> THEN NoTarget("EINVAL")
         ELSE Target(c.vfsexec_path, basename(c.vfsexec_path), From(args, 2))

-----------------------------------------------------------------------------
(***************************************************************************)
(* The environment: a sequence of [name, value] records.                   *)
(***************************************************************************)
EnvString(e) == <<e.name, "=">> \o e.value

environ(c, env) ==
  IF c.have_environ THEN [i \in DOMAIN env |-> EnvString(env[i])] ELSE <<>>

\* The values of a variable: none, or that of its first entry.
getenv(c, env, name) ==
  LET hits == {i \in DOMAIN env : env[i].name = name}
  IN  IF c.have_environ /\ hits # {} THEN {env[Min(hits)].value} ELSE {}
=============================================================================
