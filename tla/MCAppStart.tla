----------------------------- MODULE MCAppStart -----------------------------
(***************************************************************************)
(* Command lines, environments and file systems over two names, and stacks *)
(* of up to 100 bytes for words of 2 bytes, around the sizes at which each *)
(* push stops fitting.                                                     *)
(***************************************************************************)
EXTENDS AppStart

CONSTANTS Sizes

A == <<"a">>
B == <<"b">>

\* Two builds that load from the VFS with and without CUSTOMAPPNAME, one
\* without the executable bit, one without PATH, and the initrd builds.
Full == [vfsexec |-> TRUE, customappname |-> TRUE, envpath |-> TRUE, envpwd |-> TRUE,
         execbit |-> TRUE, have_environ |-> TRUE, vfsexec_path |-> <<>>]

CustomBuilds == {Full, [Full EXCEPT !.execbit = FALSE],
                 [Full EXCEPT !.envpath = FALSE, !.envpwd = FALSE, !.have_environ = FALSE]}

PathBuilds == {[Full EXCEPT !.customappname = FALSE, !.envpath = FALSE, !.vfsexec_path = p] :
                 p \in {<<>>, <<"/", "b", "/", "a">>}}

InitrdBuilds == {[Full EXCEPT !.vfsexec = FALSE, !.customappname = n, !.envpath = FALSE,
                              !.envpwd = FALSE] : n \in BOOLEAN}

Root(b, ba) == (<<>> :> "dir") @@ (<<A>> :> b) @@ (<<B>> :> "dir") @@ (<<B, A>> :> ba)

Programs == {A, <<"/", "b", "/", "a">>, <<"b", "/">>, <<"/", "a", "/">>, <<"/">>}

Paths == {<<":", "b">>, <<"b", ":">>, <<"/", "b", "/">>, <<>>}

Env(p, w) == <<[name |-> "P", value |-> p]>> \o w

Pwd == {<<>>, <<[name |-> "W", value |-> <<"b">>]>>, <<[name |-> "W", value |-> A]>>}

Boot(b, args, env, fs, initrd) ==
  [c |-> b, args |-> args, env |-> env, fs |-> fs, initrd |-> initrd]

K == <<"k">>
Rests == {<<>>, <<A, <<>>>>}

MCBoots ==
  {Boot(b, <<K, n>> \o r, Env(p, w), Root(k[1], k[2]), FALSE) :
     b \in CustomBuilds, n \in Programs, r \in Rests, p \in Paths, w \in Pwd,
     k \in {<<"exec", "plain">>, <<"plain", "exec">>, <<"dir", "exec">>, <<"exec", "exec">>}}
  \cup
  {Boot(b, a, <<>>, Root("exec", "exec"), i) :
     b \in PathBuilds \cup InitrdBuilds, a \in {<<>>, <<K>>, <<K, A>>, <<K, A, B>>}, i \in BOOLEAN}

MCStacks == {[bottom |-> 4, top |-> 4 + n] : n \in Sizes} \cup {[bottom |-> 1, top |-> 60]}

MCSystems ==
  {[platform |-> [id |-> <<"p">>, len |-> 2],
    aux |-> [plain |-> <<<<6, 4>>, <<7, 40>>, <<9, 44>>>>, phdr |-> 48, phent |-> 1, phnum |-> 2,
             sysinfo_ehdr |-> 60, minsigstksz |-> None]],
   [platform |-> [id |-> <<"p">>, len |-> 0],
    aux |-> [plain |-> <<<<6, 4>>>>, phdr |-> None, phent |-> 1, phnum |-> 2,
             sysinfo_ehdr |-> None, minsigstksz |-> 8]]}

MCReads == {[off |-> 0, len |-> 3], [off |-> 2, len |-> 2], [off |-> 4, len |-> 1]}
=============================================================================
