------------------------------ MODULE Autogen -------------------------------
(***************************************************************************)
(* autogen/etc.c and autogen/conffile.c: before main runs, gen_etc writes  *)
(* /etc/resolv.conf, /etc/hosts and /etc/hostname from what the network    *)
(* devices know.  Each action is one system call with the work around it.  *)
(* A text is its parts and its length; a byte of it is the text and an     *)
(* index.                                                                  *)
(***************************************************************************)
EXTENDS Integers, SequencesExt

CONSTANTS
  DeviceLists,  \* sequences of devices the system may have
  Policies,     \* subset of {"error", "skip", "replace"}: AUTOGEN_*EXIST
  Buf,          \* the buffer of cf_nprintf
  NoInfo        \* uk_netdev_einfo_get returned NULL or an empty string

ASSUME AutogenAssumption ==
  /\ Policies \subseteq {"error", "skip", "replace"}
  /\ Buf \in Nat \ {0}

VARIABLES
  devs,      \* the network devices
  policy,    \* what the build does with files that exist
  etc,       \* /etc: "none", "dir" or "file"
  kind,      \* each file: "none", "regular" or "special"
  content,   \* its bytes
  at,        \* the system call gen_etc comes to next
  file,      \* index of the file it generates
  todo,      \* texts still to be written to it
  off,       \* bytes of the first of them already written
  open,      \* whether a descriptor is open
  rc         \* why gen_etc stops, "none" if for no error

disk == <<etc, kind, content>>
vars == <<devs, policy, disk, at, file, todo, off, open, rc>>

Files == <<"resolv.conf", "hosts", "hostname">>
Paths == Range(Files)
this  == Files[file]

-----------------------------------------------------------------------------
(***************************************************************************)
(* What is written.                                                        *)
(***************************************************************************)
\* A text of one constant part and some values, formatted or copied.
Text(head, vals, formatted) ==
  [head |-> head, vals |-> vals, formatted |-> formatted,
   len |-> FoldLeft(LAMBDA n, v : n + v.len, 1, vals)]

When(c, s) == IF c THEN s ELSE <<>>

\* The loop over the devices, given the texts each of them contributes.
PerDevice(lines) == FlattenSeq([i \in DOMAIN devs |-> lines[devs[i]]])

\* uk_netdev_find_einfo: the first device that has the property.
find_einfo(prop) ==
  LET having == SelectSeq(devs, LAMBDA d : d[prop] # NoInfo)
  IN  IF having = <<>> THEN NoInfo ELSE Head(having)[prop]

\* uk_netdev_ip4addr_get.
ip4addr_get(d) ==
  IF d.cidr # NoInfo /\ d.cidr.slash /\ d.cidr.chars \in 7..16 THEN d.cidr.ip ELSE d.addr

gen_etc_resolvconf ==
  LET nameserver(v) == When(v # NoInfo, <<Text("nameserver", <<v>>, TRUE)>>)
      domain == find_einfo("domain")
  IN  PerDevice([d \in Range(devs) |-> nameserver(d.dns0) \o nameserver(d.dns1)])
      \o When(domain # NoInfo,
           <<Text("search", <<>>, FALSE)>>
           \o PerDevice([d \in Range(devs) |->
                When(d.domain # NoInfo, <<Text("", <<d.domain>>, TRUE)>>)])
           \o <<Text("eol", <<>>, FALSE), Text("domain", <<domain>>, TRUE)>>)

gen_etc_hosts ==
  <<Text("localhost", <<>>, FALSE)>>
  \o PerDevice([d \in Range(devs) |->
       When(ip4addr_get(d) # NoInfo /\ d.hostname # NoInfo,
         <<Text("host", <<ip4addr_get(d), d.hostname>>
                        \o When(d.domain # NoInfo, <<d.hostname, d.domain>>), TRUE)>>)])

gen_etc_hostname ==
  When(find_einfo("hostname") # NoInfo, <<Text("", <<find_einfo("hostname")>>, TRUE)>>)

Script(f) == CASE f = "resolv.conf" -> gen_etc_resolvconf
               [] f = "hosts"       -> gen_etc_hosts
               [] f = "hostname"    -> gen_etc_hostname

\* Without a hostname /etc/hostname is not touched.
Wanted(f) == f = "hostname" => Script(f) # <<>>

Byte(t, k) == [text |-> t, at |-> k]
Garbage == Byte(Text("garbage", <<>>, FALSE), 0)

\* Byte k of the memory handed to cf_write: cf_vnprintf passes on the length of
\* the whole text, also when the buffer holds only its start.
Handed(t, k) == IF t.formatted /\ k >= Buf THEN Garbage ELSE Byte(t, k)

-----------------------------------------------------------------------------
Stop(e) == at' = "done" /\ rc' = e /\ UNCHANGED file


\* A gen_etc_* function returned 0.
NextFile ==
  IF file = Len(Files) THEN Stop("none")
                       ELSE at' = "create" /\ file' = file + 1 /\ UNCHANGED rc

\* cf_mkdir: stat, then mkdir if nothing is there.
Mkdir ==
  /\ at = "mkdir"
  /\ \/ /\ etc = "dir"
        /\ at' = "create" /\ UNCHANGED <<etc, file, rc>>
     \/ /\ etc = "none"
        /\ etc' = "dir" /\ at' = "create" /\ UNCHANGED <<file, rc>>
     \/ /\ etc = "file"
        /\ Stop("ENOTDIR") /\ UNCHANGED etc
     \/ Stop("EIO") /\ UNCHANGED etc
  /\ UNCHANGED <<devs, policy, kind, content, todo, off, open>>

\* cf_create up to open with O_TRUNC.
Truncate ==
  \/ /\ kind' = [kind EXCEPT ![this] = "regular"]
     /\ content' = [content EXCEPT ![this] = <<>>]
     /\ open' = TRUE /\ at' = "chmod" /\ UNCHANGED <<file, rc>>
  \/ Stop("EIO") /\ UNCHANGED <<kind, content, open>>


Create ==
  /\ at = "create"
  /\ \/ /\ ~Wanted(this)
        /\ NextFile /\ UNCHANGED <<kind, content, open>>
     \/ /\ Wanted(this) /\ kind[this] # "none" /\ policy # "replace"
        /\ IF policy = "skip" THEN NextFile ELSE Stop("EEXIST")
        /\ UNCHANGED <<kind, content, open>>
     \/ /\ Wanted(this) /\ kind[this] = "special" /\ policy = "replace"
        /\ Stop("ENOENT") /\ UNCHANGED <<kind, content, open>>
     \/ /\ Wanted(this)
        /\ kind[this] = "none" \/ (kind[this] = "regular" /\ policy = "replace")
        /\ Truncate
  /\ UNCHANGED <<devs, policy, etc, todo, off>>

\* When chmod fails cf_create returns the error, and the descriptor with nobody.
Chmod ==
  /\ at = "chmod"
  /\ \/ /\ at' = "write" /\ todo' = Script(this) /\ off' = 0 /\ UNCHANGED <<file, rc>>
     \/ Stop("chmod") /\ UNCHANGED <<todo, off>>
  /\ UNCHANGED <<devs, policy, disk, open>>

\* Mutant: a short write is taken for a whole one.
WriteOnce ==
  /\ at = "write" /\ todo # <<>>
  /\ \E n \in 1..(Head(todo).len - off) :
       content' = [content EXCEPT ![this] = @ \o [k \in 1..n |-> Handed(Head(todo), off + k)]]
  /\ todo' = Tail(todo) /\ off' = 0
  /\ UNCHANGED <<devs, policy, etc, kind, at, file, open, rc>>

\* cf_write: one write that takes n bytes.  A write that takes none, or is
\* interrupted, is made again and changes nothing.
Write ==
  /\ at = "write" /\ todo # <<>>
  /\ \E n \in 1..(Head(todo).len - off) :
       /\ content' = [content EXCEPT ![this] = @ \o [k \in 1..n |-> Handed(Head(todo), off + k)]]
       /\ IF off + n = Head(todo).len THEN todo' = Tail(todo) /\ off' = 0
                                      ELSE UNCHANGED todo /\ off' = off + n
  /\ UNCHANGED <<devs, policy, etc, kind, at, file, open, rc>>

\* Mutant: an error returns at once.
WriteFailsOpen ==
  /\ at = "write" /\ todo # <<>>
  /\ Stop("EIO")
  /\ UNCHANGED <<devs, policy, disk, todo, off, open>>

\* Any other error of write goes to out.
WriteFails ==
  /\ at = "write" /\ todo # <<>>
  /\ at' = "close" /\ rc' = "EIO"
  /\ UNCHANGED <<devs, policy, disk, file, todo, off, open>>

Close ==
  /\ at = "close" \/ (at = "write" /\ todo = <<>>)
  /\ open' = FALSE
  /\ IF at = "close" THEN Stop(rc) ELSE NextFile
  /\ UNCHANGED <<devs, policy, disk, todo, off>>

-----------------------------------------------------------------------------
\* What a file held before.
Old == <<Byte(Text("old", <<>>, FALSE), 1)>>

Init ==
  /\ devs \in DeviceLists
  /\ policy \in Policies
  /\ etc \in {"none", "dir", "file"}
  /\ kind \in [Paths -> {"none", "regular", "special"}]
  /\ etc # "dir" => \A f \in Paths : kind[f] = "none"
  /\ content = [f \in Paths |-> IF kind[f] = "regular" THEN Old ELSE <<>>]
  /\ at = "mkdir" /\ file = 1 /\ todo = <<>> /\ off = 0
  /\ open = FALSE /\ rc = "none"

Next == Mkdir \/ Create \/ Chmod \/ Write \/ WriteFails \/ Close

Spec == Init /\ [][Next]_vars

\* The initcall runs on its own, and the file system takes a byte in the end.
FairSpec == Spec /\ WF_vars(Next)

-----------------------------------------------------------------------------
(***************************************************************************)
(* Properties.                                                             *)
(***************************************************************************)
Whole(f) ==
  FoldLeft(LAMBDA s, t : s \o [k \in 1..t.len |-> Byte(t, k)], <<>>, Script(f))


\* Whatever fails in between, a file that was begun holds a prefix of its texts:
\* no byte is lost, written twice or out of order.
NeverTwice == \A f \in Paths : IsPrefix(content[f], Whole(f)) \/ content[f] = Old


\* gen_etc closes what it opened, on success and when a write fails.
DescriptorClosed == at = "done" /\ rc # "chmod" => ~open

=============================================================================
