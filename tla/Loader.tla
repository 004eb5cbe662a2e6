------------------------------- MODULE Loader -------------------------------
(***************************************************************************)
(* rust/src/loader.rs: loads running one Vm call at a time in an address   *)
(* space they share with each other and with unrelated threads.  A job is  *)
(* one caller of load: the program or the interpreter of one process.      *)
(* Each action is one call on the Vm trait with the local work around it;  *)
(* between two calls anything else may run, since the calls can block.     *)
(***************************************************************************)
EXTENDS Layout, FiniteSets

CONSTANTS
  Jobs,             \* loads that may run at the same time
  Others,           \* unrelated threads that mmap and munmap
  Nobody,           \* the owner of a free byte
  Sources,          \* what can be loaded: [name, image, size] records
  Fds,              \* whether a source comes with a descriptor: a set of BOOLEANs
  HaveMmap,         \* Vm::can_map_files
  MmapLo, MmapTop,  \* mmap places in MmapLo..MmapTop-1
  HeapLo, HeapTop,  \* memalign allocates in HeapLo..HeapTop-1
  CopyChunk,        \* COPY_CHUNK
  OtherLens,        \* lengths the unrelated threads map
  Faults,           \* the calls that may fail for no visible reason
  MaxLoads          \* bound: loads per job

MmapSpace == MmapLo..(MmapTop - 1)
HeapSpace == HeapLo..(HeapTop - 1)
Space     == MmapSpace \cup HeapSpace

ASSUME LoaderAssumption ==
  /\ MmapLo \in Nat \ {0} /\ MmapTop \in Word
  /\ HeapLo \in Nat \ {0} /\ HeapTop \in Word
  /\ MmapSpace \cap HeapSpace = {}
  /\ CopyChunk \in Nat \ {0}
  /\ OtherLens \subseteq Nat \ {0}
  /\ Jobs \cap Others = {} /\ Nobody \notin Jobs \cup Others
  /\ HaveMmap \in BOOLEAN /\ Fds \subseteq BOOLEAN
  /\ MaxLoads \in Nat
  /\ Sources # {}
  /\ \A s \in Sources : ValidImage(s.image) /\ s.size \in Nat

VARIABLES
  own,       \* who mapped or allocated each byte: Nobody, a job or another thread
  prot,      \* rights on each byte
  val,       \* contents of each byte
  dirty,     \* bytes stored since instruction fetch was last synchronised
  pc,        \* where each load is
  src,       \* what each job loads
  raw,       \* address the system returned for the reservation
  loaded,    \* the Loaded value, from the moment the plan exists
  seg,       \* segment a fill loop is at
  done,      \* bytes of the segment the copy loop has copied
  loads,     \* loads each job has started
  err        \* the error a load returns, "none" while there is none

vmvars == <<own, prot, val, dirty>>
locals == <<src, raw, loaded, seg, done, loads, err>>
vars   == <<vmvars, pc, locals>>

-----------------------------------------------------------------------------
(***************************************************************************)
(* The address space: mmap, munmap and mprotect as elfrs_map, elfrs_unmap  *)
(* and elfrs_protect use them, and the heap behind elfrs_memalign.         *)
(***************************************************************************)
Bytes(addr, len) == addr..(addr + len - 1)

\* Contents of a byte: a byte of a file, zero, whatever was there before, or
\* a page past the end of its file.
Zero   == [of |-> "zero", at |-> 0]
Junk   == [of |-> "junk", at |-> 0]
Absent == [of |-> "absent", at |-> 0]

FileByte(s, o) == CASE o < s.size -> [of |-> s.name, at |-> o]
                    [] s.size <= o /\ o - (o % PageSize) < s.size -> Zero
                    [] OTHER -> Absent

Free(addr, len) ==
  Bytes(addr, len) \subseteq MmapSpace /\ \A x \in Bytes(addr, len) : own[x] = Nobody

\* mmap without MAP_FIXED may return any free range of whole pages.
Anywhere(len) == {a \in MmapSpace : len > 0 /\ a % PageSize = 0 /\ Free(a, len)}

\* Mutant: a hint treated as MAP_FIXED.
HintForced(addr, len) == IF addr # 0 THEN {addr} ELSE Anywhere(len)

\* Where::Hint: taken if free.  elfrs_map cannot tell a hint of 0 from none.
Hint(addr, len) ==
  IF addr # 0 /\ len > 0 /\ Free(addr, len) THEN {addr} ELSE Anywhere(len)

\* Mutant: MAP_FIXED forgotten.
ExactAsHint(addr, len) == Hint(addr, len)

\* Where::Exact: MAP_FIXED, which elfrs_map asks for only at a nonzero address.
Exact(addr, len) == IF addr # 0 THEN {addr} ELSE Anywhere(len)

Owned(x) == {a \in Space : own[a] = x}

SetOwn(B, x) == own' = [a \in Space |-> IF a \in B THEN x ELSE own[a]]

SetProt(B, p) == prot' = [a \in Space |-> IF a \in B THEN p ELSE prot[a]]

\* Install a mapping whose byte a holds content[a].
Map(B, x, p, content) ==
  /\ SetOwn(B, x)
  /\ SetProt(B, p)
  /\ val' = [a \in Space |-> IF a \in B THEN content[a] ELSE val[a]]
  /\ dirty' = dirty \ B

MapAnon(B, x, p) == Map(B, x, p, [a \in B |-> Zero])

Unmap(B) == Map(B, Nobody, {}, [a \in B |-> Junk])

\* A store by the loader: it traps on a byte it may not write.
Writable(B) == \A a \in B : a \in Space /\ "W" \in prot[a]

Store(B, content) ==
  /\ val' = [a \in Space |-> IF a \in B THEN content[a] ELSE val[a]]
  /\ dirty' = dirty \cup B
  /\ UNCHANGED <<own, prot>>

-----------------------------------------------------------------------------
(***************************************************************************)
(* Local views of a job.                                                   *)
(***************************************************************************)
NotLoaded == [allocated |-> FALSE, plan |-> [err |-> "unplanned"]]

image(j) == src[j].image
thePlan(j) == loaded[j].plan
theSeg(j) == thePlan(j).segments[seg[j]]
reserved(j) == IF image(j).e_type = "DYN" THEN reservation_len(image(j)) ELSE span(image(j))
vaddr(j) == theSeg(j).ph.p_vaddr + thePlan(j).bias
lastSeg(j) == seg[j] = Len(thePlan(j).segments)

Goto(j, l) == pc' = [pc EXCEPT ![j] = l]

SetErr(j, e) == err' = [err EXCEPT ![j] = e]

\* Mutant: the index of the next loop starts at 0.
NextSegFromZero(j, first, l) ==
  /\ seg' = [seg EXCEPT ![j] = IF lastSeg(j) THEN 0 ELSE @ + 1]
  /\ Goto(j, IF lastSeg(j) THEN l ELSE first)

\* Mutant: the loop starts over after its last segment.
NextSegWraps(j, first, l) ==
  /\ seg' = [seg EXCEPT ![j] = IF lastSeg(j) THEN 1 ELSE @ + 1]
  /\ Goto(j, first)

\* The fill loop moves on to the next segment, or to l when it is through.
NextSeg(j, first, l) ==
  /\ seg' = [seg EXCEPT ![j] = IF lastSeg(j) THEN 1 ELSE @ + 1]
  /\ Goto(j, IF lastSeg(j) THEN l ELSE first)

-----------------------------------------------------------------------------
(***************************************************************************)
(* load: the choice between the two paths, and their first checks.         *)
(***************************************************************************)
Load(j, s, fd) ==
  /\ pc[j] = "idle"
  /\ loads[j] < MaxLoads
  /\ loads' = [loads EXCEPT ![j] = @ + 1]
  /\ src' = [src EXCEPT ![j] = s]
  /\ \/ /\ HaveMmap /\ fd
        /\ reservation_len(s.image) # None
        /\ Goto(j, "reserve") /\ SetErr(j, "none")
     \/ /\ ~(HaveMmap /\ fd)
        /\ s.image.e_type = "DYN" /\ reservation_len(s.image) # None
        /\ Goto(j, "alloc") /\ SetErr(j, "none")
     \/ /\ ~(HaveMmap /\ fd)
        /\ s.image.e_type # "DYN"
        /\ Goto(j, "failed") /\ SetErr(j, "ENOTSUP")
     \/ /\ (HaveMmap /\ fd) \/ s.image.e_type = "DYN"
        /\ reservation_len(s.image) = None
        /\ Goto(j, "failed") /\ SetErr(j, "ENOEXEC")
  /\ UNCHANGED <<vmvars, raw, loaded, seg, done>>

-----------------------------------------------------------------------------
(***************************************************************************)
(* load_mapped: reserve, plan, fill in place.                              *)
(***************************************************************************)
Reserve(j) ==
  /\ pc[j] = "reserve"
  /\ \E got \in IF image(j).e_type = "DYN" THEN Anywhere(reserved(j))
                                           ELSE Hint(va_lo(image(j)), reserved(j)) :
       /\ MapAnon(Bytes(got, reserved(j)), j, {})
       /\ raw' = [raw EXCEPT ![j] = got]
       /\ Goto(j, IF image(j).e_type = "DYN" \/ got = va_lo(image(j))
                  THEN "plan" ELSE "misplaced")
  /\ UNCHANGED <<src, loaded, seg, done, loads, err>>

\* mmap or memalign finds no room, or fails for another reason.
ReserveFails(j) ==
  /\ pc[j] \in {"reserve", "alloc"}
  /\ Goto(j, "failed") /\ SetErr(j, "ENOMEM")
  /\ UNCHANGED <<vmvars, src, raw, loaded, seg, done, loads>>

\* Mutant: the misplaced range is not given back.
MisplacedKept(j) ==
  /\ pc[j] = "misplaced"
  /\ Goto(j, "failed") /\ SetErr(j, "ENOMEM")
  /\ UNCHANGED <<vmvars, src, raw, loaded, seg, done, loads>>

\* The hint was not honoured: give the range back and refuse.
Misplaced(j) ==
  /\ pc[j] = "misplaced"
  /\ \/ Unmap(Bytes(raw[j], reserved(j))) /\ Goto(j, "failed")
     \/ "unmap" \in Faults /\ UNCHANGED vmvars /\ Goto(j, "leaked")
  /\ SetErr(j, "ENOMEM")
  /\ UNCHANGED <<src, raw, loaded, seg, done, loads>>

\* layout::plan(...)? returns at once when it fails.
Placement(j) == IF image(j).e_type = "DYN" THEN At(raw[j]) ELSE Fixed

Plan(j) ==
  /\ pc[j] \in {"plan", "cplan"}
  /\ LET p == plan(image(j), Placement(j))
     IN  IF p.err = "none"
         THEN /\ loaded' = [loaded EXCEPT ![j] = [allocated |-> pc[j] = "cplan", plan |-> p]]
              /\ Goto(j, IF pc[j] = "cplan" THEN "copy" ELSE "file")
              /\ UNCHANGED err
         ELSE /\ Goto(j, IF p.err = "panic" THEN "panic" ELSE "failed")
              /\ SetErr(j, "ENOMEM")
              /\ UNCHANGED loaded
  /\ seg' = [seg EXCEPT ![j] = 1]
  /\ done' = [done EXCEPT ![j] = 0]
  /\ UNCHANGED <<vmvars, src, raw, loads>>

MapFile(j) ==
  /\ pc[j] = "file"
  /\ LET f == theSeg(j).file
         p == IF theSeg(j).needs_write_window THEN theSeg(j).prot \cup {"W"}
                                              ELSE theSeg(j).prot
     IN  IF f.len = 0 THEN UNCHANGED vmvars
         ELSE \E got \in Exact(f.addr, f.len) :
                Map(Bytes(got, f.len), j, p,
                    [a \in Bytes(got, f.len) |-> FileByte(src[j], f.off + (a - got))])
  /\ Goto(j, "zero")
  /\ UNCHANGED locals

\* Mutant: the tail of a segment without PF_W is left alone.
ZeroTailWritable(j) ==
  /\ pc[j] = "zero"
  /\ LET B == Bytes(theSeg(j).zero.addr, theSeg(j).zero.len)
     IN  IF ~theSeg(j).needs_write_window THEN Store(B, [a \in B |-> Zero])
                                          ELSE UNCHANGED vmvars
  /\ Goto(j, "anon")
  /\ UNCHANGED locals

ZeroTail(j) ==
  /\ pc[j] = "zero"
  /\ LET B == Bytes(theSeg(j).zero.addr, theSeg(j).zero.len)
     IN  IF Writable(B) THEN Store(B, [a \in B |-> Zero]) /\ Goto(j, "anon")
                        ELSE UNCHANGED vmvars /\ Goto(j, "trap")
  /\ UNCHANGED locals

MapBss(j) ==
  /\ pc[j] = "anon"
  /\ LET b == theSeg(j).anon
     IN  IF b.len = 0 THEN UNCHANGED vmvars
         ELSE \E got \in Exact(b.addr, b.len) :
                MapAnon(Bytes(got, b.len), j, theSeg(j).prot)
  /\ Goto(j, "narrow")
  /\ UNCHANGED locals

\* Mutant: the write window stays open.
NarrowNot(j) ==
  /\ pc[j] = "narrow"
  /\ NextSeg(j, "file", "sync")
  /\ UNCHANGED <<vmvars, src, raw, loaded, done, loads, err>>

Narrow(j) ==
  /\ pc[j] = "narrow"
  /\ LET r == range(theSeg(j))
     IN  IF theSeg(j).needs_write_window
         THEN SetProt(r.start..(r.end - 1), theSeg(j).prot) /\ UNCHANGED <<own, val, dirty>>
         ELSE UNCHANGED vmvars
  /\ NextSeg(j, "file", "sync")
  /\ UNCHANGED <<src, raw, loaded, done, loads, err>>

\* One of the calls of fill_mapped fails: load_mapped unloads.
FillFails(j) ==
  /\ \/ pc[j] = "file" /\ theSeg(j).file.len > 0
     \/ pc[j] = "anon" /\ theSeg(j).anon.len > 0
     \/ pc[j] = "narrow" /\ theSeg(j).needs_write_window
  /\ Goto(j, "undo") /\ SetErr(j, "ENOMEM")
  /\ UNCHANGED <<vmvars, src, raw, loaded, seg, done, loads>>

\* Mutant: cleared tails are not synchronised.
SyncTailsNot(j) ==
  /\ pc[j] = "sync"
  /\ Goto(j, "loaded")
  /\ UNCHANGED <<vmvars, locals>>

SyncTails(j) ==
  /\ pc[j] = "sync"
  /\ dirty' = dirty \ UNION {Bytes(z.zero.addr, z.zero.len) :
                               z \in {thePlan(j).segments[i] :
                                        i \in {k \in DOMAIN thePlan(j).segments :
                                                 is_exec(thePlan(j).segments[k].ph)}}}
  /\ Goto(j, "loaded")
  /\ UNCHANGED <<own, prot, val, locals>>

-----------------------------------------------------------------------------
(***************************************************************************)
(* load_copied: one heap block, filled with read and write.  memalign      *)
(* hands out bytes with the rights and the contents they had.              *)
(***************************************************************************)
Alloc(j) ==
  /\ pc[j] = "alloc"
  /\ \E got \in HeapSpace :
       /\ got % seg_align(image(j)) = 0
       /\ Bytes(got, reserved(j)) \subseteq HeapSpace
       /\ \A x \in Bytes(got, reserved(j)) : own[x] = Nobody
       /\ SetOwn(Bytes(got, reserved(j)), j)
       /\ raw' = [raw EXCEPT ![j] = got]
  /\ Goto(j, "cplan")
  /\ UNCHANGED <<prot, val, dirty, src, loaded, seg, done, loads, err>>

\* The bytes of the file the next round of the copy loop asks for.
Chunk(j) ==
  LET left == theSeg(j).ph.p_filesz - done[j]
      n    == IF CopyChunk < left THEN CopyChunk ELSE left
  IN  Bytes(theSeg(j).ph.p_offset + done[j], n)

InFile(j) == \A o \in Chunk(j) : o < src[j].size

\* One round of the copy loop: read_exact_at, then write.
CopyRound(j) ==
  LET ph == theSeg(j).ph
      B  == {vaddr(j) + (o - ph.p_offset) : o \in Chunk(j)}
  IN  /\ pc[j] = "copy"
      /\ done[j] < ph.p_filesz
      /\ InFile(j)
      /\ IF Writable(B)
         THEN /\ Store(B, [a \in B |-> FileByte(src[j], ph.p_offset + (a - vaddr(j)))])
              /\ done' = [done EXCEPT ![j] = @ + Cardinality(Chunk(j))]
              /\ UNCHANGED pc
         ELSE Goto(j, "trap") /\ UNCHANGED <<vmvars, done>>
      /\ UNCHANGED <<src, raw, loaded, seg, loads, err>>

\* The buffer cannot be had, a read meets the end of the file, or a read
\* fails: load_copied unloads.
CopyFails(j) ==
  /\ pc[j] = "copy"
  /\ \/ seg[j] = 1 /\ done[j] = 0 /\ SetErr(j, "ENOMEM")
     \/ done[j] < theSeg(j).ph.p_filesz /\ ~InFile(j) /\ SetErr(j, "ENOEXEC")
     \/ done[j] < theSeg(j).ph.p_filesz /\ SetErr(j, "EIO")
  /\ Goto(j, "undo")
  /\ UNCHANGED <<vmvars, src, raw, loaded, seg, done, loads>>

\* Mutant: clears up to p_memsz, not to the end of the page.
ZeroRestExact(j) ==
  /\ pc[j] = "copy"
  /\ done[j] = theSeg(j).ph.p_filesz
  /\ LET B == (vaddr(j) + theSeg(j).ph.p_filesz)..(vaddr(j) + theSeg(j).ph.p_memsz - 1)
     IN  IF Writable(B)
         THEN Store(B, [a \in B |-> Zero]) /\ NextSeg(j, "copy", "csync")
         ELSE Goto(j, "trap") /\ UNCHANGED <<vmvars, seg>>
  /\ done' = [done EXCEPT ![j] = 0]
  /\ UNCHANGED <<src, raw, loaded, loads, err>>

ZeroRest(j) ==
  /\ pc[j] = "copy"
  /\ done[j] = theSeg(j).ph.p_filesz
  /\ LET zstart  == vaddr(j) + theSeg(j).ph.p_filesz
         mem_end == align_up(vaddr(j) + theSeg(j).ph.p_memsz, PageSize)
         B       == zstart..(mem_end - 1)
     IN  IF Writable(B)
         THEN Store(B, [a \in B |-> Zero]) /\ NextSeg(j, "copy", "csync")
         ELSE Goto(j, "trap") /\ UNCHANGED <<vmvars, seg>>
  /\ done' = [done EXCEPT ![j] = 0]
  /\ UNCHANGED <<src, raw, loaded, loads, err>>

SyncCode(j) ==
  /\ pc[j] = "csync"
  /\ dirty' = dirty \ UNION {r.start..(r.end - 1) : r \in exec_ranges(thePlan(j))}
  /\ Goto(j, "protect")
  /\ UNCHANGED <<own, prot, val, locals>>

\* A failure here is only logged.
Protect(j) ==
  /\ pc[j] = "protect"
  /\ \/ LET r == range(theSeg(j)) IN SetProt(r.start..(r.end - 1), theSeg(j).prot)
     \/ "protect" \in Faults /\ UNCHANGED prot
  /\ NextSeg(j, "protect", "loaded")
  /\ UNCHANGED <<own, val, dirty, src, raw, loaded, done, loads, err>>

-----------------------------------------------------------------------------
(***************************************************************************)
(* Loaded::unload, on the error path of load and for the caller.  A failed *)
(* munmap is only logged.                                                  *)
(***************************************************************************)
Release(j, l) ==
  LET B == Bytes(thePlan(j).reserve_addr, thePlan(j).reserve_len)
  IN  \/ /\ loaded[j].allocated
         /\ SetOwn(B, Nobody) /\ UNCHANGED <<prot, val, dirty>>
         /\ Goto(j, l)
      \/ /\ ~loaded[j].allocated
         /\ Unmap(B)
         /\ Goto(j, l)
      \/ /\ ~loaded[j].allocated /\ "unmap" \in Faults
         /\ UNCHANGED vmvars
         /\ Goto(j, "leaked")

Undo(j) ==
  /\ pc[j] = "undo"
  /\ Release(j, "failed")
  /\ UNCHANGED locals

Unload(j) ==
  /\ pc[j] = "loaded"
  /\ Release(j, "idle")
  /\ loaded' = [loaded EXCEPT ![j] = NotLoaded]
  /\ raw' = [raw EXCEPT ![j] = None]
  /\ UNCHANGED <<src, seg, done, loads, err>>

-----------------------------------------------------------------------------
(***************************************************************************)
(* Unrelated threads.                                                      *)
(***************************************************************************)
OtherMap(o) ==
  /\ Owned(o) = {}
  /\ \E n \in OtherLens : \E a \in Anywhere(n) : MapAnon(Bytes(a, n), o, {"R", "W"})
  /\ UNCHANGED <<pc, locals>>

OtherUnmap(o) ==
  /\ Owned(o) # {}
  /\ Unmap(Owned(o))
  /\ UNCHANGED <<pc, locals>>

-----------------------------------------------------------------------------
Init ==
  /\ own = [a \in Space |-> Nobody]
  /\ prot = [a \in Space |-> IF a \in HeapSpace THEN {"R", "W"} ELSE {}]
  /\ val = [a \in Space |-> Junk]
  /\ dirty = {}
  /\ pc = [j \in Jobs |-> "idle"]
  /\ src = [j \in Jobs |-> CHOOSE s \in Sources : TRUE]
  /\ raw = [j \in Jobs |-> None]
  /\ loaded = [j \in Jobs |-> NotLoaded]
  /\ seg = [j \in Jobs |-> 1]
  /\ done = [j \in Jobs |-> 0]
  /\ loads = [j \in Jobs |-> 0]
  /\ err = [j \in Jobs |-> "none"]

\* The steps of a load once started.
LoadStep(j) ==
  \/ Reserve(j) \/ ReserveFails(j) \/ Misplaced(j) \/ Plan(j)
  \/ MapFile(j) \/ ZeroTail(j) \/ MapBss(j) \/ Narrow(j) \/ FillFails(j) \/ SyncTails(j)
  \/ Alloc(j) \/ CopyRound(j) \/ CopyFails(j) \/ ZeroRest(j) \/ SyncCode(j) \/ Protect(j)
  \/ Undo(j)

JobStep(j) ==
  \/ \E s \in Sources, fd \in Fds : Load(j, s, fd)
  \/ LoadStep(j)
  \/ Unload(j)

Next ==
  \/ \E j \in Jobs : JobStep(j)
  \/ \E o \in Others : OtherMap(o) \/ OtherUnmap(o)

Spec == Init /\ [][Next]_vars

\* A thread inside load keeps running: none of its steps waits for anyone.
FairSpec == Spec /\ \A j \in Jobs : WF_vars(LoadStep(j))

-----------------------------------------------------------------------------
(***************************************************************************)
(* Properties.                                                             *)
(***************************************************************************)
Labels == {"idle", "reserve", "misplaced", "plan", "file", "zero", "anon", "narrow",
           "sync", "alloc", "cplan", "copy", "csync", "protect", "undo",
           "loaded", "failed", "leaked", "trap", "panic"}

\* Every variable keeps its type.
TypeOK ==
  /\ own \in [Space -> Jobs \cup Others \cup {Nobody}]
  /\ prot \in [Space -> SUBSET Rights]
  /\ DOMAIN val = Space
  /\ dirty \subseteq Space
  /\ pc \in [Jobs -> Labels]
  /\ src \in [Jobs -> Sources]
  /\ raw \in [Jobs -> Space \cup {None}]
  /\ DOMAIN loaded = Jobs
  /\ seg \in [Jobs -> Nat \ {0}]
  /\ done \in [Jobs -> Nat]
  /\ loads \in [Jobs -> 0..MaxLoads]
  /\ err \in [Jobs -> {"none", "ENOEXEC", "ENOTSUP", "ENOMEM", "EIO"}]

Planned == {"file", "zero", "anon", "narrow", "sync",
            "copy", "csync", "protect", "undo", "loaded"}

Holding == Planned \cup {"misplaced", "plan", "cplan"}

HoldsReservation(j) ==
  /\ pc[j] \in Holding => Owned(j) = Bytes(raw[j], reserved(j))
  /\ pc[j] \in {"idle", "reserve", "alloc"} => Owned(j) = {}

\* From the moment the reservation is taken until unload gives it back, a job
\* owns its whole reservation and nothing else: no window in which part of the
\* range is free, and no mapping outside it (load_mapped, load_copied, unload).
ReservationHeld == \A j \in Jobs : HoldsReservation(j)

\* The step is one of job j: each of them moves its position.
Moved(j) == pc'[j] # pc[j] \/ seg'[j] # seg[j] \/ done'[j] # done[j]

\* A step of a load never changes a byte that belongs to another load or to an
\* unrelated thread: neither its owner, nor its rights, nor its contents.
NeverEvicts ==
  [][\A j \in Jobs : Moved(j) =>
       \A x \in Space : own[x] \notin {j, Nobody} =>
          own'[x] = own[x] /\ prot'[x] = prot[x] /\ val'[x] = val[x]]_vars

\* The bytes a loaded program sees are the ones its ELF headers describe: file
\* bytes at their biased addresses, and zero from there to the end of the last
\* page of the segment, on both paths (SegmentPlan, fill_mapped, fill_copied).
ImageMatchesElf ==
  \A j \in Jobs : pc[j] = "loaded" =>
    \A i \in DOMAIN image(j).loads :
      LET ph    == image(j).loads[i]
          start == ph.p_vaddr + thePlan(j).bias
          fend  == start + ph.p_filesz
          mend  == align_up(start + ph.p_memsz, PageSize)
      IN  /\ \A x \in start..(fend - 1) :
               val[x] = [of |-> src[j].name, at |-> ph.p_offset + (x - start)]
          /\ \A x \in fend..(mend - 1) : val[x] = Zero

\* The pages of segment i of job j.
SegPages(j, i) ==
  LET ph    == image(j).loads[i]
      start == ph.p_vaddr + thePlan(j).bias
  IN  align_down(start, PageSize)..(align_up(start + ph.p_memsz, PageSize) - 1)

\* Once an image is loaded through mmap, every page of a segment has exactly
\* the rights of its flags, the write window of a cleared tail is closed, and
\* every other byte of the reservation is inaccessible.
RightsMatchFlags ==
  \A j \in Jobs : pc[j] = "loaded" /\ ~loaded[j].allocated =>
    \A x \in Owned(j) :
      prot[x] = UNION {prot_of(image(j).loads[i]) :
                         i \in {k \in DOMAIN image(j).loads : x \in SegPages(j, k)}}

\* No instruction byte that the loader itself stored is left without an
\* instruction-cache synchronisation after its last store.
CodeVisible ==
  \A j \in Jobs : pc[j] = "loaded" =>
    \A i \in DOMAIN image(j).loads :
      is_exec(image(j).loads[i]) => dirty \cap SegPages(j, i) = {}

\* "Whatever happened, no region may be left behind": a load that returned an
\* error owns nothing.
FailedLoadLeavesNothing == \A j \in Jobs : pc[j] = "failed" => Owned(j) = {}

\* As above, for every failure but that of layout::plan.
FailedFillLeavesNothing ==
  \A j \in Jobs :
    pc[j] = "failed" /\ (raw[j] # None => plan(image(j), Placement(j)).err = "none")
      => Owned(j) = {}

\* The loader only stores to bytes it owns and has made writable.
StoresAreWritable == \A j \in Jobs : pc[j] # "trap"

\* A load that was started ends: with an image, or with an error after its
\* reservation was dealt with; never in a store that traps, but for a heap
\* block that kept the rights of an earlier image (StoresAreWritable).
LoadEnds ==
  \A j \in Jobs :
    pc[j] \notin {"idle", "trap", "panic"} ~>
      \/ pc[j] \in {"loaded", "failed", "leaked", "idle"}
      \/ pc[j] = "trap" /\ loaded[j].allocated

\* Ownership of addresses follows ImageSpace.
Territory == INSTANCE ImageSpace WITH
  Bytes_ <- Space, Holders <- Jobs \cup Others, Vacant <- Nobody, holder <- own

\* The loader implements the abstract promise on addresses.
ImplementsImageSpace == Territory!Spec
=============================================================================
