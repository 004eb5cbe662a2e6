-------------------------- MODULE LoaderFillProofs --------------------------
(***************************************************************************)
(* Each step of fill_mapped and of fill_copied stays inside the reservation. *)
(***************************************************************************)
EXTENDS LoaderFacts, FiniteSetTheorems

-----------------------------------------------------------------------------
(***************************************************************************)
(* load_mapped, after the plan.                                            *)
(***************************************************************************)
\* fill_mapped, the MAP_FIXED mapping of the file part of a segment: it lands on
\* bytes of the reservation only.
LEMMA MapFileSound ==
  ASSUME IInv, NEW j \in Jobs, MapFile(j)
  PROVE  Sound(j)
  <1> DEFINE f == theSeg(j).file
  <1>1. pc[j] \in Planned /\ "zero" \in Planned
    BY DEF MapFile, Planned
  <1>2. seg[j] \in DOMAIN image(j).loads /\ theSeg(j).prot \subseteq Rights
    BY <1>1, PlanLoop
  <1>3. f.addr # 0 /\ Bytes(f.addr, f.len) \subseteq Owned(j)
    BY <1>1, <1>2, PlanOwned DEF theSeg
  <1>4. VmStep(j) /\ own' = own
    <2>1. CASE UNCHANGED vmvars
      BY <2>1, SameLocals, QuietStep DEF vmvars
    <2>2. CASE f.len # 0
      <3> DEFINE p == IF theSeg(j).needs_write_window THEN theSeg(j).prot \cup {"W"}
                                                      ELSE theSeg(j).prot
      <3>1. p \in SUBSET Rights
        BY <1>2 DEF Rights
      <3>2. PICK got \in Exact(f.addr, f.len) :
              Map(Bytes(got, f.len), j, p,
                  [a \in Bytes(got, f.len) |-> FileByte(src[j], f.off + (a - got))])
        BY <2>2, Zenon DEF MapFile
      <3>3. got = f.addr
        BY <1>3 DEF Exact
      <3> HIDE DEF p, f
      <3>4. VmStep(j)
        BY <1>3, <3>1, <3>2, <3>3, SameLocals, RemapStep
      <3>5. own' = own
        BY <1>3, <3>2, <3>3, SameLocals, Keeping DEF Map
      <3> QED
        BY <3>4, <3>5
    <2> QED
      BY <2>1, <2>2 DEF MapFile
  <1> QED
    BY <1>1, <1>2, <1>4, SameLocals, FillStep, Zenon DEF MapFile, Goto, locals

\* fill_mapped, clearing the tail of a segment: it stores into the reservation
\* only.
LEMMA ZeroTailSound ==
  ASSUME IInv, NEW j \in Jobs, ZeroTail(j)
  PROVE  Sound(j)
  <1> DEFINE B == Bytes(theSeg(j).zero.addr, theSeg(j).zero.len)
  <1>1. pc[j] \in Planned /\ "anon" \in Planned
    BY DEF ZeroTail, Planned
  <1>2. seg[j] \in DOMAIN image(j).loads
    BY <1>1, PlanLoop
  <1>3. B \subseteq Owned(j)
    BY <1>1, <1>2, PlanOwned DEF theSeg
  <1>4. CASE Store(B, [a \in B |-> Zero]) /\ Goto(j, "anon")
    <2>1. VmStep(j) /\ own' = own
      BY <1>3, <1>4, SameLocals, StoreStep DEF Store
    <2> QED
      BY <1>1, <1>2, <1>4, <2>1, SameLocals, FillStep, Zenon DEF ZeroTail, Goto, locals
  <1>5. CASE UNCHANGED vmvars /\ Goto(j, "trap")
    <2>1. VmStep(j) /\ own' = own
      BY <1>5, SameLocals, QuietStep DEF vmvars
    <2> QED
      BY <1>1, <1>2, <1>5, <2>1, SameLocals, FillStep, Zenon DEF ZeroTail, Goto, locals
  <1> QED
    BY <1>4, <1>5 DEF ZeroTail

\* fill_mapped, the MAP_FIXED mapping of the zero pages: as MapFileSound.
LEMMA MapBssSound ==
  ASSUME IInv, NEW j \in Jobs, MapBss(j)
  PROVE  Sound(j)
  <1> DEFINE b == theSeg(j).anon
  <1>1. pc[j] \in Planned /\ "narrow" \in Planned
    BY DEF MapBss, Planned
  <1>2. seg[j] \in DOMAIN image(j).loads /\ theSeg(j).prot \in SUBSET Rights
    BY <1>1, PlanLoop
  <1>3. b.addr # 0 /\ Bytes(b.addr, b.len) \subseteq Owned(j)
    BY <1>1, <1>2, PlanOwned DEF theSeg
  <1>4. VmStep(j) /\ own' = own
    <2>1. CASE UNCHANGED vmvars
      BY <2>1, SameLocals, QuietStep DEF vmvars
    <2>2. CASE b.len # 0
      <3>1. PICK got \in Exact(b.addr, b.len) :
              MapAnon(Bytes(got, b.len), j, theSeg(j).prot)
        BY <2>2 DEF MapBss
      <3>2. got = b.addr
        BY <1>3 DEF Exact
      <3> HIDE DEF b
      <3>3. VmStep(j)
        BY <1>2, <1>3, <3>1, <3>2, SameLocals, RemapStep DEF MapAnon
      <3>4. own' = own
        BY <1>3, <3>1, <3>2, SameLocals, Keeping DEF MapAnon, Map
      <3> QED
        BY <3>3, <3>4
    <2> QED
      BY <2>1, <2>2, Zenon DEF MapBss
  <1> QED
    BY <1>1, <1>2, <1>4, SameLocals, FillStep, Zenon DEF MapBss, Goto, locals

\* fill_mapped, mprotect of a segment: it changes the rights of the reservation
\* only.
LEMMA NarrowSound ==
  ASSUME IInv, NEW j \in Jobs, Narrow(j)
  PROVE  Sound(j)
  <1> DEFINE r == range(theSeg(j))
  <1>1. pc[j] \in Planned /\ "file" \in Planned /\ "sync" \in Planned
    BY DEF Narrow, Planned
  <1>2. seg[j] \in DOMAIN image(j).loads /\ theSeg(j).prot \in SUBSET Rights
    BY <1>1, PlanLoop
  <1>3. r.start..(r.end - 1) \subseteq Owned(j)
    BY <1>1, <1>2, PlanOwned DEF theSeg
  <1>4. VmStep(j) /\ own' = own
    <2>1. CASE SetProt(r.start..(r.end - 1), theSeg(j).prot) /\ UNCHANGED <<own, val, dirty>>
      BY <1>2, <1>3, <2>1, SameLocals, ProtStep, Zenon
    <2>2. CASE UNCHANGED vmvars
      BY <2>2, SameLocals, QuietStep DEF vmvars
    <2> QED
      BY <2>1, <2>2 DEF Narrow
  <1>5. PICK n \in DOMAIN image(j).loads : seg' = [seg EXCEPT ![j] = n]
    BY <1>1, NextSegment DEF Narrow
  <1>6. PICK m \in Planned : pc' = [pc EXCEPT ![j] = m]
    BY <1>1, NextSegment DEF Narrow
  <1> QED
    BY <1>1, <1>4, <1>5, <1>6, SameLocals, FillStep, Zenon DEF Narrow

\* fill_mapped, a call that fails: the reservation is kept for unload.
LEMMA FillFailsSound ==
  ASSUME IInv, NEW j \in Jobs, FillFails(j)
  PROVE  Sound(j)
  <1>1. pc[j] \in Planned /\ "undo" \in Planned
    BY DEF FillFails, Planned
  <1>2. VmStep(j) /\ own' = own
    BY SameLocals, QuietStep DEF FillFails, vmvars
  <1> QED
    BY <1>1, <1>2, PlanLoop, SameLocals, FillStep, Zenon DEF FillFails, Goto, SetErr

\* fill_mapped, synchronising instruction fetch: memory is left alone.
LEMMA SyncTailsSound ==
  ASSUME IInv, NEW j \in Jobs, SyncTails(j)
  PROVE  Sound(j)
  <1>1. pc[j] \in Planned /\ "loaded" \in Planned
    BY DEF SyncTails, Planned
  <1>2. dirty' \subseteq Space
    BY SameLocals DEF SyncTails
  <1>3. VmStep(j) /\ own' = own
    BY <1>2, SameLocals, QuietStep DEF SyncTails
  <1> QED
    BY <1>1, <1>3, PlanLoop, SameLocals, FillStep, Zenon DEF SyncTails, Goto, locals

-----------------------------------------------------------------------------
(***************************************************************************)
(* load_copied, after the plan.                                            *)
(***************************************************************************)
\* One round of the copy loop stays within the memory of the segment.
LEMMA ChunkInside ==
  ASSUME IInv, NEW j \in Jobs, pc[j] \in Planned, done[j] < theSeg(j).ph.p_filesz
  PROVE  /\ {vaddr(j) + (o - theSeg(j).ph.p_offset) : o \in Chunk(j)} \subseteq Owned(j)
         /\ Cardinality(Chunk(j)) \in Nat
  <1> DEFINE i  == seg[j]
  <1> DEFINE ph == image(j).loads[i]
  <1> DEFINE b  == thePlan(j).bias
  <1> DEFINE me == align_up(ph.p_vaddr + b + ph.p_memsz, PageSize)
  <1>1. ValidImage(image(j)) /\ done[j] \in Nat
    BY JobImage DEF IInv, TypeOK
  <1>2. i \in DOMAIN image(j).loads /\ theSeg(j).ph = ph
    BY PlanLoop
  <1>3. /\ ph.p_vaddr \in Nat /\ ph.p_memsz \in Nat /\ ph.p_filesz \in Nat
        /\ ph.p_offset \in Nat /\ ph.p_filesz <= ph.p_memsz
    BY <1>1, <1>2, LoadTypes
  <1>4. /\ b \in Nat
        /\ (ph.p_vaddr + b)..(me - 1) \subseteq Owned(j)
        /\ ph.p_vaddr + b + ph.p_memsz <= me
        /\ me \in Nat
    BY <1>2, PlanOwned, Zenon
  <1>5. vaddr(j) = ph.p_vaddr + b
    BY <1>2 DEF vaddr
  <1> HIDE DEF ph, b, me
  <1> DEFINE n == IF CopyChunk < ph.p_filesz - done[j] THEN CopyChunk ELSE ph.p_filesz - done[j]
  <1>6. Chunk(j) = Bytes(ph.p_offset + done[j], n)
    BY <1>2 DEF Chunk
  <1>7. n \in Nat /\ n <= ph.p_filesz - done[j]
    BY <1>1, <1>2, <1>3, LoaderAssumption
  <1> HIDE DEF n
  <1>8. Chunk(j) = (ph.p_offset + done[j])..(ph.p_offset + done[j] + n - 1)
    BY <1>6 DEF Bytes
  <1>9. ASSUME NEW o \in Chunk(j)
        PROVE  vaddr(j) + (o - ph.p_offset) \in (ph.p_vaddr + b)..(me - 1)
    <2> DEFINE d == o - ph.p_offset
    <2>1. o \in Int /\ ph.p_offset + done[j] <= o /\ o <= ph.p_offset + done[j] + n - 1
      BY <1>1, <1>3, <1>7, <1>8
    <2>2. d \in Nat /\ d < ph.p_filesz
      BY <1>1, <1>3, <1>7, <2>1
    <2> HIDE DEF d
    <2>3. ph.p_vaddr + b + d \in (ph.p_vaddr + b)..(me - 1)
      BY <1>3, <1>4, <2>2
    <2> QED
      BY <1>5, <2>3 DEF d
  <1>10. IsFiniteSet(Chunk(j))
    <2>1. ph.p_offset + done[j] \in Int /\ ph.p_offset + done[j] + n - 1 \in Int
      BY <1>1, <1>3, <1>7
    <2> QED
      BY <1>8, <2>1, FS_Interval
  <1>11. Cardinality(Chunk(j)) \in Nat
    BY <1>10, FS_CardinalityType
  <1> QED
    BY <1>2, <1>4, <1>9, <1>11

\* fill_copied, one round of the copy loop: it stores into the block only.
LEMMA CopyRoundSound ==
  ASSUME IInv, NEW j \in Jobs, CopyRound(j)
  PROVE  Sound(j)
  <1> DEFINE ph == theSeg(j).ph
  <1> DEFINE B  == {vaddr(j) + (o - ph.p_offset) : o \in Chunk(j)}
  <1>1. pc[j] \in Planned /\ done[j] < ph.p_filesz
    BY DEF CopyRound, Planned
  <1>2. B \subseteq Owned(j) /\ Cardinality(Chunk(j)) \in Nat
    BY <1>1, ChunkInside
  <1>3. seg[j] \in DOMAIN image(j).loads
    BY <1>1, PlanLoop
  <1>4. CASE Writable(B)
    <2> DEFINE c == [a \in B |-> FileByte(src[j], ph.p_offset + (a - vaddr(j)))]
    <2>1. /\ Store(B, c)
          /\ done' = [done EXCEPT ![j] = done[j] + Cardinality(Chunk(j))]
          /\ UNCHANGED pc
      BY <1>4 DEF CopyRound
    <2> HIDE DEF B, c, ph
    <2>2. VmStep(j) /\ own' = own
      BY <1>2, <2>1, SameLocals, StoreStep DEF Store
    <2>3. pc' = [pc EXCEPT ![j] = pc[j]]
      BY <2>1 DEF IInv, TypeOK
    <2>4. done[j] + Cardinality(Chunk(j)) \in Nat
      BY <1>2, SameLocals
    <2> QED
      BY <1>1, <1>3, <2>1, <2>2, <2>3, <2>4, SameLocals, FillStep, Zenon DEF CopyRound
  <1>5. CASE ~Writable(B)
    <2>1. Goto(j, "trap") /\ UNCHANGED <<vmvars, done>>
      BY <1>5, Zenon DEF CopyRound
    <2>2. VmStep(j) /\ own' = own
      BY <2>1, SameLocals, QuietStep DEF vmvars
    <2> QED
      BY <1>1, <1>3, <2>1, <2>2, SameLocals, FillStep, Zenon DEF CopyRound, Goto
  <1> QED
    BY <1>4, <1>5

\* fill_copied, a failing read: the block is kept for unload.
LEMMA CopyFailsSound ==
  ASSUME IInv, NEW j \in Jobs, CopyFails(j)
  PROVE  Sound(j)
  <1>1. pc[j] \in Planned /\ "undo" \in Planned
    BY DEF CopyFails, Planned
  <1>2. VmStep(j) /\ own' = own
    BY SameLocals, QuietStep DEF CopyFails, vmvars
  <1>3. PICK e \in {"none", "ENOEXEC", "ENOTSUP", "ENOMEM", "EIO"} :
          err' = [err EXCEPT ![j] = e]
    BY DEF CopyFails, SetErr
  <1> QED
    BY <1>1, <1>2, <1>3, PlanLoop, SameLocals, FillStep, Zenon DEF CopyFails, Goto

\* fill_copied, clearing what the file does not fill: it stores into the block
\* only.
LEMMA ZeroRestSound ==
  ASSUME IInv, NEW j \in Jobs, ZeroRest(j)
  PROVE  Sound(j)
  <1> DEFINE ph == image(j).loads[seg[j]]
  <1> DEFINE b  == thePlan(j).bias
  <1> DEFINE me == align_up(ph.p_vaddr + b + ph.p_memsz, PageSize)
  <1> DEFINE B  == (ph.p_vaddr + b + ph.p_filesz)..(me - 1)
  <1>1. pc[j] \in Planned /\ "copy" \in Planned /\ "csync" \in Planned
    BY DEF ZeroRest, Planned
  <1>2. seg[j] \in DOMAIN image(j).loads /\ theSeg(j).ph = ph
    BY <1>1, PlanLoop
  <1>3. ValidImage(image(j))
    BY JobImage DEF IInv
  <1>4. ph.p_vaddr \in Nat /\ ph.p_filesz \in Nat
    BY <1>2, <1>3, LoadTypes
  <1>5. b \in Nat /\ me \in Nat /\ (ph.p_vaddr + b)..(me - 1) \subseteq Owned(j)
    BY <1>1, <1>2, PlanOwned, Zenon
  <1>6. vaddr(j) = ph.p_vaddr + b
    BY <1>2 DEF vaddr
  <1>7. \/ Writable(B) /\ Store(B, [a \in B |-> Zero]) /\ NextSeg(j, "copy", "csync")
        \/ Goto(j, "trap") /\ UNCHANGED <<vmvars, seg>>
    BY <1>2, <1>6, Zenon DEF ZeroRest
  <1> HIDE DEF ph, b, me
  <1>8. B \subseteq Owned(j)
    BY <1>4, <1>5
  <1> HIDE DEF B
  <1>9. CASE Store(B, [a \in B |-> Zero]) /\ NextSeg(j, "copy", "csync")
    <2>1. VmStep(j) /\ own' = own
      BY <1>8, <1>9, SameLocals, StoreStep DEF Store
    <2>2. PICK n \in DOMAIN image(j).loads : seg' = [seg EXCEPT ![j] = n]
      BY <1>1, <1>9, NextSegment
    <2>3. PICK m \in Planned : pc' = [pc EXCEPT ![j] = m]
      BY <1>1, <1>9, NextSegment
    <2> QED
      BY <1>1, <2>1, <2>2, <2>3, SameLocals, FillStep, Zenon DEF ZeroRest
  <1>10. CASE Goto(j, "trap") /\ UNCHANGED <<vmvars, seg>>
    <2>1. VmStep(j) /\ own' = own
      BY <1>10, SameLocals, QuietStep DEF vmvars
    <2> QED
      BY <1>1, <1>2, <1>10, <2>1, SameLocals, FillStep, Zenon DEF ZeroRest, Goto
  <1> QED
    BY <1>7, <1>9, <1>10

\* fill_copied, synchronising instruction fetch: memory is left alone.
LEMMA SyncCodeSound ==
  ASSUME IInv, NEW j \in Jobs, SyncCode(j)
  PROVE  Sound(j)
  <1>1. pc[j] \in Planned /\ "protect" \in Planned
    BY DEF SyncCode, Planned
  <1>2. dirty' \subseteq Space
    BY SameLocals DEF SyncCode
  <1>3. VmStep(j) /\ own' = own
    BY <1>2, SameLocals, QuietStep DEF SyncCode
  <1> QED
    BY <1>1, <1>3, PlanLoop, SameLocals, FillStep, Zenon DEF SyncCode, Goto, locals

\* fill_copied, mprotect of a segment: it changes the rights of the block only.
LEMMA ProtectSound ==
  ASSUME IInv, NEW j \in Jobs, Protect(j)
  PROVE  Sound(j)
  <1> DEFINE r == range(theSeg(j))
  <1>1. pc[j] \in Planned /\ "protect" \in Planned /\ "loaded" \in Planned
    BY DEF Protect, Planned
  <1>2. seg[j] \in DOMAIN image(j).loads /\ theSeg(j).prot \in SUBSET Rights
    BY <1>1, PlanLoop
  <1>3. r.start..(r.end - 1) \subseteq Owned(j)
    BY <1>1, <1>2, PlanOwned, Zenon DEF theSeg
  <1>4. VmStep(j) /\ own' = own
    <2>1. CASE SetProt(r.start..(r.end - 1), theSeg(j).prot)
      BY <1>2, <1>3, <2>1, SameLocals, ProtStep, Zenon DEF Protect
    <2>2. CASE UNCHANGED prot
      BY <2>2, SameLocals, QuietStep DEF Protect
    <2> QED
      BY <2>1, <2>2 DEF Protect
  <1>5. PICK n \in DOMAIN image(j).loads : seg' = [seg EXCEPT ![j] = n]
    BY <1>1, NextSegment DEF Protect
  <1>6. PICK m \in Planned : pc' = [pc EXCEPT ![j] = m]
    BY <1>1, NextSegment DEF Protect
  <1> QED
    BY <1>1, <1>4, <1>5, <1>6, SameLocals, FillStep, Zenon DEF Protect
=============================================================================
