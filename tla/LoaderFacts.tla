---------------------------- MODULE LoaderFacts -----------------------------
(***************************************************************************)
(* The inductive invariant of Loader and what follows from it: what a load *)
(* may rely on at each of its steps, and the ways a step may change the    *)
(* address space.                                                          *)
(***************************************************************************)
EXTENDS Loader, LayoutProofs

-----------------------------------------------------------------------------
(***************************************************************************)
(* The inductive invariant.  ReservationHeld alone is not inductive: that  *)
(* a fill step stays inside the reservation rests on where the plan came   *)
(* from, so the invariant also says that the plan in use is the plan of    *)
(* this image at this address, and that the address is a page boundary.    *)
(***************************************************************************)
Started == Holding \cup {"reserve", "alloc"}

\* What a job knows at each of its labels.
Progress(j) ==
  /\ pc[j] \in Started => va_hi(image(j)) # None
  /\ pc[j] \in Started /\ image(j).e_type = "DYN" => reservation_len(image(j)) # None
  /\ pc[j] \in {"alloc", "cplan"} => image(j).e_type = "DYN"
  /\ pc[j] \in Holding => raw[j] \in Nat \ {0} /\ raw[j] % PageSize = 0
  /\ pc[j] \in Holding \ {"misplaced"} /\ image(j).e_type # "DYN"
       => raw[j] = va_lo(image(j))
  /\ pc[j] \in Planned =>
       /\ thePlan(j) = plan(image(j), Placement(j))
       /\ thePlan(j).err = "none"
       /\ seg[j] \in DOMAIN image(j).loads

IInv == TypeOK /\ ReservationHeld /\ \A j \in Jobs : Progress(j)

-----------------------------------------------------------------------------
(***************************************************************************)
(* Ownership: the three ways a step changes it.                            *)
(***************************************************************************)
\* Taking free bytes: the taker owns exactly them, and nobody else notices.
LEMMA Taking ==
  ASSUME TypeOK, NEW x, NEW B, B \subseteq Space, SetOwn(B, x),
         \A a \in B : own[a] = Nobody, Owned(x) = {}, x # Nobody
  PROVE  /\ Owned(x)' = B
         /\ \A y : y \notin {x, Nobody} => Owned(y)' = Owned(y)
  BY DEF Owned, SetOwn, TypeOK

\* Mapping over one's own bytes changes no owner.
LEMMA Keeping ==
  ASSUME TypeOK, NEW x, NEW B, B \subseteq Owned(x), SetOwn(B, x)
  PROVE  own' = own
  BY DEF Owned, SetOwn, TypeOK

\* Giving back all one owns.
LEMMA GivingBack ==
  ASSUME TypeOK, NEW x, SetOwn(Owned(x), Nobody), x # Nobody
  PROVE  /\ Owned(x)' = {}
         /\ \A y : y \notin {x, Nobody} => Owned(y)' = Owned(y)
  BY DEF Owned, SetOwn, TypeOK

\* If no owner changes, everybody owns what they did.
LEMMA SameOwners ==
  ASSUME own' = own
  PROVE  \A y : Owned(y)' = Owned(y)
  BY DEF Owned

-----------------------------------------------------------------------------
(***************************************************************************)
(* What a job may rely on.                                                 *)
(***************************************************************************)
\* Address zero is in no mapping and in no heap block.
LEMMA SpaceNat == Space \subseteq Nat \ {0} /\ MmapSpace \subseteq Space /\ HeapSpace \subseteq Space
  BY LoaderAssumption DEF Space, MmapSpace, HeapSpace

\* The image of a job is one that parse accepted.
LEMMA JobImage ==
  ASSUME TypeOK, NEW j \in Jobs
  PROVE  ValidImage(image(j)) /\ src[j] \in Sources
  BY LoaderAssumption DEF TypeOK, image

\* The span of a valid image is not negative, and neither is a reservation.
LEMMA SpanNat ==
  ASSUME NEW im, ValidImage(im), va_hi(im) # None
  PROVE  /\ va_lo(im) \in Nat /\ va_hi(im) \in Nat /\ va_lo(im) <= va_hi(im)
         /\ span(im) \in Nat
         /\ reservation_len(im) # None =>
              reservation_len(im) \in Nat
              /\ reservation_len(im) = span(im) + (seg_align(im) - PageSize)
  <1>1. 1 \in DOMAIN im.loads
    BY FirstLoad
  <1>2. /\ va_lo(im) \in Nat /\ va_hi(im) \in Nat
        /\ va_lo(im) <= im.loads[1].p_vaddr
        /\ seg_end(im.loads[1]) <= va_hi(im)
    BY <1>1, SegmentsInSpan
  <1>3. /\ im.loads[1].p_vaddr \in Nat /\ seg_end(im.loads[1]) \in Nat
        /\ im.loads[1].p_vaddr <= seg_end(im.loads[1])
    BY <1>1, LoadTypes
  <1>4. va_lo(im) <= va_hi(im) /\ span(im) \in Nat
    BY <1>2, <1>3 DEF span
  <1>5. seg_align(im) \in Nat /\ seg_align(im) >= PageSize /\ PageSize \in Nat
    BY SegAlign, PagePositive
  <1>6. reservation_len(im) # None =>
          reservation_len(im) = span(im) + (seg_align(im) - PageSize)
    BY DEF reservation_len, checked_add
  <1> QED
    BY <1>2, <1>4, <1>5, <1>6

\* The reservation of a started job has a length.
LEMMA ReservedNat ==
  ASSUME TypeOK, NEW j \in Jobs, Progress(j), pc[j] \in Started
  PROVE  reserved(j) \in Nat
  BY JobImage, SpanNat DEF Progress, reserved

\* A planned job owns exactly the range its plan reserves, and every piece of
\* its plan lies in it.
LEMMA PlanOwned ==
  ASSUME IInv, NEW j \in Jobs, pc[j] \in Planned
  PROVE  LET p == thePlan(j) IN
         /\ Bytes(p.reserve_addr, p.reserve_len) = Owned(j)
         /\ p.bias \in Nat
         /\ DOMAIN p.segments = DOMAIN image(j).loads
         /\ \A i \in DOMAIN image(j).loads :
              LET ph == image(j).loads[i]
                  S  == p.segments[i]
                  me == align_up(ph.p_vaddr + p.bias + ph.p_memsz, PageSize)
              IN  /\ S = SegmentPlan(ph, p.bias)
                  /\ S.ph = ph
                  /\ Inside(S.file, va_lo(image(j)) + p.bias, va_hi(image(j)) + p.bias)
                  /\ S.file.addr # 0 /\ S.anon.addr # 0
                  /\ Bytes(S.file.addr, S.file.len) \subseteq Owned(j)
                  /\ Bytes(S.zero.addr, S.zero.len) \subseteq Owned(j)
                  /\ Bytes(S.anon.addr, S.anon.len) \subseteq Owned(j)
                  /\ range(S).start..(range(S).end - 1) \subseteq Owned(j)
                  /\ (ph.p_vaddr + p.bias)..(me - 1) \subseteq Owned(j)
                  /\ ph.p_vaddr + p.bias + ph.p_memsz <= me
                  /\ me \in Nat
  <1> DEFINE im == image(j)
  <1> DEFINE w  == Placement(j)
  <1> DEFINE p  == thePlan(j)
  <1>1. TypeOK /\ Progress(j) /\ ReservationHeld
    BY DEF IInv
  <1>2. ValidImage(im)
    BY <1>1, JobImage
  <1>3. pc[j] \in Started /\ pc[j] \in Holding /\ pc[j] \in Holding \ {"misplaced"}
    BY DEF Started, Holding, Planned
  <1>4. /\ va_hi(im) # None
        /\ im.e_type = "DYN" => reservation_len(im) # None
        /\ raw[j] \in Nat \ {0} /\ raw[j] % PageSize = 0
        /\ im.e_type # "DYN" => raw[j] = va_lo(im)
        /\ p = plan(im, w) /\ p.err = "none"
    BY <1>1, <1>3 DEF Progress
  <1>5. Owned(j) = Bytes(raw[j], reserved(j))
    BY <1>1, <1>3 DEF ReservationHeld, HoldsReservation
  <1>6. /\ w.kind \in {"Fixed", "At"}
        /\ w.kind = "At" => w.raw \in Nat /\ w.raw % PageSize = 0
        /\ w.kind = "Fixed" => im.e_type # "DYN"
        /\ w.kind = "At" => im.e_type = "DYN" /\ w.raw = raw[j]
    BY <1>4 DEF Placement, At, Fixed
  <1> HIDE DEF im, w, p
  <1>7. va_lo(im) <= va_hi(im) /\ va_lo(im) \in Nat /\ va_hi(im) \in Nat
    BY <1>2, <1>4, SpanNat
  <1>8. /\ p.bias \in Nat
        /\ p.bias % PageSize = 0
        /\ p.base = va_lo(im) + p.bias
        /\ p.reserve_addr \in Nat
        /\ p.reserve_len \in Nat
        /\ p.reserve_addr <= p.base
        /\ va_hi(im) + p.bias <= p.reserve_addr + p.reserve_len
        /\ p.segments = [i \in DOMAIN im.loads |-> SegmentPlan(im.loads[i], p.bias)]
        /\ \A i \in DOMAIN im.loads :
              align_up(seg_end(im.loads[i]) + p.bias, PageSize) # None
        /\ w.kind = "Fixed" =>
             p.bias = 0 /\ p.reserve_addr = va_lo(im) /\ p.reserve_len = span(im)
        /\ w.kind = "At" =>
             p.reserve_addr = w.raw
             /\ p.reserve_len = span(im) + (seg_align(im) - PageSize)
    <2>1. plan(im, w).err = "none"
      BY <1>4
    <2> QED
      BY <1>2, <1>4, <1>6, <1>7, <2>1, PlanBounds
  <1>9. p.reserve_addr = raw[j] /\ p.reserve_len = reserved(j)
    <2>1. CASE w.kind = "Fixed"
      BY <1>4, <1>6, <1>8, <2>1 DEF reserved, im
    <2>2. CASE w.kind = "At"
      BY <1>2, <1>4, <1>6, <1>8, <2>2, SpanNat DEF reserved, im
    <2> QED
      BY <1>6, <2>1, <2>2
  <1> DEFINE lo == va_lo(im) + p.bias
  <1> DEFINE hi == va_hi(im) + p.bias
  <1>10. /\ lo \in Nat \ {0} /\ hi \in Nat
         /\ Owned(j) = p.reserve_addr..(p.reserve_addr + p.reserve_len - 1)
         /\ p.reserve_addr <= lo /\ hi <= p.reserve_addr + p.reserve_len
    BY <1>4, <1>5, <1>7, <1>8, <1>9 DEF Bytes
  <1>11. lo..(hi - 1) \subseteq Owned(j)
    BY <1>8, <1>10
  <1> HIDE DEF lo, hi
  <1>12. \A q : Inside(q, lo, hi) => q.addr # 0 /\ Bytes(q.addr, q.len) \subseteq lo..(hi - 1)
    BY <1>10 DEF Inside, Bytes
  <1>13. ASSUME NEW i \in DOMAIN im.loads
         PROVE  LET ph == im.loads[i]
                    S  == p.segments[i]
                    me == align_up(ph.p_vaddr + p.bias + ph.p_memsz, PageSize)
                IN  /\ S = SegmentPlan(ph, p.bias)
                    /\ S.ph = ph
                    /\ Inside(S.file, lo, hi)
                    /\ S.file.addr # 0 /\ S.anon.addr # 0
                    /\ Bytes(S.file.addr, S.file.len) \subseteq Owned(j)
                    /\ Bytes(S.zero.addr, S.zero.len) \subseteq Owned(j)
                    /\ Bytes(S.anon.addr, S.anon.len) \subseteq Owned(j)
                    /\ range(S).start..(range(S).end - 1) \subseteq Owned(j)
                    /\ (ph.p_vaddr + p.bias)..(me - 1) \subseteq Owned(j)
                    /\ ph.p_vaddr + p.bias + ph.p_memsz <= me
                    /\ me \in Nat
    <2> DEFINE ph == im.loads[i]
    <2> DEFINE S  == p.segments[i]
    <2> DEFINE me == align_up(ph.p_vaddr + p.bias + ph.p_memsz, PageSize)
    <2>1. S = SegmentPlan(ph, p.bias)
      BY <1>8
    <2>2. align_up(seg_end(im.loads[i]) + p.bias, PageSize) # None
      BY <1>8
    <2>3. /\ Inside(S.file, lo, hi)
          /\ Inside(S.zero, lo, hi)
          /\ Inside(S.anon, lo, hi)
          /\ range(S).start..(range(S).end - 1) \subseteq lo..(hi - 1)
          /\ S.ph = ph
          /\ lo <= ph.p_vaddr + p.bias
          /\ me <= hi /\ me \in Nat
          /\ ph.p_vaddr + p.bias + ph.p_memsz <= me
      BY <1>2, <1>4, <1>8, <2>1, <2>2, SegmentInside DEF lo, hi
    <2>4. ph.p_vaddr + p.bias \in Nat
      BY <1>2, <1>8, LoadTypes
    <2> HIDE DEF ph, S, me
    <2>5. (ph.p_vaddr + p.bias)..(me - 1) \subseteq lo..(hi - 1)
      BY <1>10, <2>3, <2>4
    <2>6. /\ S.file.addr # 0 /\ S.anon.addr # 0
          /\ Bytes(S.file.addr, S.file.len) \subseteq lo..(hi - 1)
          /\ Bytes(S.zero.addr, S.zero.len) \subseteq lo..(hi - 1)
          /\ Bytes(S.anon.addr, S.anon.len) \subseteq lo..(hi - 1)
      BY <1>12, <2>3
    <2> QED
      BY <1>11, <2>1, <2>3, <2>5, <2>6, Zenon DEF ph, S, me
  <1>14. DOMAIN p.segments = DOMAIN im.loads
    BY <1>8
  <1>15. Bytes(p.reserve_addr, p.reserve_len) = Owned(j)
    BY <1>5, <1>9
  <1> QED
    BY <1>8, <1>13, <1>14, <1>15, Zenon DEF im, p, lo, hi

\* The fill loops run over as many segments as the image has, and the rights
\* they set are rights.
LEMMA PlanLoop ==
  ASSUME IInv, NEW j \in Jobs, pc[j] \in Planned
  PROVE  /\ seg[j] \in DOMAIN image(j).loads
         /\ Len(thePlan(j).segments) \in Nat \ {0}
         /\ DOMAIN image(j).loads = 1..Len(thePlan(j).segments)
         /\ theSeg(j).prot \subseteq Rights
         /\ theSeg(j).ph = image(j).loads[seg[j]]
         /\ theSeg(j).ph.p_filesz \in Nat
  <1> DEFINE im == image(j)
  <1> DEFINE p  == thePlan(j)
  <1>1. /\ TypeOK /\ ValidImage(im) /\ seg[j] \in DOMAIN im.loads
    BY JobImage DEF IInv, Progress
  <1>2. /\ DOMAIN p.segments = DOMAIN im.loads
        /\ p.segments[seg[j]] = SegmentPlan(im.loads[seg[j]], p.bias)
        /\ p.segments[seg[j]].ph = im.loads[seg[j]]
    BY <1>1, PlanOwned
  <1>3. /\ Len(im.loads) \in Nat \ {0} /\ DOMAIN im.loads = 1..Len(im.loads)
        /\ im.loads[seg[j]].p_filesz \in Nat
    BY <1>1, LoadTypes
  <1>4. \E e \in {"none"} : p = plan(im, Placement(j)) /\ p.err = e
    BY DEF IInv, Progress
  <1>5. p.segments = [i \in DOMAIN im.loads |-> SegmentPlan(im.loads[i], p.bias)]
    BY <1>4 DEF plan
  <1> HIDE DEF im, p
  <1>6. Len(p.segments) = Len(im.loads)
    BY <1>3, <1>5
  <1>7. SegmentPlan(im.loads[seg[j]], p.bias).prot = prot_of(im.loads[seg[j]])
    BY DEF SegmentPlan
  <1>8. theSeg(j).prot \subseteq Rights
    BY <1>2, <1>7 DEF theSeg, prot_of, p
  <1> QED
    BY <1>1, <1>2, <1>3, <1>6, <1>8 DEF im, p, theSeg

-----------------------------------------------------------------------------
(***************************************************************************)
(* What a step does to the address space.                                  *)
(***************************************************************************)
VmType ==
  /\ own \in [Space -> Jobs \cup Others \cup {Nobody}]
  /\ prot \in [Space -> SUBSET Rights]
  /\ DOMAIN val = Space
  /\ dirty \subseteq Space

\* The step leaves alone what belongs to anybody but x.
Confined(x) ==
  \A a \in Space : own[a] \notin {x, Nobody} =>
     own'[a] = own[a] /\ prot'[a] = prot[a] /\ val'[a] = val[a]

\* The step lets x take a run of free bytes, or give back all it has, or it
\* changes no owner.
Takes(x) ==
  \E lo, hi \in Space : /\ lo <= hi
                        /\ lo..hi \subseteq Owned(Nobody)
                        /\ Owned(x) = {}
                        /\ SetOwn(lo..hi, x)

Gives(x) == SetOwn(Owned(x), Nobody)

OwnershipStep(x) == own' = own \/ Takes(x) \/ Gives(x)

VmStep(x) == VmType' /\ Confined(x) /\ OwnershipStep(x)

\* Installing a mapping over bytes that are free or one's own.
LEMMA MapStep ==
  ASSUME TypeOK, NEW x, NEW y \in Jobs \cup Others \cup {Nobody},
         NEW B, NEW p \in SUBSET Rights, NEW c,
         \A a \in B \cap Space : own[a] \in {x, Nobody},
         Map(B, y, p, c)
  PROVE  VmType' /\ Confined(x) /\ SetOwn(B, y)
  <1>1. own' \in [Space -> Jobs \cup Others \cup {Nobody}] /\ SetOwn(B, y)
    BY DEF Map, SetOwn, TypeOK
  <1>2. prot' \in [Space -> SUBSET Rights]
    BY DEF Map, SetProt, TypeOK
  <1>3. DOMAIN val' = Space /\ dirty' \subseteq Space
    BY DEF Map, TypeOK
  <1>4. Confined(x)
    BY DEF Map, SetOwn, SetProt, TypeOK, Confined
  <1> QED
    BY <1>1, <1>2, <1>3, <1>4 DEF VmType

\* Storing to one's own bytes.
LEMMA StoreStep ==
  ASSUME TypeOK, NEW x, NEW B, NEW c, B \subseteq Owned(x), Store(B, c)
  PROVE  VmStep(x)
  <1>1. B \subseteq Space
    BY DEF Owned
  <1>2. VmType'
    BY <1>1 DEF Store, TypeOK, VmType
  <1>3. Confined(x)
    BY DEF Store, TypeOK, Confined, Owned
  <1> QED
    BY <1>2, <1>3 DEF VmStep, OwnershipStep, Store

\* Changing the rights on one's own bytes.
LEMMA ProtStep ==
  ASSUME TypeOK, NEW x, NEW B, NEW p \in SUBSET Rights, B \subseteq Owned(x),
         SetProt(B, p), UNCHANGED <<own, val>>, dirty' \subseteq Space
  PROVE  VmStep(x)
  <1>1. VmType'
    BY DEF SetProt, TypeOK, VmType
  <1>2. Confined(x)
    BY DEF SetProt, TypeOK, Confined, Owned
  <1> QED
    BY <1>1, <1>2 DEF VmStep, OwnershipStep

\* Changing nothing but which bytes await synchronisation.
LEMMA QuietStep ==
  ASSUME TypeOK, NEW x, UNCHANGED <<own, prot, val>>, dirty' \subseteq Space
  PROVE  VmStep(x)
  BY DEF TypeOK, VmType, Confined, VmStep, OwnershipStep

\* Mapping over one's own bytes.
LEMMA RemapStep ==
  ASSUME TypeOK, NEW x \in Jobs \cup Others, NEW B, B \subseteq Owned(x),
         NEW p \in SUBSET Rights, NEW c, Map(B, x, p, c)
  PROVE  VmStep(x)
  <1>1. \A a \in B \cap Space : own[a] \in {x, Nobody}
    BY DEF Owned
  <1>2. VmType' /\ Confined(x) /\ SetOwn(B, x)
    BY <1>1, MapStep, Zenon
  <1> QED
    BY <1>2, Keeping DEF VmStep, OwnershipStep

\* Unmapping all of one's bytes.
LEMMA UnmapStep ==
  ASSUME TypeOK, NEW x \in Jobs \cup Others, Unmap(Owned(x))
  PROVE  VmStep(x) /\ Gives(x)
  <1>1. \A a \in Owned(x) \cap Space : own[a] \in {x, Nobody}
    BY DEF Owned
  <1>2. {} \in SUBSET Rights
    OBVIOUS
  <1>3. VmType' /\ Confined(x) /\ SetOwn(Owned(x), Nobody)
    BY <1>1, <1>2, MapStep, Zenon DEF Unmap
  <1> QED
    BY <1>3 DEF VmStep, OwnershipStep, Gives

\* Mapping a nonempty run of free bytes.
LEMMA TakeStep ==
  ASSUME TypeOK, NEW x \in Jobs \cup Others, Owned(x) = {},
         NEW addr \in Nat, NEW len \in Nat \ {0}, Free(addr, len),
         NEW p \in SUBSET Rights, MapAnon(Bytes(addr, len), x, p)
  PROVE  /\ VmStep(x)
         /\ Owned(x)' = Bytes(addr, len)
         /\ \A y : y \notin {x, Nobody} => Owned(y)' = Owned(y)
         /\ addr \in MmapSpace
  <1> DEFINE B == Bytes(addr, len)
  <1>1. B \subseteq Space /\ B \subseteq MmapSpace /\ \A a \in B : own[a] = Nobody
    BY SpaceNat, Zenon DEF Free
  <1>2. VmType' /\ Confined(x) /\ SetOwn(B, x)
    BY <1>1, MapStep DEF MapAnon
  <1>3. B = addr..(addr + len - 1) /\ addr \in B /\ addr + len - 1 \in B /\ addr <= addr + len - 1
    BY DEF Bytes
  <1> HIDE DEF B
  <1>4. Takes(x)
    <2>1. B \subseteq Owned(Nobody)
      BY <1>1 DEF Owned
    <2>2. addr \in Space /\ addr + len - 1 \in Space
      BY <1>1, <1>3
    <2> QED
      BY <1>2, <1>3, <2>1, <2>2 DEF Takes
  <1>5. x # Nobody
    BY LoaderAssumption
  <1> QED
    BY <1>1, <1>2, <1>3, <1>4, <1>5, Taking DEF VmStep, OwnershipStep, B

-----------------------------------------------------------------------------
(***************************************************************************)
(* What a step of a job does.                                              *)
(***************************************************************************)
LocalType ==
  /\ pc \in [Jobs -> Labels]
  /\ src \in [Jobs -> Sources]
  /\ raw \in [Jobs -> Space \cup {None}]
  /\ DOMAIN loaded = Jobs
  /\ seg \in [Jobs -> Nat \ {0}]
  /\ done \in [Jobs -> Nat]
  /\ loads \in [Jobs -> 0..MaxLoads]
  /\ err \in [Jobs -> {"none", "ENOEXEC", "ENOTSUP", "ENOMEM", "EIO"}]

\* The step does not touch the locals of another job.
Apart(j) ==
  \A k \in Jobs \ {j} : /\ pc'[k] = pc[k] /\ src'[k] = src[k] /\ raw'[k] = raw[k]
                        /\ loaded'[k] = loaded[k] /\ seg'[k] = seg[k]
                        /\ done'[k] = done[k]

Sound(j) == VmStep(j) /\ LocalType' /\ Apart(j) /\ Progress(j)' /\ HoldsReservation(j)'

\* The type invariant, split into the memory and what the jobs know.
LEMMA TypeParts == TypeOK <=> VmType /\ LocalType
  BY DEF TypeOK, VmType, LocalType

\* A step of a fill loop, or of what follows it, that stays in the plan.
LEMMA FillStep ==
  ASSUME IInv, NEW j \in Jobs, pc[j] \in Planned,
         VmStep(j), own' = own,
         UNCHANGED <<src, raw, loaded, loads>>,
         NEW l \in Planned \cup {"trap"}, pc' = [pc EXCEPT ![j] = l],
         NEW n \in DOMAIN image(j).loads, seg' = [seg EXCEPT ![j] = n],
         NEW d \in Nat, done' = [done EXCEPT ![j] = d],
         NEW e \in {"none", "ENOEXEC", "ENOTSUP", "ENOMEM", "EIO"},
         err' = [err EXCEPT ![j] = e]
  PROVE  Sound(j)
  <1>1. TypeOK /\ Progress(j) /\ HoldsReservation(j) /\ LocalType
    BY TypeParts DEF IInv, ReservationHeld
  <1>2. ValidImage(image(j)) /\ n \in Nat \ {0}
    BY <1>1, JobImage, LoadTypes
  <1>3. l \in Labels /\ Planned \subseteq Holding /\ Holding \subseteq Started
    BY DEF Labels, Planned, Holding, Started
  <1>4. LocalType'
    BY <1>1, <1>2, <1>3 DEF LocalType
  <1>5. Apart(j)
    BY <1>1 DEF Apart, LocalType
  <1>6. /\ pc'[j] = l /\ seg'[j] = n /\ raw'[j] = raw[j] /\ src'[j] = src[j]
        /\ loaded'[j] = loaded[j]
    BY <1>1 DEF LocalType
  <1>7. /\ image(j)' = image(j) /\ reserved(j)' = reserved(j)
        /\ Placement(j)' = Placement(j) /\ thePlan(j)' = thePlan(j)
    BY <1>6 DEF image, reserved, Placement, thePlan
  <1>8. Progress(j)'
    <2>1. CASE l \in Planned
      BY <1>1, <1>3, <1>6, <1>7, <2>1 DEF Progress, Planned, Holding, Started
    <2>2. CASE l = "trap"
      BY <1>6, <2>2 DEF Progress, Planned, Holding, Started
    <2> QED
      BY <2>1, <2>2
  <1>9. HoldsReservation(j)'
    <2>1. Owned(j)' = Owned(j)
      BY SameOwners
    <2>2. Owned(j) = Bytes(raw[j], reserved(j))
      BY <1>1, <1>3 DEF HoldsReservation
    <2>3. l \notin {"idle", "reserve", "alloc"}
      BY DEF Planned
    <2> QED
      BY <1>6, <1>7, <2>1, <2>2, <2>3 DEF HoldsReservation
  <1> QED
    BY <1>4, <1>5, <1>8, <1>9 DEF Sound

\* NextSeg stays in the image.
LEMMA NextSegment ==
  ASSUME IInv, NEW j \in Jobs, pc[j] \in Planned,
         NEW first \in Planned, NEW l \in Planned, NextSeg(j, first, l)
  PROVE  /\ \E n \in DOMAIN image(j).loads : seg' = [seg EXCEPT ![j] = n]
         /\ \E m \in Planned : pc' = [pc EXCEPT ![j] = m]
  <1>1. /\ seg[j] \in DOMAIN image(j).loads
        /\ Len(thePlan(j).segments) \in Nat \ {0}
        /\ DOMAIN image(j).loads = 1..Len(thePlan(j).segments)
        /\ seg \in [Jobs -> Nat \ {0}]
    BY PlanLoop DEF IInv, TypeOK
  <1>2. CASE lastSeg(j)
    <2>1. 1 \in DOMAIN image(j).loads
      BY <1>1
    <2>2. seg' = [seg EXCEPT ![j] = 1] /\ pc' = [pc EXCEPT ![j] = l]
      BY <1>1, <1>2 DEF NextSeg, Goto
    <2> QED
      BY <2>1, <2>2, Zenon
  <1>3. CASE ~lastSeg(j)
    <2>1. seg[j] + 1 \in DOMAIN image(j).loads
      BY <1>1, <1>3 DEF lastSeg
    <2>2. seg' = [seg EXCEPT ![j] = seg[j] + 1] /\ pc' = [pc EXCEPT ![j] = first]
      BY <1>1, <1>3 DEF NextSeg, Goto
    <2> QED
      BY <2>1, <2>2, Zenon
  <1> QED
    BY <1>2, <1>3

\* Locals that a step leaves alone, in the form FillStep asks for.
LEMMA SameLocals ==
  ASSUME IInv, NEW j \in Jobs
  PROVE  /\ seg = [seg EXCEPT ![j] = seg[j]]
         /\ done = [done EXCEPT ![j] = done[j]] /\ done[j] \in Nat
         /\ err = [err EXCEPT ![j] = err[j]]
         /\ err[j] \in {"none", "ENOEXEC", "ENOTSUP", "ENOMEM", "EIO"}
         /\ dirty \subseteq Space
         /\ TypeOK
  BY DEF IInv, TypeOK
=============================================================================
