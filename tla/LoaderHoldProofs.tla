-------------------------- MODULE LoaderHoldProofs --------------------------
(***************************************************************************)
(* Each step of a load that takes, plans or gives back the reservation.    *)
(***************************************************************************)
EXTENDS LoaderFacts

-----------------------------------------------------------------------------
(***************************************************************************)
(* The steps before the plan, and the ones that give the range back.       *)
(***************************************************************************)
\* A step that ends where no reservation is needed, having released it if
\* the job goes back to idle.
LEMMA EndStep ==
  ASSUME IInv, NEW j \in Jobs, VmStep(j), LocalType', Apart(j),
         pc'[j] \in Labels \ Started,
         pc'[j] = "idle" => Owned(j)' = {}
  PROVE  Sound(j)
  <1>1. Progress(j)'
    BY DEF Progress, Started, Holding
  <1>2. HoldsReservation(j)'
    BY DEF HoldsReservation, Started
  <1> QED
    BY <1>1, <1>2 DEF Sound

\* load: a job that starts owns nothing and takes nothing.
LEMMA LoadSound ==
  ASSUME IInv, NEW j \in Jobs, NEW s \in Sources, NEW fd \in Fds, Load(j, s, fd)
  PROVE  Sound(j)
  <1>1. TypeOK /\ LocalType /\ HoldsReservation(j)
    BY TypeParts DEF IInv, ReservationHeld
  <1>2. VmStep(j) /\ own' = own
    BY SameLocals, QuietStep DEF Load, vmvars
  <1>3. PICK l \in {"reserve", "alloc", "failed"}, e \in {"none", "ENOTSUP", "ENOEXEC"} :
          /\ pc' = [pc EXCEPT ![j] = l] /\ err' = [err EXCEPT ![j] = e]
          /\ l \in {"reserve", "alloc"} => reservation_len(s.image) # None
          /\ l = "alloc" => s.image.e_type = "DYN"
    BY DEF Load, Goto, SetErr
  <1>4. /\ loads' = [loads EXCEPT ![j] = loads[j] + 1] /\ loads[j] < MaxLoads
        /\ src' = [src EXCEPT ![j] = s]
        /\ UNCHANGED <<raw, loaded, seg, done>>
        /\ pc[j] = "idle"
    BY DEF Load
  <1>5. LocalType'
    <2>1. loads' \in [Jobs -> 0..MaxLoads]
      BY <1>1, <1>4, LoaderAssumption DEF LocalType
    <2>2. l \in Labels
      BY DEF Labels
    <2> QED
      BY <1>1, <1>3, <1>4, <2>1, <2>2 DEF LocalType
  <1>6. Apart(j)
    BY <1>1, <1>3, <1>4 DEF Apart, LocalType
  <1>7. pc'[j] = l /\ image(j)' = s.image
    BY <1>1, <1>3, <1>4 DEF LocalType, image
  <1>8. reservation_len(s.image) # None => va_hi(s.image) # None
    BY DEF reservation_len
  <1>9. Progress(j)'
    BY <1>3, <1>7, <1>8, Zenon DEF Progress, Started, Holding, Planned
  <1>10. HoldsReservation(j)'
    <2>1. Owned(j)' = {}
      BY <1>1, <1>2, <1>4, SameOwners, Zenon DEF HoldsReservation
    <2> QED
      BY <1>7, <2>1 DEF HoldsReservation, Holding, Planned
  <1> QED
    BY <1>2, <1>5, <1>6, <1>9, <1>10 DEF Sound

\* load_mapped, the reservation: free bytes become the job's.
LEMMA ReserveSound ==
  ASSUME IInv, NEW j \in Jobs, Reserve(j)
  PROVE  Sound(j)
  <1> DEFINE im == image(j)
  <1> DEFINE n  == reserved(j)
  <1>1. TypeOK /\ LocalType /\ HoldsReservation(j) /\ Progress(j) /\ pc[j] = "reserve"
    BY TypeParts DEF IInv, ReservationHeld, Reserve
  <1>2. Owned(j) = {} /\ pc[j] \in Started
    BY <1>1 DEF HoldsReservation, Started
  <1>3. n \in Nat /\ ValidImage(im) /\ va_hi(im) # None
        /\ (im.e_type = "DYN" => reservation_len(im) # None)
    BY <1>1, <1>2, ReservedNat, JobImage, Zenon DEF Progress
  <1>4. PICK got \in IF im.e_type = "DYN" THEN Anywhere(n) ELSE Hint(va_lo(im), n) :
          /\ MapAnon(Bytes(got, n), j, {})
          /\ raw' = [raw EXCEPT ![j] = got]
          /\ Goto(j, IF im.e_type = "DYN" \/ got = va_lo(im) THEN "plan" ELSE "misplaced")
    BY Zenon DEF Reserve
  <1>5. va_lo(im) \in Nat /\ va_lo(im) % PageSize = 0
    <2>1. 1 \in DOMAIN im.loads
      BY <1>3, FirstLoad
    <2> QED
      BY <1>3, <2>1, SegmentsInSpan
  <1>6. n > 0 /\ got \in Nat /\ got % PageSize = 0 /\ Free(got, n)
    BY <1>4, <1>5, SpaceNat DEF Anywhere, Hint
  <1> HIDE DEF n, im
  <1>7. /\ VmStep(j) /\ Owned(j)' = Bytes(got, n) /\ got \in MmapSpace
    <2>1. {} \in SUBSET Rights /\ n \in Nat \ {0}
      BY <1>3, <1>6
    <2> QED
      BY <1>1, <1>2, <1>4, <1>6, <2>1, TakeStep
  <1>8. got \in Nat \ {0} /\ got \in Space
    BY <1>7, SpaceNat
  <1>9. PICK l \in {"plan", "misplaced"} :
          /\ pc' = [pc EXCEPT ![j] = l]
          /\ l = "plan" /\ im.e_type # "DYN" => got = va_lo(im)
    BY <1>4, Zenon DEF Goto
  <1>10. LocalType'
    <2>1. l \in Labels
      BY DEF Labels
    <2> QED
      BY <1>1, <1>4, <1>8, <1>9, <2>1 DEF LocalType, Reserve
  <1>11. Apart(j)
    BY <1>1, <1>4, <1>9 DEF Apart, LocalType, Reserve
  <1>12. /\ pc'[j] = l /\ raw'[j] = got /\ image(j)' = im /\ reserved(j)' = n
    BY <1>1, <1>4, <1>9, Zenon DEF LocalType, Reserve, image, reserved, im, n
  <1>13. Progress(j)'
    BY <1>3, <1>6, <1>8, <1>9, <1>12 DEF Progress, Started, Holding, Planned
  <1>14. HoldsReservation(j)'
    BY <1>7, <1>12 DEF HoldsReservation
  <1> QED
    BY <1>7, <1>10, <1>11, <1>13, <1>14 DEF Sound

\* load_mapped and load_copied, no memory: the job still owns nothing.
LEMMA ReserveFailsSound ==
  ASSUME IInv, NEW j \in Jobs, ReserveFails(j)
  PROVE  Sound(j)
  <1>1. VmStep(j)
    BY SameLocals, QuietStep DEF ReserveFails, vmvars
  <1>2. LocalType' /\ Apart(j) /\ pc'[j] = "failed"
    <2>1. LocalType /\ "failed" \in Labels
      BY TypeParts DEF IInv, Labels
    <2> QED
      BY <2>1 DEF ReserveFails, Goto, SetErr, LocalType, Apart
  <1> QED
    BY <1>1, <1>2, EndStep DEF Labels, Started, Holding, Planned

\* load_mapped, a hint not honoured: all of the reservation is given back.
LEMMA MisplacedSound ==
  ASSUME IInv, NEW j \in Jobs, Misplaced(j)
  PROVE  Sound(j)
  <1>1. Owned(j) = Bytes(raw[j], reserved(j))
    BY DEF IInv, ReservationHeld, HoldsReservation, Misplaced, Holding
  <1>2. VmStep(j)
    <2>1. CASE Unmap(Bytes(raw[j], reserved(j)))
      BY <1>1, <2>1, SameLocals, UnmapStep
    <2>2. CASE UNCHANGED vmvars
      BY <2>2, SameLocals, QuietStep DEF vmvars
    <2> QED
      BY <2>1, <2>2 DEF Misplaced
  <1>3. LocalType' /\ Apart(j) /\ pc'[j] \in {"failed", "leaked"}
    <2>1. LocalType /\ "failed" \in Labels /\ "leaked" \in Labels
      BY TypeParts DEF IInv, Labels
    <2>2. PICK l \in {"failed", "leaked"} : Goto(j, l)
      BY DEF Misplaced
    <2> QED
      BY <2>1, <2>2 DEF Misplaced, Goto, SetErr, LocalType, Apart
  <1> QED
    BY <1>2, <1>3, EndStep DEF Labels, Started, Holding, Planned

\* load_mapped and load_copied, layout::plan: a plan lies in the reservation.
LEMMA PlanSound ==
  ASSUME IInv, NEW j \in Jobs, Plan(j)
  PROVE  Sound(j)
  <1> DEFINE p == plan(image(j), Placement(j))
  <1>1. /\ TypeOK /\ LocalType /\ HoldsReservation(j) /\ Progress(j)
        /\ pc[j] \in {"plan", "cplan"}
    BY TypeParts DEF IInv, ReservationHeld, Plan
  <1>2. VmStep(j) /\ own' = own
    BY SameLocals, QuietStep DEF Plan, vmvars
  <1>3. /\ seg' = [seg EXCEPT ![j] = 1] /\ done' = [done EXCEPT ![j] = 0]
        /\ UNCHANGED <<src, raw, loads>>
    BY DEF Plan
  <1>4. CASE p.err = "none"
    <2> DEFINE ld == [allocated |-> pc[j] = "cplan", plan |-> p]
    <2>1. PICK l \in {"copy", "file"} :
            /\ loaded' = [loaded EXCEPT ![j] = ld]
            /\ pc' = [pc EXCEPT ![j] = l]
            /\ UNCHANGED err
      BY <1>4 DEF Plan, Goto
    <2>2. ld.plan = p
      OBVIOUS
    <2> HIDE DEF p, ld
    <2>3. l \in Labels /\ l \in Planned
      BY DEF Labels, Planned
    <2>4. LocalType'
      BY <1>1, <1>3, <2>1, <2>3 DEF LocalType
    <2>5. Apart(j)
      BY <1>1, <1>3, <2>1 DEF LocalType, Apart
    <2>6. /\ pc'[j] = l /\ seg'[j] = 1 /\ raw'[j] = raw[j] /\ src'[j] = src[j]
          /\ loaded'[j] = ld
      BY <1>1, <1>3, <2>1 DEF LocalType
    <2>7. /\ image(j)' = image(j) /\ reserved(j)' = reserved(j)
          /\ Placement(j)' = Placement(j) /\ thePlan(j)' = p
      BY <2>2, <2>6 DEF image, reserved, Placement, thePlan
    <2>8. 1 \in DOMAIN image(j).loads
      BY <1>1, JobImage, FirstLoad
    <2>9. Progress(j)'
      BY <1>1, <1>4, <2>3, <2>6, <2>7, <2>8, Zenon DEF Progress, Started, Holding, Planned, p
    <2>10. HoldsReservation(j)'
      <3>1. Owned(j)' = Owned(j)
        BY <1>2, SameOwners
      <3>2. Owned(j) = Bytes(raw[j], reserved(j))
        BY <1>1 DEF HoldsReservation, Holding
      <3> QED
        BY <2>6, <2>7, <3>1, <3>2 DEF HoldsReservation
    <2> QED
      BY <1>2, <2>4, <2>5, <2>9, <2>10 DEF Sound
  <1>5. CASE p.err # "none"
    <2>1. PICK l \in {"panic", "failed"} :
            /\ pc' = [pc EXCEPT ![j] = l]
            /\ err' = [err EXCEPT ![j] = "ENOMEM"]
            /\ UNCHANGED loaded
      BY <1>5 DEF Plan, Goto, SetErr
    <2>2. l \in Labels
      BY DEF Labels
    <2>3. LocalType' /\ Apart(j) /\ pc'[j] = l
      BY <1>1, <1>3, <2>1, <2>2 DEF LocalType, Apart
    <2> QED
      BY <1>2, <2>3, EndStep DEF Labels, Started, Holding, Planned
  <1> QED
    BY <1>4, <1>5

\* load_copied, the block: free bytes of the heap become the job's.
LEMMA AllocSound ==
  ASSUME IInv, NEW j \in Jobs, Alloc(j)
  PROVE  Sound(j)
  <1> DEFINE im == image(j)
  <1> DEFINE n  == reserved(j)
  <1>1. TypeOK /\ LocalType /\ HoldsReservation(j) /\ Progress(j) /\ pc[j] = "alloc"
    BY TypeParts DEF IInv, ReservationHeld, Alloc
  <1>2. Owned(j) = {} /\ pc[j] \in Started /\ j # Nobody
    BY <1>1, LoaderAssumption DEF HoldsReservation, Started
  <1>3. n \in Nat /\ ValidImage(im) /\ va_hi(im) # None /\ im.e_type = "DYN"
        /\ reservation_len(im) # None
    BY <1>1, <1>2, ReservedNat, JobImage, Zenon DEF Progress
  <1>4. PICK got \in HeapSpace :
          /\ got % seg_align(im) = 0
          /\ Bytes(got, n) \subseteq HeapSpace
          /\ \A x \in Bytes(got, n) : own[x] = Nobody
          /\ SetOwn(Bytes(got, n), j)
          /\ raw' = [raw EXCEPT ![j] = got]
    BY Zenon DEF Alloc
  <1>5. pc' = [pc EXCEPT ![j] = "cplan"]
        /\ UNCHANGED <<prot, val, dirty, src, loaded, seg, done, loads, err>>
    BY DEF Alloc, Goto
  <1>6. got \in Nat \ {0} /\ got \in Space /\ Bytes(got, n) \subseteq Space
    BY <1>4, SpaceNat, Zenon
  <1>7. got % PageSize = 0
    BY <1>3, <1>4, <1>6, SegAlign, PagePositive, MultipleTrans
  <1> HIDE DEF n, im
  <1>8. Owned(j)' = Bytes(got, n)
    BY <1>1, <1>2, <1>4, <1>6, Taking
  <1>9. VmStep(j)
    <2>1. VmType' /\ Confined(j)
      BY <1>1, <1>4, <1>5 DEF SetOwn, TypeOK, VmType, Confined
    <2>2. OwnershipStep(j)
      <3>1. CASE n = 0
        <4>1. Bytes(got, n) = {}
          BY <1>6, <3>1 DEF Bytes
        <4> QED
          BY <1>1, <1>4, <4>1, Keeping DEF OwnershipStep
      <3>2. CASE n # 0
        <4> DEFINE hi == got + n - 1
        <4>1. /\ Bytes(got, n) = got..hi /\ got \in got..hi /\ hi \in got..hi /\ got <= hi
          BY <1>3, <1>6, <3>2 DEF Bytes
        <4> HIDE DEF hi
        <4>2. got..hi \subseteq Owned(Nobody)
          BY <1>4, <1>6, <4>1 DEF Owned
        <4> QED
          BY <1>2, <1>4, <1>6, <4>1, <4>2 DEF OwnershipStep, Takes
      <3> QED
        BY <3>1, <3>2
    <2> QED
      BY <2>1, <2>2 DEF VmStep
  <1>10. LocalType'
    <2>1. "cplan" \in Labels
      BY DEF Labels
    <2> QED
      BY <1>1, <1>4, <1>5, <1>6, <2>1 DEF LocalType
  <1>11. Apart(j)
    BY <1>1, <1>4, <1>5 DEF Apart, LocalType
  <1>12. /\ pc'[j] = "cplan" /\ raw'[j] = got /\ image(j)' = im /\ reserved(j)' = n
    BY <1>1, <1>4, <1>5, Zenon DEF LocalType, image, reserved, im, n
  <1>13. Progress(j)'
    BY <1>3, <1>6, <1>7, <1>12, Zenon DEF Progress, Planned
  <1>14. HoldsReservation(j)'
    BY <1>8, <1>12, Zenon DEF HoldsReservation
  <1> QED
    BY <1>9, <1>10, <1>11, <1>13, <1>14 DEF Sound

\* Loaded::unload releases exactly what the job owns.
LEMMA ReleaseStep ==
  ASSUME IInv, NEW j \in Jobs, pc[j] \in Planned, NEW l \in {"idle", "failed"},
         Release(j, l)
  PROVE  /\ VmStep(j)
         /\ \E m \in {l, "leaked"} : pc' = [pc EXCEPT ![j] = m]
         /\ pc'[j] # "leaked" => Owned(j)' = {}
  <1> DEFINE B == Bytes(thePlan(j).reserve_addr, thePlan(j).reserve_len)
  <1>1. B = Owned(j) /\ TypeOK /\ j # Nobody
    BY PlanOwned, LoaderAssumption, Zenon DEF IInv
  <1>2. CASE SetOwn(B, Nobody) /\ UNCHANGED <<prot, val, dirty>> /\ Goto(j, l)
    <2>1. VmType'
      BY <1>1, <1>2 DEF SetOwn, TypeOK, VmType
    <2>2. Confined(j)
      BY <1>1, <1>2 DEF SetOwn, TypeOK, Confined, Owned
    <2>3. Gives(j)
      BY <1>1, <1>2 DEF Gives
    <2> QED
      BY <1>1, <1>2, <2>1, <2>2, <2>3, GivingBack DEF VmStep, OwnershipStep, Goto
  <1>3. CASE Unmap(B) /\ Goto(j, l)
    <2>1. VmStep(j) /\ Gives(j)
      BY <1>1, <1>3, UnmapStep
    <2> QED
      BY <1>1, <1>3, <2>1, GivingBack DEF Gives, Goto
  <1>4. CASE UNCHANGED vmvars /\ Goto(j, "leaked")
    <2>1. VmStep(j)
      BY <1>4, SameLocals, QuietStep DEF vmvars
    <2>2. pc'[j] = "leaked"
      BY <1>1, <1>4 DEF Goto, TypeOK
    <2> QED
      BY <1>4, <2>1, <2>2 DEF Goto
  <1> QED
    BY <1>2, <1>3, <1>4, Zenon DEF Release

\* load_mapped and load_copied, unload after a failure: all is given back.
LEMMA UndoSound ==
  ASSUME IInv, NEW j \in Jobs, Undo(j)
  PROVE  Sound(j)
  <1>1. pc[j] \in Planned /\ LocalType
    BY TypeParts DEF Undo, Planned, IInv
  <1>2. VmStep(j)
    BY <1>1, ReleaseStep DEF Undo
  <1>3. PICK m \in {"failed", "leaked"} : pc' = [pc EXCEPT ![j] = m]
    BY <1>1, ReleaseStep DEF Undo
  <1>4. m \in Labels
    BY DEF Labels
  <1>5. LocalType' /\ Apart(j) /\ pc'[j] = m
    BY <1>1, <1>3, <1>4 DEF Undo, locals, LocalType, Apart
  <1> QED
    BY <1>2, <1>5, EndStep DEF Labels, Started, Holding, Planned

\* Loaded::unload for the caller: all is given back.
LEMMA UnloadSound ==
  ASSUME IInv, NEW j \in Jobs, Unload(j)
  PROVE  Sound(j)
  <1>1. pc[j] \in Planned /\ LocalType
    BY TypeParts DEF Unload, Planned, IInv
  <1>2. VmStep(j) /\ (pc'[j] = "idle" => Owned(j)' = {})
    BY <1>1, ReleaseStep DEF Unload
  <1>3. PICK m \in {"idle", "leaked"} : pc' = [pc EXCEPT ![j] = m]
    BY <1>1, ReleaseStep DEF Unload
  <1>4. m \in Labels
    BY DEF Labels
  <1>5. LocalType' /\ Apart(j) /\ pc'[j] = m
    BY <1>1, <1>3, <1>4 DEF Unload, LocalType, Apart
  <1> QED
    BY <1>2, <1>5, EndStep DEF Labels, Started, Holding, Planned
=============================================================================
