---------------------------- MODULE LoaderProofs ----------------------------
(***************************************************************************)
(* Theorems about Loader, for every page size, image, address space and    *)
(* number of concurrent loads and unrelated threads.                       *)
(***************************************************************************)
EXTENDS LoaderFillProofs, LoaderHoldProofs

-----------------------------------------------------------------------------
(***************************************************************************)
(* Every step.                                                             *)
(***************************************************************************)
\* Every step of a load keeps the inductive invariant for the job that takes it.
LEMMA JobStepSound ==
  ASSUME IInv, NEW j \in Jobs, JobStep(j)
  PROVE  Sound(j)
  <1>1. CASE \E s \in Sources, fd \in Fds : Load(j, s, fd)
    BY <1>1, LoadSound
  <1>2. CASE LoadStep(j)
    BY <1>2, ReserveSound, ReserveFailsSound, MisplacedSound, PlanSound, MapFileSound,
       ZeroTailSound, MapBssSound, NarrowSound, FillFailsSound, SyncTailsSound, AllocSound,
       CopyRoundSound, CopyFailsSound, ZeroRestSound, SyncCodeSound, ProtectSound, UndoSound
       DEF LoadStep
  <1>3. CASE Unload(j)
    BY <1>3, UnloadSound
  <1> QED
    BY <1>1, <1>2, <1>3 DEF JobStep

\* Every mmap and munmap of an unrelated thread is sound.
LEMMA OtherStepSound ==
  ASSUME IInv, NEW o \in Others, OtherMap(o) \/ OtherUnmap(o)
  PROVE  VmStep(o) /\ UNCHANGED <<pc, locals>>
  <1>1. CASE OtherMap(o)
    <2>1. PICK n \in OtherLens : \E a \in Anywhere(n) : MapAnon(Bytes(a, n), o, {"R", "W"})
      BY <1>1 DEF OtherMap
    <2>2. PICK a \in Anywhere(n) : MapAnon(Bytes(a, n), o, {"R", "W"})
      BY <2>1
    <2>3. n \in Nat \ {0} /\ a \in Nat /\ Free(a, n) /\ {"R", "W"} \in SUBSET Rights
      BY LoaderAssumption, SpaceNat DEF Anywhere, Rights
    <2>4. Owned(o) = {}
      BY <1>1 DEF OtherMap
    <2>5. VmStep(o)
      BY <2>2, <2>3, <2>4, SameLocals, TakeStep DEF IInv
    <2> QED
      BY <1>1, <2>5 DEF OtherMap
  <1>2. CASE OtherUnmap(o)
    BY <1>2, UnmapStep DEF OtherUnmap, IInv
  <1> QED
    BY <1>1, <1>2

\* Whoever takes the step, nobody else owns more or less after it.
LEMMA OwnersApart ==
  ASSUME TypeOK, NEW x \in Jobs \cup Others, OwnershipStep(x), NEW y \in Jobs, y # x
  PROVE  Owned(y)' = Owned(y)
  <1>1. x # Nobody /\ y \notin {x, Nobody}
    BY LoaderAssumption
  <1>2. CASE own' = own
    BY <1>2, SameOwners
  <1>3. CASE Takes(x)
    <2>1. PICK lo, hi \in Space : /\ lo..hi \subseteq Owned(Nobody)
                                  /\ Owned(x) = {}
                                  /\ SetOwn(lo..hi, x)
      BY <1>3 DEF Takes
    <2>2. lo..hi \subseteq Space /\ \A a \in lo..hi : own[a] = Nobody
      BY <2>1 DEF Owned
    <2> QED
      BY <1>1, <2>1, <2>2, Taking, Zenon
  <1>4. CASE Gives(x)
    BY <1>1, <1>4, GivingBack DEF Gives
  <1> QED
    BY <1>2, <1>3, <1>4 DEF OwnershipStep

\* A job that does not act keeps what it knows and what it owns.
LEMMA Bystander ==
  ASSUME IInv, NEW k \in Jobs, Owned(k)' = Owned(k),
         pc'[k] = pc[k], src'[k] = src[k], raw'[k] = raw[k],
         loaded'[k] = loaded[k], seg'[k] = seg[k]
  PROVE  Progress(k)' /\ HoldsReservation(k)'
  <1>1. Progress(k) /\ HoldsReservation(k)
    BY DEF IInv, ReservationHeld
  <1>2. /\ image(k)' = image(k) /\ reserved(k)' = reserved(k)
        /\ Placement(k)' = Placement(k) /\ thePlan(k)' = thePlan(k)
    BY DEF image, reserved, Placement, thePlan
  <1>3. Progress(k)'
    BY <1>1, <1>2, Zenon DEF Progress
  <1>4. HoldsReservation(k)'
    BY <1>1, <1>2, Zenon DEF HoldsReservation
  <1> QED
    BY <1>3, <1>4

\* The inductive invariant is inductive.
LEMMA Preserved == IInv /\ [Next]_vars => IInv'
  <1> SUFFICES ASSUME IInv, [Next]_vars PROVE IInv'
    OBVIOUS
  <1>1. TypeOK
    BY DEF IInv
  <1>2. ASSUME NEW j \in Jobs, JobStep(j) PROVE IInv'
    <2>1. VmStep(j) /\ LocalType' /\ Apart(j) /\ Progress(j)' /\ HoldsReservation(j)'
      BY <1>2, JobStepSound DEF Sound
    <2>2. TypeOK'
      BY <2>1 DEF VmStep, VmType, LocalType, TypeOK
    <2>3. ASSUME NEW k \in Jobs \ {j} PROVE Progress(k)' /\ HoldsReservation(k)'
      <3>1. Owned(k)' = Owned(k)
        BY <1>1, <2>1, OwnersApart DEF VmStep
      <3> QED
        BY <2>1, <3>1, Bystander DEF Apart
    <2> QED
      BY <2>1, <2>2, <2>3 DEF IInv, ReservationHeld
  <1>3. ASSUME NEW o \in Others, OtherMap(o) \/ OtherUnmap(o) PROVE IInv'
    <2>1. VmStep(o) /\ UNCHANGED <<pc, locals>>
      BY <1>3, OtherStepSound
    <2>2. TypeOK'
      BY <1>1, <2>1, Zenon DEF VmStep, VmType, TypeOK, locals
    <2>3. ASSUME NEW k \in Jobs PROVE Progress(k)' /\ HoldsReservation(k)'
      <3>1. Owned(k)' = Owned(k)
        BY <1>1, <2>1, OwnersApart, LoaderAssumption DEF VmStep
      <3> QED
        BY <2>1, <3>1, Bystander, Zenon DEF locals
    <2> QED
      BY <2>2, <2>3 DEF IInv, ReservationHeld
  <1>4. CASE UNCHANGED vars
    <2>1. TypeOK'
      BY <1>1, <1>4 DEF TypeOK, vars, vmvars, locals
    <2>2. ASSUME NEW k \in Jobs PROVE Progress(k)' /\ HoldsReservation(k)'
      <3>1. Owned(k)' = Owned(k)
        BY <1>4, SameOwners DEF vars, vmvars
      <3> QED
        BY <1>4, <3>1, Bystander DEF vars, locals
    <2> QED
      BY <2>1, <2>2 DEF IInv, ReservationHeld
  <1> QED
    BY <1>2, <1>3, <1>4 DEF Next

\* The inductive invariant holds before anything is loaded.
LEMMA Initially == Init => IInv
  <1> SUFFICES ASSUME Init PROVE IInv
    OBVIOUS
  <1>1. (CHOOSE s \in Sources : TRUE) \in Sources
    BY LoaderAssumption
  <1>2. TypeOK
    BY <1>1, LoaderAssumption DEF Init, TypeOK, Labels, Rights
  <1>3. ASSUME NEW j \in Jobs PROVE Owned(j) = {} /\ pc[j] = "idle"
    BY LoaderAssumption DEF Init, Owned
  <1>4. ReservationHeld
    BY <1>3 DEF ReservationHeld, HoldsReservation, Holding, Planned
  <1>5. \A j \in Jobs : Progress(j)
    BY <1>3, Zenon DEF Progress, Started, Holding, Planned
  <1> QED
    BY <1>2, <1>4, <1>5 DEF IInv

-----------------------------------------------------------------------------
(***************************************************************************)
(* Failed loads.                                                           *)
(***************************************************************************)
FailedClean(j) ==
  pc[j] = "failed" /\ (raw[j] # None => plan(image(j), Placement(j)).err = "none")
    => Owned(j) = {}

\* Only five steps end in an error without the reservation being kept.
LEMMA WaysToFail ==
  ASSUME IInv, NEW j \in Jobs, JobStep(j), pc'[j] = "failed"
  PROVE  \/ \E s \in Sources, fd \in Fds : Load(j, s, fd)
         \/ ReserveFails(j) \/ Misplaced(j) \/ Plan(j) \/ Undo(j)
  <1>1. pc \in [Jobs -> Labels]
    BY DEF IInv, TypeOK
  <1>2. ~(Reserve(j) \/ MapFile(j) \/ ZeroTail(j) \/ MapBss(j) \/ Narrow(j))
    BY <1>1 DEF Reserve, MapFile, ZeroTail, MapBss, Narrow, Goto, NextSeg
  <1>3. ~(FillFails(j) \/ SyncTails(j) \/ Alloc(j) \/ CopyRound(j) \/ CopyFails(j))
    BY <1>1 DEF FillFails, SyncTails, Alloc, CopyRound, CopyFails, Goto, NextSeg
  <1>4. ~(ZeroRest(j) \/ SyncCode(j) \/ Protect(j) \/ Unload(j))
    BY <1>1 DEF ZeroRest, SyncCode, Protect, Unload, Release, Goto, NextSeg
  <1> QED
    BY <1>2, <1>3, <1>4 DEF JobStep, LoadStep

\* Each of them leaves nothing behind, unless it is the plan that fails.
LEMMA FailingStep ==
  ASSUME IInv, NEW j \in Jobs, JobStep(j)
  PROVE  FailedClean(j)'
  <1> SUFFICES ASSUME pc'[j] = "failed",
                      (raw[j] # None => plan(image(j), Placement(j)).err = "none")'
               PROVE  Owned(j)' = {}
    BY DEF FailedClean
  <1>1. TypeOK /\ HoldsReservation(j) /\ Progress(j) /\ j # Nobody
    BY LoaderAssumption DEF IInv, ReservationHeld
  <1>2. ASSUME NEW s \in Sources, NEW fd \in Fds, Load(j, s, fd) PROVE Owned(j)' = {}
    BY <1>1, <1>2, SameOwners DEF Load, vmvars, HoldsReservation
  <1>3. CASE ReserveFails(j)
    BY <1>1, <1>3, SameOwners DEF ReserveFails, vmvars, HoldsReservation
  <1>4. CASE Misplaced(j)
    <2>1. Owned(j) = Bytes(raw[j], reserved(j))
      BY <1>1, <1>4 DEF Misplaced, HoldsReservation, Holding
    <2>2. ~Goto(j, "leaked")
      BY <1>1 DEF Goto, TypeOK
    <2>3. SetOwn(Owned(j), Nobody)
      BY <1>4, <2>1, <2>2 DEF Misplaced, Unmap, Map
    <2> QED
      BY <1>1, <2>3, GivingBack
  <1>5. CASE Plan(j)
    <2>1. pc[j] \in {"plan", "cplan"} /\ UNCHANGED <<src, raw>>
      BY <1>5 DEF Plan
    <2>2. raw[j] # None
      BY <1>1, <2>1 DEF Progress, Holding, None
    <2>3. plan(image(j), Placement(j)).err = "none"
      BY <2>1, <2>2 DEF image, Placement
    <2>4. pc'[j] \in {"copy", "file"}
      BY <1>1, <1>5, <2>3 DEF Plan, Goto, TypeOK
    <2> QED
      BY <2>4
  <1>6. CASE Undo(j)
    BY <1>6, ReleaseStep DEF Undo, Planned
  <1> QED
    BY <1>2, <1>3, <1>4, <1>5, <1>6, WaysToFail

\* A load that has failed stays as it is, whoever acts.
LEMMA FailedStays ==
  ASSUME IInv, NEW x \in Jobs \cup Others, OwnershipStep(x), NEW k \in Jobs, k # x,
         pc'[k] = pc[k], src'[k] = src[k], raw'[k] = raw[k], FailedClean(k)
  PROVE  FailedClean(k)'
  <1>1. Owned(k)' = Owned(k)
    BY OwnersApart DEF IInv
  <1>2. image(k)' = image(k) /\ Placement(k)' = Placement(k)
    BY DEF image, Placement
  <1> QED
    BY <1>1, <1>2, Zenon DEF FailedClean

-----------------------------------------------------------------------------
(***************************************************************************)
(* Theorems.                                                               *)
(***************************************************************************)
\* The inductive invariant holds throughout.
THEOREM Invariance == Spec => []IInv
  <1>1. Init => IInv
    BY Initially
  <1>2. IInv /\ [Next]_vars => IInv'
    BY Preserved
  <1> QED
    BY <1>1, <1>2, PTL DEF Spec

\* Every variable of the loader keeps its type, for any images and any number
\* of concurrent loads.
THEOREM TypeCorrect == Spec => []TypeOK
  <1>1. IInv => TypeOK
    BY DEF IInv
  <1> QED
    BY <1>1, Invariance, PTL

\* A load owns exactly its reservation from the moment it is taken until
\* unload releases it: fill_mapped and fill_copied never map, store or protect
\* outside of it, whatever the image, the page size and the interleaving.
THEOREM ReservationIsHeld == Spec => []ReservationHeld
  <1>1. IInv => ReservationHeld
    BY DEF IInv
  <1> QED
    BY <1>1, Invariance, PTL

\* No step of a load changes the owner, the rights or the contents of a byte
\* of another load or of an unrelated thread, although every segment is mapped
\* with MAP_FIXED.
THEOREM NothingIsEvicted == Spec => NeverEvicts
  <1> DEFINE A == \A j \in Jobs : Moved(j) =>
                    \A x \in Space : own[x] \notin {j, Nobody} =>
                       own'[x] = own[x] /\ prot'[x] = prot[x] /\ val'[x] = val[x]
  <1>1. IInv /\ [Next]_vars => [A]_vars
    <2> SUFFICES ASSUME IInv, Next PROVE A
      OBVIOUS
    <2>1. ASSUME NEW j \in Jobs, JobStep(j) PROVE A
      <3>1. Confined(j) /\ Apart(j)
        BY <2>1, JobStepSound DEF Sound, VmStep
      <3>2. \A k \in Jobs \ {j} : ~Moved(k)
        BY <3>1 DEF Apart, Moved
      <3> QED
        BY <3>1, <3>2 DEF Confined
    <2>2. ASSUME NEW o \in Others, OtherMap(o) \/ OtherUnmap(o) PROVE A
      BY <2>2, OtherStepSound DEF Moved, locals
    <2> QED
      BY <2>1, <2>2 DEF Next
  <1> QED
    BY <1>1, Invariance, PTL DEF Spec, NeverEvicts

\* The loader implements ImageSpace: a range is taken whole from free bytes
\* only, and is given back whole.
THEOREM Refinement == Spec => ImplementsImageSpace
  <1>1. Init => Territory!Init
    BY DEF Init, Territory!Init
  <1>2. IInv /\ [Next]_vars => [Territory!Next]_own
    <2> SUFFICES ASSUME IInv, [Next]_vars, own' # own PROVE Territory!Next
      OBVIOUS
    <2>1. TypeOK
      BY DEF IInv
    <2>2. PICK x \in Jobs \cup Others : VmStep(x)
      <3>1. Next
        BY DEF vars, vmvars
      <3> QED
        BY <3>1, JobStepSound, OtherStepSound DEF Next, Sound
    <2>3. x # Nobody /\ own' \in [Space -> (Jobs \cup Others) \cup {Nobody}]
      BY <2>2, LoaderAssumption DEF VmStep, VmType
    <2>4. CASE Takes(x)
      <3>1. PICK lo, hi \in Space : /\ lo <= hi
                                    /\ lo..hi \subseteq Owned(Nobody)
                                    /\ Owned(x) = {}
                                    /\ SetOwn(lo..hi, x)
        BY <2>4 DEF Takes
      <3>2. lo..hi \subseteq Space /\ \A a \in lo..hi : own[a] = Nobody
        BY <3>1 DEF Owned
      <3>3. Owned(x)' = lo..hi
        BY <2>1, <2>3, <3>1, <3>2, Taking, Zenon
      <3>4. lo \in lo..hi /\ hi \in lo..hi
        BY <3>1, SpaceNat
      <3>5. \A a \in Space \ (lo..hi) : own'[a] = own[a]
        BY <3>1 DEF SetOwn
      <3>6. Territory!Held(x) = {} /\ Territory!Held(x)' = lo..hi
            /\ lo..hi \subseteq Territory!Held(Nobody)
        BY <3>1, <3>3 DEF Owned, Territory!Held
      <3>7. Territory!Take(x)
        BY <2>3, <3>4, <3>5, <3>6 DEF Territory!Take
      <3> QED
        BY <3>7 DEF Territory!Next
    <2>5. CASE Gives(x)
      <3>1. own' = [a \in Space |-> IF a \in Owned(x) THEN Nobody ELSE own[a]]
        BY <2>5 DEF Gives, SetOwn
      <3>2. Owned(x) # {}
        BY <2>1, <3>1 DEF TypeOK
      <3>3. Territory!Held(x) = Owned(x)
        BY DEF Owned, Territory!Held
      <3>4. Territory!GiveBack(x)
        BY <3>1, <3>2, <3>3 DEF Territory!GiveBack
      <3> QED
        BY <3>4 DEF Territory!Next
    <2> QED
      BY <2>2, <2>4, <2>5 DEF VmStep, OwnershipStep
  <1> QED
    BY <1>1, <1>2, Invariance, PTL DEF Spec, ImplementsImageSpace, Territory!Spec

\* A load that fails leaves nothing behind, at whichever of its steps and with
\* whichever of its calls failing, unless its plan failed or munmap did.
THEOREM NothingLeftBehind == Spec => []FailedFillLeavesNothing
  <1> DEFINE Clean == \A j \in Jobs : FailedClean(j)
  <1>1. Init => Clean
    BY DEF Init, FailedClean
  <1>2. IInv /\ Clean /\ [Next]_vars => Clean'
    <2> SUFFICES ASSUME IInv, Clean, [Next]_vars PROVE Clean'
      OBVIOUS
    <2>1. ASSUME NEW j \in Jobs, JobStep(j) PROVE Clean'
      <3>1. OwnershipStep(j) /\ Apart(j)
        BY <2>1, JobStepSound DEF Sound, VmStep
      <3>2. ASSUME NEW k \in Jobs \ {j} PROVE FailedClean(k)'
        BY <3>1, FailedStays DEF Apart
      <3> QED
        BY <2>1, <3>2, FailingStep
    <2>2. ASSUME NEW o \in Others, OtherMap(o) \/ OtherUnmap(o) PROVE Clean'
      <3>1. OwnershipStep(o) /\ UNCHANGED <<pc, locals>>
        BY <2>2, OtherStepSound DEF VmStep
      <3> QED
        BY <3>1, FailedStays, LoaderAssumption DEF locals
    <2>3. CASE UNCHANGED vars
      BY <2>3 DEF vars, vmvars, locals, FailedClean, Owned, image, Placement
    <2> QED
      BY <2>1, <2>2, <2>3 DEF Next
  <1>3. Clean <=> FailedFillLeavesNothing
    BY DEF FailedClean, FailedFillLeavesNothing
  <1> HIDE DEF Clean
  <1> QED
    BY <1>1, <1>2, <1>3, Invariance, PTL DEF Spec
=============================================================================
