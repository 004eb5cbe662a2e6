------------------------------ MODULE Planning ------------------------------
(***************************************************************************)
(* From the bytes of a file to a plan: Image::parse, the reservation its   *)
(* answer is asked for, and layout::plan at the address that came back.    *)
(* One file is followed through the three calls, whatever the file.        *)
(***************************************************************************)
EXTENDS ElfParse, Layout

CONSTANTS
  Files,     \* the files that may be met
  Bases      \* addresses mmap may return for a reservation

ASSUME BaseAssumption == \A b \in Bases : b \in Word /\ b % PageSize = 0

VARIABLES
  file,      \* the file
  stage,     \* "file", "rejected", "image", "refused", "planned", "panic"
  why,       \* the Reject of parse
  pl         \* the plan

vars == <<file, stage, why, pl>>

theImage == ImageOf(file)

NoPlan == [err |-> "unplanned"]

Init ==
  /\ file \in Files
  /\ stage = "file"
  /\ why = "none"
  /\ pl = NoPlan

Parse(oom) ==
  /\ stage = "file"
  /\ why' = parse(file, oom)
  /\ stage' = IF why' = "none" THEN "image" ELSE "rejected"
  /\ UNCHANGED <<file, pl>>

\* A reservation lies wholly inside the address space, and that of an ET_EXEC
\* is kept only at its own address.
Placements(im) ==
  LET room(len) == {b \in Bases : b + len <= WordMax}
  IN  IF im.e_type = "DYN" THEN {At(b) : b \in room(reservation_len(im))}
      ELSE {Fixed : b \in {va_lo(im)} \cap room(span(im))}

\* reservation_len or mmap refuses, or the plan is made where mmap reserved.
Place ==
  /\ stage = "image"
  /\ \/ stage' = "refused" /\ UNCHANGED pl
     \/ /\ reservation_len(theImage) # None
        /\ \E where \in Placements(theImage) : pl' = plan(theImage, where)
        /\ stage' = CASE pl'.err = "none"  -> "planned"
                      [] pl'.err = "panic" -> "panic"
                      [] OTHER -> "refused"
  /\ UNCHANGED <<file, why>>

Next == (\E oom \in BOOLEAN : Parse(oom)) \/ Place

Spec == Init /\ [][Next]_vars

-----------------------------------------------------------------------------
(***************************************************************************)
(* Properties.                                                             *)
(***************************************************************************)
\* Whatever the file, an Image that Image::parse accepts satisfies everything
\* the loader takes for granted of it.
ParseEstablishesImage ==
  stage \notin {"file", "rejected"} => ValidImage(theImage)

Pages(s) == range(s).start..(range(s).end - 1)

\* The pages of two segments of a plan never meet, and all of them lie in the
\* reservation: the check of neighbours in parse is enough for MAP_FIXED.
SegmentsApart ==
  stage = "planned" =>
    \A i \in DOMAIN pl.segments :
      /\ Pages(pl.segments[i])
           \subseteq pl.reserve_addr..(pl.reserve_addr + pl.reserve_len - 1)
      /\ \A k \in DOMAIN pl.segments :
           i # k => Pages(pl.segments[i]) \cap Pages(pl.segments[k]) = {}

\* A file mapping starts at a page of the file, puts the byte at p_offset at
\* the biased p_vaddr, and ends past the file only within its last page when
\* the size of the file is known.
FileMapsAlign ==
  stage = "planned" =>
    \A i \in DOMAIN pl.segments :
      LET s == pl.segments[i]
      IN  s.file.len > 0 =>
            /\ s.file.off >= 0 /\ s.file.off % PageSize = 0
            /\ s.ph.p_vaddr + pl.bias - s.file.addr = s.ph.p_offset - s.file.off
            /\ file.sized => s.file.off + s.file.len < file.size + PageSize

\* The unchecked additions of va_span, plan and range stay within a word for
\* every file parse accepts and every address mmap can return.
PlanNeverPanics == stage # "panic"

\* The table AT_PHDR points to, when no PT_PHDR names it, is the one of the
\* file: the first byte of the table, inside the file part of a segment.
FoundTableIsMapped ==
  stage = "planned" /\ theImage.phdr_seg = None /\ phdr_addr(theImage, pl) # None =>
    \E i \in DOMAIN pl.segments :
      LET ph == pl.segments[i].ph
          at == phdr_addr(theImage, pl) - (ph.p_vaddr + pl.bias)
      IN  0 <= at /\ at < ph.p_filesz /\ ph.p_offset + at = file.e_phoff

\* "Trust PT_PHDR only if it actually falls inside a PT_LOAD": AT_PHDR is an
\* address inside the pages of some segment.
PhdrInsideLoad ==
  stage = "planned" /\ phdr_addr(theImage, pl) # None =>
    \E i \in DOMAIN pl.segments : phdr_addr(theImage, pl) \in Pages(pl.segments[i])
=============================================================================
