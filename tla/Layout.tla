------------------------------- MODULE Layout -------------------------------
(***************************************************************************)
(* rust/src/layout.rs: from a parsed image to a plan of where every byte   *)
(* goes.  Pure: a plan is a record computed from the image and the address *)
(* the system returned for the reservation.                                *)
(* An Option<FileMap> or Option<AnonMap> is a record whose len is 0 for    *)
(* None; the code never builds a Some of length 0.                         *)
(***************************************************************************)
EXTENDS Elf

CONSTANT MaxSegAlign   \* MAX_SEG_ALIGN

ASSUME SegAlignAssumption == MaxSegAlign \in Pow2 /\ MaxSegAlign >= PageSize

prot_of(ph) == {r \in Rights : \/ r = "R" /\ is_read(ph)
                               \/ r = "W" /\ is_write(ph)
                               \/ r = "X" /\ is_exec(ph)}

seg_align(im) ==
  LET capped == IF load_align(im) < MaxSegAlign THEN load_align(im) ELSE MaxSegAlign
  IN  IF capped < PageSize THEN PageSize ELSE capped

span(im) == va_hi(im) - va_lo(im)

\* Mutant: no slack to align the base in.
reservation_len_tight(im) == IF va_hi(im) = None THEN None ELSE span(im)

\* None stands for ENOEXEC.
reservation_len(im) ==
  IF va_hi(im) = None THEN None
                      ELSE checked_add(span(im), seg_align(im) - PageSize)

Fixed   == [kind |-> "Fixed", raw |-> 0]
At(raw) == [kind |-> "At", raw |-> raw]

-----------------------------------------------------------------------------
(***************************************************************************)
(* One iteration of plan's loop, for a header ph loaded with a bias.       *)
(***************************************************************************)
Piece(addr, end) == [addr |-> addr, len |-> end - addr]

SegmentPlan(ph, bias) ==
  LET vaddr    == ph.p_vaddr + bias
      mstart   == align_down(vaddr, PageSize)
      mem_end  == align_up(vaddr + ph.p_memsz, PageSize)
      fend     == vaddr + ph.p_filesz
      fmap_end == align_up(fend, PageSize)
      mapped   == ph.p_filesz > 0
      file_end == IF mapped THEN fmap_end ELSE mstart
      prot     == prot_of(ph)
  IN  [ph   |-> ph,
       file |-> [addr |-> mstart, len |-> file_end - mstart,
                 off |-> ph.p_offset - (vaddr - mstart)],
       zero |-> IF mapped THEN Piece(fend, fmap_end) ELSE Piece(fend, fend),
       anon |-> IF mem_end > file_end THEN Piece(file_end, mem_end)
                                      ELSE Piece(file_end, file_end),
       prot |-> prot,
       needs_write_window |-> mapped /\ fmap_end > fend /\ "W" \notin prot]

\* SegmentPlan::range; (0, 0) for a segment that occupies nothing.
range(seg) ==
  [start |-> CASE seg.file.len > 0 -> seg.file.addr
               [] seg.file.len = 0 /\ seg.anon.len > 0 -> seg.anon.addr
               [] OTHER -> 0,
   end   |-> CASE seg.anon.len > 0 -> seg.anon.addr + seg.anon.len
               [] seg.anon.len = 0 /\ seg.file.len > 0 -> seg.file.addr + seg.file.len
               [] OTHER -> 0]

-----------------------------------------------------------------------------
(***************************************************************************)
(* plan.  err is "none", "ENOMEM" for a checked operation that failed, or  *)
(* "panic" for an unchecked one that overflowed: the crate is built with   *)
(* overflow checks and panic = abort.                                      *)
(***************************************************************************)
\* An unchecked addition of the plan leaves the word.
PlanPanics(im, where, bias) ==
  \/ where.kind = "At" /\ span(im) + (seg_align(im) - PageSize) > WordMax
  \/ va_hi(im) + bias > WordMax
  \/ \E i \in DOMAIN im.loads : seg_end(im.loads[i]) + bias > WordMax

\* A checked operation of the plan yields None.
PlanRefuses(im, bias) ==
  \/ \E i \in DOMAIN im.loads :
        align_up(seg_end(im.loads[i]) + bias, PageSize) = None
  \/ checked_add(im.e_entry, bias) = None

plan(im, where) ==
  LET al   == seg_align(im)
      base == IF where.kind = "Fixed" THEN va_lo(im) ELSE align_up(where.raw, al)
      bias == base - va_lo(im)
      err  == IF base < va_lo(im)                THEN "ENOMEM"   \* or base = None
              ELSE IF PlanPanics(im, where, bias) THEN "panic"
              ELSE IF PlanRefuses(im, bias)       THEN "ENOMEM"
              ELSE "none"
  IN  IF err # "none" THEN [err |-> err]
      ELSE [err          |-> "none",
            bias         |-> bias,
            reserve_addr |-> IF where.kind = "Fixed" THEN va_lo(im) ELSE where.raw,
            reserve_len  |-> IF where.kind = "Fixed" THEN span(im)
                             ELSE span(im) + (al - PageSize),
            base         |-> base,
            end          |-> va_hi(im) + bias,
            segments     |-> [i \in DOMAIN im.loads |-> SegmentPlan(im.loads[i], bias)],
            entry        |-> im.e_entry + bias]

-----------------------------------------------------------------------------
(***************************************************************************)
(* Queries on a finished plan.                                             *)
(***************************************************************************)
covers(pl, addr) == pl.base <= addr /\ addr < pl.end

\* Mutant: as if every segment started at offset 0 of the file.
linked_at_start(im, ph) == checked_add(im.e_phoff, ph.p_vaddr)

\* The link address of the table, when header ph holds it.
linked_at(im, ph) == checked_add(im.e_phoff - ph.p_offset, ph.p_vaddr)

\* Where the program header table is visible to the program, or None.
phdr_addr(im, pl) ==
  LET declared == checked_add(im.phdr_seg, pl.bias)
      holders  == {i \in DOMAIN im.loads :
                     /\ im.loads[i].p_offset <= im.e_phoff
                     /\ im.e_phoff < im.loads[i].p_offset + im.loads[i].p_filesz}
      first    == im.loads[CHOOSE i \in holders : \A k \in holders : i <= k]
      linked   == linked_at(im, first)
  IN  CASE im.phdr_seg # None /\ (declared = None \/ covers(pl, declared)) -> declared
        [] OTHER -> IF holders = {} THEN None
                    ELSE IF linked = None THEN None
                    ELSE checked_add(linked, pl.bias)

exec_ranges(pl) ==
  {range(pl.segments[i]) : i \in {k \in DOMAIN pl.segments : is_exec(pl.segments[k].ph)}}

entry_is_executable(pl) ==
  \E i \in DOMAIN pl.segments :
     /\ "X" \in pl.segments[i].prot
     /\ range(pl.segments[i]).start <= pl.entry
     /\ pl.entry < range(pl.segments[i]).end
=============================================================================
