---------------------------- MODULE LayoutProofs ----------------------------
(***************************************************************************)
(* Lemmas about the word arithmetic of elf.rs and the plans of layout.rs,  *)
(* for every page size, alignment and image.                               *)
(***************************************************************************)
EXTENDS Layout, TLAPS

-----------------------------------------------------------------------------
(***************************************************************************)
(* Multiples.                                                              *)
(***************************************************************************)
\* Division with remainder.
LEMMA DivMod ==
  ASSUME NEW v \in Nat, NEW a \in Nat \ {0}
  PROVE  /\ v % a \in 0..(a - 1)
         /\ v \div a \in Nat
         /\ v = a * (v \div a) + (v % a)
  OBVIOUS

\* A number without remainder is a multiple.
LEMMA IsMultiple ==
  ASSUME NEW v \in Nat, NEW a \in Nat \ {0}, v % a = 0
  PROVE  v \div a \in Nat /\ v = a * (v \div a)
  BY DivMod

\* A multiple has no remainder.
LEMMA MultipleMod ==
  ASSUME NEW q \in Nat, NEW a \in Nat \ {0}
  PROVE  (a * q) % a = 0
  OBVIOUS

\* Distinct multiples are at least one modulus apart.
LEMMA MultipleGap ==
  ASSUME NEW v \in Nat, NEW w \in Nat, NEW a \in Nat \ {0},
         v % a = 0, w % a = 0, v < w
  PROVE  v + a <= w
  <1> DEFINE p == v \div a
  <1> DEFINE q == w \div a
  <1>1. p \in Nat /\ v = a * p /\ q \in Nat /\ w = a * q
    BY IsMultiple
  <1> HIDE DEF p, q
  <1>2. a * p + a <= a * q
    <2>1. a * p < a * q
      BY <1>1
    <2> QED
      BY <1>1, <2>1
  <1> QED
    BY <1>1, <1>2

\* Multiples are closed under addition and under subtraction.
LEMMA MultipleAdd ==
  ASSUME NEW v \in Nat, NEW w \in Nat, NEW a \in Nat \ {0}, v % a = 0, w % a = 0
  PROVE  (v + w) % a = 0
  <1> DEFINE p == v \div a
  <1> DEFINE q == w \div a
  <1>1. p \in Nat /\ v = a * p /\ q \in Nat /\ w = a * q
    BY IsMultiple
  <1> HIDE DEF p, q
  <1>2. a * p + a * q = a * (p + q)
    BY <1>1
  <1>3. (a * (p + q)) % a = 0
    BY <1>1, MultipleMod
  <1> QED
    BY <1>1, <1>2, <1>3

\* The difference of two multiples is a multiple.
LEMMA MultipleSub ==
  ASSUME NEW v \in Nat, NEW w \in Nat, NEW a \in Nat \ {0}, v % a = 0, w % a = 0, w <= v
  PROVE  (v - w) % a = 0
  <1> DEFINE p == v \div a
  <1> DEFINE q == w \div a
  <1>1. p \in Nat /\ v = a * p /\ q \in Nat /\ w = a * q
    BY IsMultiple
  <1> HIDE DEF p, q
  <1>2. q <= p
    BY <1>1
  <1>3. a * p - a * q = a * (p - q) /\ p - q \in Nat
    BY <1>1, <1>2
  <1>4. (a * (p - q)) % a = 0
    BY <1>3, MultipleMod
  <1> QED
    BY <1>1, <1>3, <1>4

\* A multiple of a multiple.
LEMMA MultipleTrans ==
  ASSUME NEW v \in Nat, NEW b \in Nat \ {0}, NEW a \in Nat \ {0}, v % b = 0, b % a = 0
  PROVE  v % a = 0
  <1> DEFINE p == v \div b
  <1> DEFINE q == b \div a
  <1>1. p \in Nat /\ v = b * p /\ q \in Nat /\ b = a * q
    BY IsMultiple
  <1> HIDE DEF p, q
  <1>2. (a * q) * p = a * (q * p) /\ q * p \in Nat
    BY <1>1
  <1>3. (a * (q * p)) % a = 0
    BY <1>2, MultipleMod
  <1> QED
    BY <1>1, <1>2, <1>3

-----------------------------------------------------------------------------
(***************************************************************************)
(* align_down and align_up.                                                *)
(***************************************************************************)
\* align_down rounds to a multiple, downwards and by less than a.
LEMMA AlignDown ==
  ASSUME NEW v \in Nat, NEW a \in Nat \ {0}
  PROVE  /\ align_down(v, a) \in Nat
         /\ align_down(v, a) <= v
         /\ v < align_down(v, a) + a
         /\ align_down(v, a) % a = 0
  <1>1. align_down(v, a) = a * (v \div a) /\ v \div a \in Nat
    BY DivMod DEF align_down
  <1>2. align_down(v, a) % a = 0
    BY <1>1, MultipleMod
  <1> QED
    BY <1>2, DivMod DEF align_down

\* It is the greatest such multiple.
LEMMA AlignDownGreatest ==
  ASSUME NEW v \in Nat, NEW a \in Nat \ {0}, NEW m \in Nat, m % a = 0, m <= v
  PROVE  m <= align_down(v, a)
  <1>1. SUFFICES ASSUME align_down(v, a) < m PROVE FALSE
    BY AlignDown
  <1>2. align_down(v, a) + a <= m
    BY <1>1, AlignDown, MultipleGap
  <1> QED
    BY <1>2, AlignDown

\* align_up, when it does not overflow, rounds to a multiple, upwards and by
\* less than a.
LEMMA AlignUp ==
  ASSUME NEW v \in Nat, NEW a \in Nat \ {0}, align_up(v, a) # None
  PROVE  /\ align_up(v, a) \in Nat
         /\ v <= align_up(v, a)
         /\ align_up(v, a) < v + a
         /\ align_up(v, a) % a = 0
         /\ v + (a - 1) <= WordMax
  <1>1. align_up(v, a) = align_down(v + (a - 1), a) /\ v + (a - 1) <= WordMax
    BY WordAssumption DEF align_up
  <1> DEFINE w == v + (a - 1)
  <1>2. w \in Nat
    OBVIOUS
  <1> HIDE DEF w
  <1>3. /\ align_down(w, a) \in Nat
        /\ align_down(w, a) <= w
        /\ w < align_down(w, a) + a
        /\ align_down(w, a) % a = 0
    BY <1>2, AlignDown
  <1> QED
    BY <1>1, <1>3 DEF w

\* It is the least such multiple.
LEMMA AlignUpLeast ==
  ASSUME NEW v \in Nat, NEW a \in Nat \ {0}, align_up(v, a) # None,
         NEW m \in Nat, m % a = 0, v <= m
  PROVE  align_up(v, a) <= m
  <1>1. SUFFICES ASSUME m < align_up(v, a) PROVE FALSE
    BY AlignUp
  <1>2. m + a <= align_up(v, a)
    BY <1>1, AlignUp, MultipleGap
  <1> QED
    BY <1>2, AlignUp

-----------------------------------------------------------------------------
(***************************************************************************)
(* Images.                                                                 *)
(***************************************************************************)
\* Pages are not empty.
LEMMA PagePositive == PageSize \in Nat \ {0} /\ WordMax \in Nat
  BY WordAssumption

\* Alignments are positive, and the larger is a multiple of the smaller.
LEMMA Pow2Nat ==
  /\ \A a \in Pow2 : a \in Nat \ {0}
  /\ \A a, b \in Pow2 : a <= b => b % a = 0
  BY WordAssumption

\* The alignment of the reservation is a whole number of pages.
LEMMA SegAlign ==
  ASSUME NEW im, ValidImage(im)
  PROVE  /\ seg_align(im) \in Nat \ {0}
         /\ seg_align(im) >= PageSize
         /\ seg_align(im) % PageSize = 0
  <1>1. load_align(im) \in Pow2
    BY DEF ValidImage
  <1>2. PageSize \in Pow2 /\ MaxSegAlign \in Pow2
    BY WordAssumption, SegAlignAssumption
  <1>3. load_align(im) \in Nat /\ PageSize \in Nat /\ MaxSegAlign \in Nat
    BY <1>1, <1>2, Pow2Nat
  <1>4. seg_align(im) \in Pow2 /\ seg_align(im) >= PageSize
    BY <1>1, <1>2, <1>3, SegAlignAssumption DEF seg_align
  <1> QED
    BY <1>2, <1>3, <1>4, Pow2Nat

\* The headers of a valid image, as numbers.
LEMMA LoadTypes ==
  ASSUME NEW im, ValidImage(im), NEW i \in DOMAIN im.loads
  PROVE  /\ Len(im.loads) \in Nat \ {0}
         /\ DOMAIN im.loads = 1..Len(im.loads)
         /\ im.loads[i].p_vaddr \in Nat
         /\ im.loads[i].p_offset \in Nat
         /\ im.loads[i].p_memsz \in Nat
         /\ im.loads[i].p_filesz \in Nat
         /\ im.loads[i].p_filesz <= im.loads[i].p_memsz
         /\ seg_end(im.loads[i]) \in Nat
         /\ im.loads[i].p_vaddr <= seg_end(im.loads[i])
         /\ im.e_entry \in Nat
  <1>1. im.loads \in Seq(Phdrs) /\ im.loads # <<>> /\ im.e_entry \in Word
    BY DEF ValidImage
  <1>2. im.loads[i] \in Phdrs
    BY <1>1
  <1>3. im.loads[i].p_filesz <= im.loads[i].p_memsz
    BY DEF ValidImage, ValidLoad
  <1>4. /\ im.loads[i].p_vaddr \in Nat
        /\ im.loads[i].p_offset \in Nat
        /\ im.loads[i].p_memsz \in Nat
        /\ im.loads[i].p_filesz \in Nat
        /\ im.e_entry \in Nat
    <2>1. /\ im.loads[i].p_vaddr \in Word
          /\ im.loads[i].p_offset \in Word
          /\ im.loads[i].p_memsz \in Word
          /\ im.loads[i].p_filesz \in Word
      BY <1>2 DEF Phdrs
    <2>2. Word \subseteq Nat
      BY PagePositive DEF Word
    <2> QED
      BY <1>1, <2>1, <2>2
  <1>5. Len(im.loads) \in Nat \ {0} /\ DOMAIN im.loads = 1..Len(im.loads)
    BY <1>1
  <1> QED
    BY <1>3, <1>4, <1>5 DEF seg_end

\* A valid image has a first segment.
LEMMA FirstLoad ==
  ASSUME NEW im, ValidImage(im)
  PROVE  1 \in DOMAIN im.loads
  <1>1. im.loads \in Seq(Phdrs) /\ im.loads # <<>>
    BY DEF ValidImage
  <1> QED
    BY <1>1

\* The segments of a valid image lie in its span of link addresses: the test
\* on neighbours that parse makes is enough, because the headers are sorted.
LEMMA SegmentsInSpan ==
  ASSUME NEW im, ValidImage(im), va_hi(im) # None, NEW i \in DOMAIN im.loads
  PROVE  /\ va_lo(im) \in Nat
         /\ va_lo(im) % PageSize = 0
         /\ va_hi(im) \in Nat
         /\ va_hi(im) % PageSize = 0
         /\ va_lo(im) <= im.loads[i].p_vaddr
         /\ seg_end(im.loads[i]) <= va_hi(im)
  <1> DEFINE n == Len(im.loads)
  <1>1. n \in Nat \ {0} /\ DOMAIN im.loads = 1..n
    BY LoadTypes
  <1>2. 1 \in DOMAIN im.loads /\ n \in DOMAIN im.loads
    BY <1>1
  <1>3. /\ va_lo(im) \in Nat
        /\ va_lo(im) % PageSize = 0
        /\ va_lo(im) <= im.loads[1].p_vaddr
    BY <1>2, LoadTypes, AlignDown, PagePositive DEF va_lo
  <1>4. /\ va_hi(im) \in Nat
        /\ va_hi(im) % PageSize = 0
        /\ seg_end(im.loads[n]) <= va_hi(im)
    BY <1>2, LoadTypes, AlignUp, PagePositive DEF va_hi
  <1>5. \A k, l \in DOMAIN im.loads : k < l => im.loads[k].p_vaddr <= im.loads[l].p_vaddr
    BY DEF ValidImage
  <1>6. im.loads[1].p_vaddr <= im.loads[i].p_vaddr
    BY <1>1, <1>2, <1>5, LoadTypes
  <1>7. seg_end(im.loads[i]) <= va_hi(im)
    <2>1. CASE i = n
      BY <2>1, <1>4
    <2>2. CASE i # n
      <3>1. i \in 1..(n - 1) /\ i + 1 \in DOMAIN im.loads
        BY <2>2, <1>1
      <3> DEFINE a_end == align_up(seg_end(im.loads[i]), PageSize)
      <3>2. ~Overlap(im.loads[i], im.loads[i + 1])
        BY <3>1 DEF ValidImage
      <3>3. a_end # None
        BY <3>2 DEF Overlap
      <3>4. a_end \in Nat /\ seg_end(im.loads[i]) <= a_end /\ a_end % PageSize = 0
        BY <3>3, LoadTypes, AlignUp, PagePositive
      <3>5. align_down(a_end, PageSize) = a_end
        BY <3>4, PagePositive DEF align_down
      <3>6. im.loads[i + 1].p_vaddr \in Nat
        BY <3>1, LoadTypes
      <3>7. align_down(im.loads[i + 1].p_vaddr, PageSize) <= im.loads[i + 1].p_vaddr
        BY <3>6, AlignDown, PagePositive
      <3>8. align_down(im.loads[i + 1].p_vaddr, PageSize) \in Nat
        BY <3>6, AlignDown, PagePositive
      <3>9. a_end <= im.loads[i + 1].p_vaddr
        BY <3>2, <3>4, <3>5, <3>6, <3>7, <3>8 DEF Overlap
      <3>10. im.loads[i + 1].p_vaddr <= im.loads[n].p_vaddr
        BY <1>1, <1>2, <1>5, <3>1, <3>6
      <3>11. im.loads[n].p_vaddr <= seg_end(im.loads[n]) /\ seg_end(im.loads[n]) \in Nat
             /\ im.loads[n].p_vaddr \in Nat /\ seg_end(im.loads[i]) \in Nat
        BY <1>2, LoadTypes
      <3> HIDE DEF a_end
      <3> QED
        BY <3>4, <3>6, <3>9, <3>10, <3>11, <1>4
    <2> QED
      BY <2>1, <2>2
  <1> QED
    BY <1>2, <1>3, <1>4, <1>6, <1>7, LoadTypes

-----------------------------------------------------------------------------
(***************************************************************************)
(* Plans.                                                                  *)
(***************************************************************************)
\* The slack that reservation_len adds is enough: rounding a page-aligned
\* address up to al moves it by at most al - PageSize.
LEMMA SlackEnough ==
  ASSUME NEW raw \in Nat, raw % PageSize = 0,
         NEW al \in Nat \ {0}, al % PageSize = 0,
         align_up(raw, al) # None
  PROVE  /\ align_up(raw, al) \in Nat
         /\ raw <= align_up(raw, al)
         /\ align_up(raw, al) % PageSize = 0
         /\ align_up(raw, al) <= raw + (al - PageSize)
  <1> DEFINE base == align_up(raw, al)
  <1>1. base \in Nat /\ raw <= base /\ base % al = 0 /\ base < raw + al
    BY AlignUp
  <1>2. base % PageSize = 0
    BY <1>1, MultipleTrans, PagePositive
  <1>5. PageSize \in Nat \ {0}
    BY PagePositive
  <1> HIDE DEF base
  <1>3. raw + al \in Nat /\ (raw + al) % PageSize = 0
    <2>1. al \in Nat
      OBVIOUS
    <2>2. (raw + al) % PageSize = 0
      BY <1>5, <2>1, MultipleAdd, Zenon
    <2> QED
      BY <2>1, <2>2
  <1>4. base + PageSize <= raw + al
    BY <1>1, <1>2, <1>3, <1>5, MultipleGap
  <1> QED
    BY <1>1, <1>2, <1>4, PagePositive DEF base

\* Where a plan puts the image: page-aligned, inside the reservation, and
\* ending where the reservation does or before.
LEMMA PlanBounds ==
  ASSUME NEW im, ValidImage(im), va_hi(im) # None, va_lo(im) <= va_hi(im),
         NEW where, where.kind \in {"Fixed", "At"},
         where.kind = "At" => where.raw \in Nat /\ where.raw % PageSize = 0,
         plan(im, where).err = "none"
  PROVE  LET p == plan(im, where) IN
         /\ p.bias \in Nat
         /\ p.bias % PageSize = 0
         /\ p.base = va_lo(im) + p.bias
         /\ p.reserve_addr \in Nat
         /\ p.reserve_len \in Nat
         /\ p.reserve_addr <= p.base
         /\ va_hi(im) + p.bias <= p.reserve_addr + p.reserve_len
         /\ p.segments = [i \in DOMAIN im.loads |-> SegmentPlan(im.loads[i], p.bias)]
         /\ \A i \in DOMAIN im.loads :
               align_up(seg_end(im.loads[i]) + p.bias, PageSize) # None
         /\ where.kind = "Fixed" =>
              p.bias = 0 /\ p.reserve_addr = va_lo(im) /\ p.reserve_len = span(im)
         /\ where.kind = "At" =>
              p.reserve_addr = where.raw
              /\ p.reserve_len = span(im) + (seg_align(im) - PageSize)
  <1> DEFINE p    == plan(im, where)
  <1> DEFINE al   == seg_align(im)
  <1> DEFINE base == IF where.kind = "Fixed" THEN va_lo(im) ELSE align_up(where.raw, al)
  <1> DEFINE bias == base - va_lo(im)
  <1>1. /\ ~(base < va_lo(im)) /\ ~PlanRefuses(im, bias)
        /\ p = [err          |-> "none",
                bias         |-> bias,
                reserve_addr |-> IF where.kind = "Fixed" THEN va_lo(im) ELSE where.raw,
                reserve_len  |-> IF where.kind = "Fixed" THEN span(im)
                                 ELSE span(im) + (al - PageSize),
                base         |-> base,
                end          |-> va_hi(im) + bias,
                segments     |-> [i \in DOMAIN im.loads |-> SegmentPlan(im.loads[i], bias)],
                entry        |-> im.e_entry + bias]
    BY DEF plan
  <1>2. /\ p.bias = bias /\ p.base = base
        /\ p.segments = [i \in DOMAIN im.loads |-> SegmentPlan(im.loads[i], bias)]
        /\ p.reserve_addr = IF where.kind = "Fixed" THEN va_lo(im) ELSE where.raw
        /\ p.reserve_len = IF where.kind = "Fixed" THEN span(im)
                           ELSE span(im) + (al - PageSize)
    BY <1>1
  <1>3. \A i \in DOMAIN im.loads :
           align_up(seg_end(im.loads[i]) + bias, PageSize) # None
    BY <1>1 DEF PlanRefuses
  <1>4. /\ va_lo(im) \in Nat /\ va_lo(im) % PageSize = 0 /\ va_hi(im) \in Nat
        /\ PageSize \in Nat \ {0}
    <2>1. 1 \in DOMAIN im.loads
      BY FirstLoad
    <2> QED
      BY <2>1, SegmentsInSpan, PagePositive
  <1>5. al \in Nat \ {0} /\ al >= PageSize /\ al % PageSize = 0
    BY SegAlign
  <1> HIDE DEF p, al
  <1>6. CASE where.kind = "Fixed"
    <2>1. base = va_lo(im) /\ bias = 0
      BY <1>6, <1>4
    <2>2. 0 % PageSize = 0
      BY <1>4
    <2> QED
      BY <1>2, <1>3, <1>4, <1>6, <2>1, <2>2 DEF span, p, al
  <1>7. CASE where.kind = "At"
    <2>1. base = align_up(where.raw, al)
      BY <1>7
    <2>2. base # None
      BY <1>1, <1>4, <2>1 DEF None
    <2>3. /\ base \in Nat /\ where.raw <= base /\ base % PageSize = 0
          /\ base <= where.raw + (al - PageSize)
      BY <1>5, <1>7, <2>1, <2>2, SlackEnough
    <2> HIDE DEF base
    <2>4. bias \in Nat /\ bias % PageSize = 0
      BY <1>1, <1>4, <2>3, MultipleSub
    <2>5. va_hi(im) + bias <= where.raw + (span(im) + (al - PageSize))
      BY <1>4, <1>5, <1>7, <2>3 DEF span
    <2>6. span(im) + (al - PageSize) \in Nat
      BY <1>4, <1>5 DEF span
    <2>7. base = va_lo(im) + bias
      BY <1>4, <2>3
    <2> QED
      BY <1>2, <1>3, <1>7, <2>3, <2>4, <2>5, <2>6, <2>7 DEF p, al
  <1> QED
    BY <1>6, <1>7

\* A piece lies between two addresses.
Inside(piece, lo, hi) ==
  /\ piece.addr \in Nat
  /\ piece.len \in Nat
  /\ lo <= piece.addr
  /\ piece.addr + piece.len <= hi

\* Everything plan arranges for a segment (the file mapping, the tail to
\* clear, the anonymous pages, the range to protect) lies between the biased
\* ends of the image's span.
LEMMA SegmentInside ==
  ASSUME NEW im, ValidImage(im), va_hi(im) # None, NEW i \in DOMAIN im.loads,
         NEW bias \in Nat, bias % PageSize = 0,
         align_up(seg_end(im.loads[i]) + bias, PageSize) # None
  PROVE  LET ph == im.loads[i]
             S  == SegmentPlan(ph, bias)
             lo == va_lo(im) + bias
             hi == va_hi(im) + bias
         IN  /\ Inside(S.file, lo, hi)
             /\ Inside(S.zero, lo, hi)
             /\ Inside(S.anon, lo, hi)
             /\ range(S).start \in Nat /\ range(S).end \in Nat
             /\ range(S).start..(range(S).end - 1) \subseteq lo..(hi - 1)
             /\ S.ph = ph
             /\ lo <= ph.p_vaddr + bias
             /\ align_up(ph.p_vaddr + bias + ph.p_memsz, PageSize) <= hi
             /\ align_up(ph.p_vaddr + bias + ph.p_memsz, PageSize) \in Nat
             /\ ph.p_vaddr + bias + ph.p_memsz
                  <= align_up(ph.p_vaddr + bias + ph.p_memsz, PageSize)
  <1> DEFINE ph == im.loads[i]
  <1> DEFINE lo == va_lo(im) + bias
  <1> DEFINE hi == va_hi(im) + bias
  <1> DEFINE v        == ph.p_vaddr + bias
  <1> DEFINE mstart   == align_down(v, PageSize)
  <1> DEFINE mem_end  == align_up(v + ph.p_memsz, PageSize)
  <1> DEFINE fend     == v + ph.p_filesz
  <1> DEFINE fmap_end == align_up(fend, PageSize)
  <1> DEFINE S        == SegmentPlan(ph, bias)
  <1>1. PageSize \in Nat \ {0} /\ WordMax \in Nat
    BY PagePositive
  <1>2. /\ ph.p_vaddr \in Nat /\ ph.p_memsz \in Nat /\ ph.p_filesz \in Nat
        /\ ph.p_filesz <= ph.p_memsz
    BY LoadTypes
  <1>3. /\ va_lo(im) \in Nat /\ va_lo(im) % PageSize = 0
        /\ va_hi(im) \in Nat /\ va_hi(im) % PageSize = 0
        /\ va_lo(im) <= ph.p_vaddr /\ ph.p_vaddr + ph.p_memsz <= va_hi(im)
    BY SegmentsInSpan DEF seg_end
  <1>4. lo \in Nat /\ lo % PageSize = 0 /\ hi \in Nat /\ hi % PageSize = 0
    BY <1>1, <1>3, MultipleAdd
  <1> HIDE DEF ph
  <1>5. v \in Nat /\ v + ph.p_memsz \in Nat /\ fend \in Nat
        /\ lo <= v /\ v + ph.p_memsz <= hi /\ fend <= v + ph.p_memsz
    BY <1>2, <1>3
  <1>6. seg_end(ph) + bias = v + ph.p_memsz
    BY <1>2 DEF seg_end
  <1>7. mem_end # None
    BY <1>6 DEF ph
  <1> HIDE DEF lo, hi, v
  <1>8. mstart \in Nat /\ lo <= mstart /\ mstart <= v
    BY <1>1, <1>4, <1>5, AlignDown, AlignDownGreatest
  <1>9. mem_end \in Nat /\ v + ph.p_memsz <= mem_end /\ mem_end <= hi
        /\ mem_end % PageSize = 0
        /\ v + ph.p_memsz + (PageSize - 1) <= WordMax
    BY <1>1, <1>4, <1>5, <1>7, AlignUp, AlignUpLeast
  <1>10. fmap_end # None
    <2>1. fend + (PageSize - 1) <= WordMax
      BY <1>1, <1>2, <1>5, <1>9
    <2>2. fmap_end = align_down(fend + (PageSize - 1), PageSize)
      BY <1>1, <1>5, <2>1 DEF align_up
    <2>3. fend + (PageSize - 1) \in Nat
      BY <1>1, <1>5
    <2> HIDE DEF fend
    <2>4. align_down(fend + (PageSize - 1), PageSize) \in Nat
      BY <1>1, <2>3, AlignDown
    <2> QED
      BY <2>2, <2>4 DEF None
  <1> HIDE DEF mem_end
  <1>11. fmap_end \in Nat /\ fend <= fmap_end /\ fmap_end <= mem_end
    <2>1. fend <= mem_end
      BY <1>2, <1>5, <1>9
    <2> HIDE DEF fend
    <2> QED
      BY <1>1, <1>5, <1>9, <1>10, <2>1, AlignUp, AlignUpLeast
  <1>12. v <= fend
    BY <1>2, <1>5
  <1> DEFINE file_end == IF ph.p_filesz > 0 THEN fmap_end ELSE mstart
  <1>13. /\ S.file.addr = mstart /\ S.file.len = file_end - mstart
         /\ S.zero = (IF ph.p_filesz > 0 THEN Piece(fend, fmap_end) ELSE Piece(fend, fend))
         /\ S.anon = (IF mem_end > file_end THEN Piece(file_end, mem_end)
                                            ELSE Piece(file_end, file_end))
         /\ S.ph = ph
    BY DEF SegmentPlan, mem_end, v
  <1> HIDE DEF mstart, fend, fmap_end, S
  <1>14. file_end \in Nat /\ mstart <= file_end /\ file_end <= mem_end
    BY <1>2, <1>5, <1>8, <1>9, <1>11, <1>12
  <1> HIDE DEF file_end
  <1>15. Inside(S.file, lo, hi)
    BY <1>4, <1>8, <1>9, <1>13, <1>14 DEF Inside
  <1>16. Inside(S.zero, lo, hi)
    BY <1>4, <1>5, <1>9, <1>11, <1>12, <1>13 DEF Inside, Piece
  <1>17. /\ Inside(S.anon, lo, hi)
         /\ S.anon.addr = file_end
         /\ S.anon.addr + S.anon.len <= mem_end
    BY <1>4, <1>8, <1>9, <1>13, <1>14 DEF Inside, Piece
  <1>18. /\ range(S).start \in Nat /\ range(S).end \in Nat
         /\ range(S).start..(range(S).end - 1) \subseteq lo..(hi - 1)
    <2>1. /\ S.file.addr \in Nat /\ S.file.len \in Nat /\ lo <= S.file.addr
          /\ S.file.addr + S.file.len <= hi
          /\ S.anon.addr \in Nat /\ S.anon.len \in Nat /\ lo <= S.anon.addr
          /\ S.anon.addr + S.anon.len <= hi
      BY <1>15, <1>17 DEF Inside
    <2> DEFINE r == range(S)
    <2>2. \/ S.file.len > 0 \/ S.anon.len > 0
          \/ r.start = 0 /\ r.end = 0
      BY <2>1 DEF range
    <2>3. S.file.len > 0 => r.start = S.file.addr
      BY <2>1 DEF range
    <2>4. S.file.len = 0 /\ S.anon.len > 0 => r.start = S.anon.addr
      BY <2>1 DEF range
    <2>5. S.anon.len > 0 => r.end = S.anon.addr + S.anon.len
      BY <2>1 DEF range
    <2>6. S.anon.len = 0 /\ S.file.len > 0 => r.end = S.file.addr + S.file.len
      BY <2>1 DEF range
    <2> HIDE DEF r
    <2>7. /\ r.start \in Nat /\ r.end \in Nat
          /\ r.start..(r.end - 1) \subseteq lo..(hi - 1)
      BY <1>4, <2>1, <2>2, <2>3, <2>4, <2>5, <2>6
    <2> QED
      BY <2>7 DEF r
  <1> QED
    BY <1>5, <1>9, <1>13, <1>15, <1>16, <1>17, <1>18
       DEF ph, lo, hi, v, mem_end, S
=============================================================================
