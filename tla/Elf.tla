-------------------------------- MODULE Elf --------------------------------
(***************************************************************************)
(* A parsed image, as rust/src/elf.rs hands it to the rest of the loader:  *)
(* the word arithmetic, the rights a segment asks for, the span of link    *)
(* addresses, and what Image::parse guarantees of every image it accepts.  *)
(* An image is a record                                                    *)
(*    e_type, e_entry, e_phoff   from the ELF header;                      *)
(*    loads                      the PT_LOAD headers by ascending p_vaddr; *)
(*    interp                     whether there is a PT_INTERP;             *)
(*    phdr_seg                   None, or the p_vaddr of PT_PHDR;          *)
(*    exec_stack                 PT_GNU_STACK asks for an executable stack.*)
(***************************************************************************)
EXTENDS Integers, Sequences

CONSTANTS
  PageSize,    \* bytes in a page
  WordMax,     \* the largest u64
  Pow2         \* the powers of two a u64 can hold

ASSUME WordAssumption ==
  /\ WordMax \in Nat
  /\ Pow2 \subseteq 1..WordMax
  /\ \A a, b \in Pow2 : a <= b => b % a = 0
  /\ PageSize \in Pow2

\* Option::None for a u64; every Some is a natural number.
None == -1

Word == 0..WordMax

-----------------------------------------------------------------------------
(***************************************************************************)
(* Word arithmetic.  Masking with !(a - 1) is subtracting the remainder    *)
(* when a is a power of two.                                               *)
(***************************************************************************)
checked_add(a, b) == IF a + b > WordMax THEN None ELSE a + b

align_down(v, a) == v - (v % a)

align_up(v, a) ==
  IF v + (a - 1) > WordMax THEN None ELSE align_down(v + (a - 1), a)

-----------------------------------------------------------------------------
(***************************************************************************)
(* Segment flags: PF_X = 1, PF_W = 2, PF_R = 4.  Rights are a set.         *)
(***************************************************************************)
is_exec(ph)  == ph.p_flags % 2 = 1
is_write(ph) == (ph.p_flags \div 2) % 2 = 1
is_read(ph)  == (ph.p_flags \div 4) % 2 = 1

Rights == {"R", "W", "X"}

-----------------------------------------------------------------------------
(***************************************************************************)
(* Image::va_span and Image::load_align.                                   *)
(***************************************************************************)
seg_end(ph) == ph.p_vaddr + ph.p_memsz

va_lo(im) == align_down(im.loads[1].p_vaddr, PageSize)

\* None stands for the ENOEXEC of a span whose end does not fit in a word.
va_hi(im) == align_up(seg_end(im.loads[Len(im.loads)]), PageSize)

load_align(im) ==
  LET asked == {PageSize} \cup
               {im.loads[i].p_align : i \in {k \in DOMAIN im.loads :
                                              im.loads[k].p_align \in Pow2}}
  IN  CHOOSE a \in asked : \A b \in asked : b <= a

-----------------------------------------------------------------------------
(***************************************************************************)
(* What parse has established of a PT_LOAD header (validate_load) and of   *)
(* the whole image.  Whether the file is long enough is known only when    *)
(* its size is, and is not part of it.                                     *)
(***************************************************************************)
Phdrs == [p_type : {"LOAD", "INTERP", "PHDR", "STACK", "OTHER"}, p_flags : 0..7,
          p_offset : Word, p_vaddr : Word, p_filesz : Word, p_memsz : Word,
          p_align : Word]

ValidLoad(ph) ==
  /\ ph.p_filesz <= ph.p_memsz
  /\ ph.p_align \in Pow2 \cup {0}
  /\ checked_add(ph.p_vaddr, ph.p_memsz) # None
  /\ checked_add(ph.p_offset, ph.p_filesz) # None
  /\ ph.p_filesz # 0 => ph.p_vaddr % PageSize = ph.p_offset % PageSize

\* Mutant: segments may share a page.
OverlapBytes(a, b) == b.p_vaddr < seg_end(a)

\* The test parse makes on neighbouring segments, in its own form.
Overlap(a, b) ==
  LET a_end == align_up(seg_end(a), PageSize)
  IN  \/ a_end = None
      \/ /\ b.p_vaddr < a_end
         /\ align_down(b.p_vaddr, PageSize) < align_down(a_end, PageSize)

ValidImage(im) ==
  /\ im.e_type \in {"DYN", "EXEC"}
  /\ im.e_entry \in Word
  /\ im.e_phoff \in Word
  /\ im.loads \in Seq(Phdrs)
  /\ im.loads # <<>>
  /\ \A i \in DOMAIN im.loads : ValidLoad(im.loads[i])
  /\ \A i, j \in DOMAIN im.loads :
        i < j => im.loads[i].p_vaddr <= im.loads[j].p_vaddr
  /\ \A i \in 1..(Len(im.loads) - 1) : ~Overlap(im.loads[i], im.loads[i + 1])
  /\ load_align(im) \in Pow2
=============================================================================
