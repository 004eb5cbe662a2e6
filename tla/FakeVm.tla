------------------------------- MODULE FakeVm -------------------------------
(***************************************************************************)
(* rust/src/testutil.rs, vm::FakeVm: the address space the host tests run  *)
(* the loader in.  It keeps whole regions in an ordered map, where Loader  *)
(* describes every byte on its own.  rs maps the start of a region to its  *)
(* length, rights and contents; the operators give the map after a call.   *)
(* The log of calls, the file a region came from and the descriptors are   *)
(* left out: nothing in the fake reads them back.                          *)
(***************************************************************************)
EXTENDS Integers, Sequences, FiniteSetsExt

Region(len, prot, data) == [len |-> len, prot |-> prot, data |-> data]

End(rs, s) == s + rs[s].len

\* Regions that reach into [addr, addr + len).
hits(rs, addr, len) == {s \in DOMAIN rs : s < addr + len /\ End(rs, s) > addr}

\* range(..=addr).next_back(): the last region that starts at or before addr.
Before(rs, addr) == {s \in DOMAIN rs : s <= addr}
Holder(rs, addr) == Max(Before(rs, addr))

is_mapped(rs, addr) == Before(rs, addr) # {} /\ addr < End(rs, Holder(rs, addr))

prot_at(rs, addr) == rs[Holder(rs, addr)].prot

read(rs, addr) == rs[Holder(rs, addr)].data[addr - Holder(rs, addr) + 1]

\* Mutant: the part of a region above the range is lost.
punch_left(rs, addr, len) ==
  LET hit  == hits(rs, addr, len)
      left == {s \in hit : s < addr}
  IN  [s \in (DOMAIN rs \ hit) \cup left |->
         IF s \in left THEN Region(addr - s, rs[s].prot, SubSeq(rs[s].data, 1, addr - s))
         ELSE rs[s]]

\* Carve [addr, addr + len) out of whatever occupies it: what is left of a
\* region below and above stays, the upper part as a region of its own.
punch(rs, addr, len) ==
  LET end   == addr + len
      hit   == hits(rs, addr, len)
      left  == {s \in hit : s < addr}
      right == {s \in hit : End(rs, s) > end}
      upper(s) == Region(End(rs, s) - end, rs[s].prot, SubSeq(rs[s].data, end - s + 1, rs[s].len))
  IN  [s \in (DOMAIN rs \ hit) \cup left \cup {end : r \in right} |->
         IF s = end /\ right # {} THEN upper(CHOOSE r \in right : TRUE)
         ELSE IF s \in left
         THEN Region(addr - s, rs[s].prot, SubSeq(rs[s].data, 1, addr - s))
         ELSE rs[s]]

\* Mutant: the hole before the first region is not considered.
first_fit_top(rs, base, len) == Max({base} \cup {End(rs, s) : s \in DOMAIN rs})

\* The loop over the regions in address order, skipping those below cur.
first_fit(rs, base, len) ==
  LET above(cur) == {s \in DOMAIN rs : End(rs, s) > cur}
      fits(cur)  == above(cur) = {} \/ Min(above(cur)) >= cur + len
      cur[k \in 0..Cardinality(DOMAIN rs)] ==
        IF k = 0 THEN base
        ELSE IF fits(cur[k - 1]) THEN cur[k - 1]
        ELSE End(rs, Min(above(cur[k - 1])))
  IN  cur[Cardinality(DOMAIN rs)]

\* Where::Hint: taken if nothing is there.
hint_fit(rs, base, addr, len) ==
  IF hits(rs, addr, len) = {} THEN addr ELSE first_fit(rs, base, len)

Insert(rs, addr, r) == [s \in DOMAIN rs \cup {addr} |-> IF s = addr THEN r ELSE rs[s]]

\* map at an address that was free, and map with Where::Exact.
map_free(rs, addr, len, prot, data) == Insert(rs, addr, Region(len, prot, data))

\* Mutant: what was there stays in the map.
map_over(rs, addr, len, prot, data) == map_free(rs, addr, len, prot, data)

map_exact(rs, addr, len, prot, data) ==
  map_free(punch(rs, addr, len), addr, len, prot, data)

\* Every region the range touches changes its rights as a whole.
protect(rs, addr, len, prot) ==
  [s \in DOMAIN rs |-> IF s \in hits(rs, addr, len) THEN [rs[s] EXCEPT !.prot = prot] ELSE rs[s]]

\* write and zero assert that one writable region holds the whole range.
accepts(rs, addr, len) ==
  /\ Before(rs, addr) # {}
  /\ addr + len <= End(rs, Holder(rs, addr))
  /\ "W" \in prot_at(rs, addr)

write(rs, addr, data) ==
  LET o == addr - Holder(rs, addr)
  IN  [rs EXCEPT ![Holder(rs, addr)].data =
         [k \in DOMAIN @ |-> IF k - o \in DOMAIN data THEN data[k - o] ELSE @[k]]]

\* alloc_aligned: a bump pointer, never moved back by free_aligned.
bump(heap, align) == ((heap + align - 1) \div align) * align
=============================================================================
