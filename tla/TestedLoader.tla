---------------------------- MODULE TestedLoader ----------------------------
(***************************************************************************)
(* The loader in the address space of its host tests: every step is a step *)
(* of Loader, and the calls it makes are made on FakeVm as well, which     *)
(* chooses the addresses.  It shows whether the fake answers like the      *)
(* address space of Loader, so that what a test sees there is what the     *)
(* checks and the proofs about Loader speak of.  The fake never fails a    *)
(* call, so the error paths of fill_mapped are not taken; a read of the    *)
(* file may fail, as in the test that loads from a truncated copy.  The    *)
(* fake never runs out of addresses; the space of Loader has an end, where *)
(* a behaviour of this module stops.                                       *)
(***************************************************************************)
EXTENDS Loader, FakeVm

VARIABLES
  rs,        \* State::regions
  heap,      \* State::heap
  asserts    \* calls that failed an assertion of the fake

fake == <<rs, heap, asserts>>

base == MmapLo   \* State::base

Zeros(len) == [k \in 1..len |-> Zero]

\* Contents of a file mapping: zero behind the end of the file.
FileData(s, off, len) ==
  [k \in 1..len |-> IF off + k - 1 < s.size THEN [of |-> s.name, at |-> off + k - 1] ELSE Zero]

Same(vs) == UNCHANGED vs

-----------------------------------------------------------------------------
\* The step reserves at the address the fake chooses.
TReserve(j) ==
  LET n == reserved(j)
      a == IF image(j).e_type = "DYN" THEN first_fit(rs, base, n)
                                      ELSE hint_fit(rs, base, va_lo(image(j)), n)
  IN  /\ Reserve(j) /\ raw'[j] = a
      /\ rs' = map_free(rs, a, n, {}, Zeros(n))
      /\ Same(<<heap, asserts>>)

TMisplaced(j) ==
  /\ Misplaced(j) /\ pc'[j] = "failed"
  /\ rs' = punch(rs, raw[j], reserved(j))
  /\ Same(<<heap, asserts>>)

\* load and plan make no call.
TLoad(j) ==
  \/ (\E s \in Sources, fd \in Fds : Load(j, s, fd)) /\ Same(fake)
  \/ Plan(j) /\ Same(fake)

TMapFile(j) ==
  /\ MapFile(j)
  /\ LET f == theSeg(j).file
         p == IF theSeg(j).needs_write_window THEN theSeg(j).prot \cup {"W"} ELSE theSeg(j).prot
     IN  rs' = IF f.len = 0 THEN rs
               ELSE map_exact(rs, f.addr, f.len, p, FileData(src[j], f.off, f.len))
  /\ Same(<<heap, asserts>>)

\* A store of data at addr: the fake asserts, then writes.
Stores(addr, data) ==
  IF data = <<>> \/ accepts(rs, addr, Len(data))
  THEN rs' = (IF data = <<>> THEN rs ELSE write(rs, addr, data)) /\ Same(asserts)
  ELSE asserts' = asserts + 1 /\ Same(rs)

TZeroTail(j) ==
  /\ ZeroTail(j)
  /\ Stores(theSeg(j).zero.addr, Zeros(theSeg(j).zero.len))
  /\ Same(heap)

TMapBss(j) ==
  /\ MapBss(j)
  /\ LET b == theSeg(j).anon
     IN  rs' = IF b.len = 0 THEN rs ELSE map_exact(rs, b.addr, b.len, theSeg(j).prot, Zeros(b.len))
  /\ Same(<<heap, asserts>>)

\* protect asserts that there is something to protect.
Protects(addr, len, p) ==
  /\ rs' = protect(rs, addr, len, p)
  /\ asserts' = IF hits(rs, addr, len) = {} THEN asserts + 1 ELSE asserts

TNarrow(j) ==
  /\ Narrow(j)
  /\ LET r == range(theSeg(j))
     IN  IF theSeg(j).needs_write_window THEN Protects(r.start, r.end - r.start, theSeg(j).prot)
                                         ELSE Same(<<rs, asserts>>)
  /\ Same(heap)

\* icache_sync only logs.
TSync(j) == (SyncTails(j) \/ SyncCode(j)) /\ Same(fake)

TAlloc(j) ==
  LET a == bump(heap, seg_align(image(j)))
  IN  /\ Alloc(j) /\ raw'[j] = a
      /\ heap' = a + reserved(j)
      /\ rs' = map_free(rs, a, reserved(j), {"R", "W"}, Zeros(reserved(j)))
      /\ Same(asserts)

TCopyRound(j) ==
  /\ CopyRound(j)
  /\ Stores(vaddr(j) + done[j],
            FileData(src[j], theSeg(j).ph.p_offset + done[j], Cardinality(Chunk(j))))
  /\ Same(heap)

TZeroRest(j) ==
  /\ ZeroRest(j)
  /\ LET zstart  == vaddr(j) + theSeg(j).ph.p_filesz
         mem_end == align_up(vaddr(j) + theSeg(j).ph.p_memsz, PageSize)
     IN  Stores(zstart, Zeros(mem_end - zstart))
  /\ Same(heap)

TProtect(j) ==
  /\ Protect(j)
  /\ LET r == range(theSeg(j)) IN Protects(r.start, r.end - r.start, theSeg(j).prot)
  /\ Same(heap)

\* The buffer or a read fails, without a call on the fake.
TCopyFails(j) == CopyFails(j) /\ Same(fake)

\* unload, for the caller and after a failure: unmap and free_aligned both punch.
TUnload(j) ==
  /\ \/ Unload(j) /\ pc'[j] = "idle"
     \/ Undo(j) /\ pc'[j] = "failed"
  /\ rs' = punch(rs, thePlan(j).reserve_addr, thePlan(j).reserve_len)
  /\ Same(<<heap, asserts>>)

-----------------------------------------------------------------------------
\* A test plays the unrelated thread: would_place says where it would land.
TOther(o) ==
  /\ \/ /\ OtherMap(o)
        /\ \E n \in OtherLens :
             /\ {x \in Space : own'[x] = o} = Bytes(first_fit(rs, base, n), n)
             /\ rs' = map_free(rs, first_fit(rs, base, n), n, {"R", "W"}, Zeros(n))
     \/ /\ OtherUnmap(o)
        /\ rs' = punch(rs, Min(Owned(o)), Cardinality(Owned(o)))
  /\ Same(<<heap, asserts>>)

TInit == Init /\ rs = [s \in {} |-> Region(0, {}, <<>>)] /\ heap = HeapLo /\ asserts = 0

TNext ==
  \/ \E j \in Jobs :
       \/ TLoad(j) \/ TReserve(j) \/ TMisplaced(j)
       \/ TMapFile(j) \/ TZeroTail(j) \/ TMapBss(j) \/ TNarrow(j) \/ TSync(j)
       \/ TAlloc(j) \/ TCopyRound(j) \/ TCopyFails(j) \/ TZeroRest(j) \/ TProtect(j)
       \/ TUnload(j)
  \/ \E o \in Others : TOther(o)

TSpec == TInit /\ [][TNext]_<<vars, fake>>

-----------------------------------------------------------------------------
(***************************************************************************)
(* Properties.                                                             *)
(***************************************************************************)
\* No two regions of the fake share a byte, none is empty, and each has as many
\* bytes of contents as it is long: next_back() finds the only candidate.
RegionsApart ==
  \A s \in DOMAIN rs :
    /\ rs[s].len > 0 /\ Len(rs[s].data) = rs[s].len
    /\ \A t \in DOMAIN rs : s < t => End(rs, s) <= t

\* At every step of every load, each byte of the fake is mapped exactly if it
\* has an owner in Loader, and holds what it holds there (where that is known:
\* a heap block arrives uninitialised, a page behind a file is not readable).
\* Outside the heap its rights are the same too; within a heap block they are
\* not, as protect never splits a region.  No assertion of the fake fires.
FakeAgrees ==
  /\ asserts = 0
  /\ \A x \in Space :
       /\ is_mapped(rs, x) <=> own[x] # Nobody
       /\ own[x] # Nobody =>
            /\ val[x] \in {Junk, Absent} \/ read(rs, x) = val[x]
            /\ x \in MmapSpace => prot_at(rs, x) = prot[x]

\* "picks the first free range at or above a fixed base": would_place finds the
\* lowest range of whole bytes that is free, so a test that asks it sees every
\* hole a loader leaves.
FirstFitIsLowest ==
  \A n \in {PageSize, 2 * PageSize, 4 * PageSize} :
    first_fit(rs, base, n) =
      Min({a \in base..Max({base} \cup {End(rs, s) : s \in DOMAIN rs}) :
             \A x \in a..(a + n - 1) : ~is_mapped(rs, x)})
=============================================================================
