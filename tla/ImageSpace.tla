----------------------------- MODULE ImageSpace -----------------------------
(***************************************************************************)
(* What the loader promises about addresses, with no mention of segments,  *)
(* plans or page rights.  An image takes its whole range in one step, from *)
(* free bytes only, and keeps all of it until it gives all of it back in   *)
(* one step.  In between no byte of the range is ever free, so nothing     *)
(* that asks for "any free range" can be placed inside an image, and no    *)
(* image is placed over anything.                                          *)
(***************************************************************************)
EXTENDS Integers

CONSTANTS
  Bytes_,    \* the addresses
  Holders,   \* whoever can hold a range
  Vacant     \* the holder of a free byte, not one of Holders

VARIABLE holder   \* who holds each address

Held(h) == {a \in Bytes_ : holder[a] = h}

Init == holder = [a \in Bytes_ |-> Vacant]

\* h, holding nothing, takes a contiguous run of free addresses.
Take(h) ==
  /\ Held(h) = {}
  /\ holder' \in [Bytes_ -> Holders \cup {Vacant}]
  /\ LET run == Held(h)' IN
       /\ run # {}
       /\ run \subseteq Held(Vacant)
       /\ \E lo, hi \in run : run = lo..hi
       /\ \A a \in Bytes_ \ run : holder'[a] = holder[a]

\* h gives back everything it holds.
GiveBack(h) ==
  /\ Held(h) # {}
  /\ holder' = [a \in Bytes_ |-> IF a \in Held(h) THEN Vacant ELSE holder[a]]

Next == \E h \in Holders : Take(h) \/ GiveBack(h)

Spec == Init /\ [][Next]_holder
=============================================================================
