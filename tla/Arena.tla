------------------------------- MODULE Arena -------------------------------
(***************************************************************************)
(* What a heap promises its callers, and nothing about how it keeps the    *)
(* promise: an allocation hands out an interval of addresses that touches  *)
(* no interval handed out before and not yet given back, and only free     *)
(* gives an interval back.  Heap.tla implements it.                        *)
(***************************************************************************)
EXTENDS Integers

CONSTANTS
    Space,      \* the addresses an interval may start at
    Lengths     \* the lengths that may be asked for

VARIABLE regions    \* the intervals handed out: records [lo, len]

Disjoint(r, s) == r.lo + r.len <= s.lo \/ s.lo + s.len <= r.lo

Init == regions = {}

Alloc ==
    \E lo \in Space, len \in Lengths :
        LET r == [lo |-> lo, len |-> len] IN
        /\ \A s \in regions : Disjoint(r, s)
        /\ regions' = regions \union {r}

Release ==
    \E r \in regions : regions' = regions \ {r}

Next == Alloc \/ Release

Spec == Init /\ [][Next]_regions
=============================================================================
