------------------------------ MODULE Allocator ------------------------------
(***************************************************************************)
(* What a heap promises to its callers: ranges of memory are granted and   *)
(* given back; a grant is long enough, lies inside [Lo, Hi) and meets no   *)
(* range that is still in use.  Nothing is said about block lists, headers *)
(* or the choice of the range.                                             *)
(***************************************************************************)
EXTENDS Integers

CONSTANTS Lo, Hi, Requests

VARIABLE regions    \* the ranges in use

Regions == [lo : Lo..Hi, len : 0..(Hi - Lo)]

Disjoint(r, s) == r.lo + r.len <= s.lo \/ s.lo + s.len <= r.lo

Init == regions = {}

Grant(size, r) ==
    /\ size > 0 /\ r.len >= size
    /\ r.lo + r.len <= Hi
    /\ \A s \in regions : Disjoint(r, s)
    /\ regions' = regions \cup {r}

Release(r) == regions' = regions \ {r}

Next == \/ \E r \in regions' \ regions : r \in Regions /\ \E size \in Requests : Grant(size, r)
        \/ \E r \in regions : Release(r)

Spec == Init /\ [][Next]_regions
=============================================================================
