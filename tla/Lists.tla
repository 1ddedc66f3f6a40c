-------------------------------- MODULE Lists --------------------------------
(***************************************************************************)
(* The lists that the desktop's stores keep.                               *)
(***************************************************************************)
EXTENDS Naturals, Sequences, FiniteSets

\* Array.prototype.filter: the elements of a list that belong to a set, in their order
Only(list, set) ==
    LET kept == {i \in DOMAIN list : list[i] \in set}
        Nth(k) == CHOOSE i \in kept : Cardinality({j \in kept : j <= i}) = k
    IN  [k \in 1 .. Cardinality(kept) |-> list[Nth(k)]]
=============================================================================
