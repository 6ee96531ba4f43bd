------------------------------ MODULE MCProvisions -----------------------------
(* A small instance of Provisions: its author, and a colleague who reviews.    *)
EXTENDS Provisions, TLC

CONSTANTS p1, p2, d1, f1, r1, r2, author, reviewer

Permissions ==
    (author :> {"provisions.create", "provisions.edit", "master.data.edit"}) @@
    (reviewer :> {"provisions.documents.edit", "provisions.review"})

Symmetric == Permutations(Requests) \cup Permutations(Ids)
=============================================================================
