--------------------------- MODULE MCProductPatch ---------------------------
(* Small instances of ProductPatch.                                        *)
EXTENDS ProductPatch, TLC

CONSTANTS t1, t2, e1, e2, shop, other

Row(name, price, stock) ==
  [tenant |-> shop, name |-> name, price |-> price, stock |-> stock,
   is_archived |-> FALSE]

\* One product.
OneCup == 1 :> Row("tea", 1, 2)

\* A product of the shop, and an id for a second one, of whatever tenant.
OneTea == (1 :> Row("tea", 1, 1)) @@ (2 :> NoRow)

Symmetry == Permutations(Thread) \cup Permutations(Editor)
=============================================================================
