------------------------------ MODULE MCStore -------------------------------
(* Small instances of Store.                                               *)
EXTENDS Store, TLC

CONSTANTS t1, t2, shop

Row(tenant, name, price, stock) ==
  [tenant |-> tenant, name |-> name, price |-> price, stock |-> stock,
   is_archived |-> FALSE]

\* Two products of a shop, one cheap and well stocked, one dear and scarce.
TwoProducts == (1 :> Row(shop, "tea", 1, 2)) @@ (2 :> Row(shop, "cake", 2, 1))

\* No product yet, and an id for one.
NoProduct == 1 :> NoRow

ThreadSymmetry == Permutations(Thread)
=============================================================================
