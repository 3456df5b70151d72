---------------------------- MODULE ProductPatch ----------------------------
(***************************************************************************)
(* The store together with ProductBasicPatchView (products/views.py),      *)
(* which changes the name or the price of a product outside any            *)
(* transaction: get_object() reads the row without a lock,                 *)
(* ProductBasicPatchSerializer.validate_name looks for the name in a       *)
(* second query, and ModelSerializer.update() ends in instance.save(),     *)
(* which writes every column of the row read at the start.                 *)
(***************************************************************************)
EXTENDS Store

CONSTANTS
  Editor,       \* the threads that serve a PATCH, apart from Thread
  MaxPatches    \* bound: how many PATCH requests are accepted

ASSUME EditorAssumption == MaxPatches \in Nat

VARIABLES
  edit,      \* the PATCH of each editor and the row it has read
  patches    \* how many were accepted (a bound)

patchVars == <<edit, patches>>
storeVars == vars
allVars == <<vars, edit, patches>>

NoEdit == [at |-> "idle", product |-> 0, row |-> NoRow]
PatchInit == Init /\ edit = [e \in Editor |-> NoEdit] /\ patches = 0

\* validate_name() only runs when the body has a name.
AfterRead(p, name) ==
  IF name = product[p].name THEN {"validate", "save"} ELSE {"validate"}

\* get_object(): an active product of the actor's tenant, read without a
\* lock; the object in memory gets the new name and price.
ReadObject(e) ==
  /\ edit[e].at = "idle"
  /\ patches < MaxPatches
  /\ patches' = patches + 1
  /\ \E p \in ProductId, name \in Name, price \in 0..MaxInt :
       /\ product[p] # NoRow
       /\ ~product[p].is_archived
       /\ \E at \in AfterRead(p, name) :
            edit' = [edit EXCEPT ![e] =
              [at |-> at, product |-> p,
               row |-> [product[p] EXCEPT !.name = name, !.price = price]]]

\* validate_name(): another active product must not have the name.
ValidateName(e) ==
  /\ edit[e].at = "validate"
  /\ edit' = [edit EXCEPT ![e] =
       IF NameTaken(edit[e].row.tenant, edit[e].row.name, {edit[e].product})
         THEN NoEdit ELSE [@ EXCEPT !.at = "save"]]
  /\ UNCHANGED patches

\* Mutants: an UPDATE that waits for nobody, a table without the constraint.
CanWriteAlways(e) == TRUE
ClashesNever(e) == FALSE

\* UPDATE ... WHERE id = ... waits for the lock of a transaction; the unique
\* constraint raises when the name has been taken in the meantime.
CanWrite(e) == plock[edit[e].product] = Nobody
Clashes(e) ==
  NameTaken(edit[e].row.tenant, edit[e].row.name, {edit[e].product})

SaveObject(e) ==
  /\ edit[e].at = "save"
  /\ CanWrite(e)
  /\ ~Clashes(e)
  /\ product' = [product EXCEPT ![edit[e].product] = edit[e].row]
  /\ edit' = [edit EXCEPT ![e] = NoEdit]
  /\ UNCHANGED <<order, movement, opening, locks, memory, patches>>

RejectSave(e) ==
  /\ edit[e].at = "save"
  /\ CanWrite(e)
  /\ Clashes(e)
  /\ edit' = [edit EXCEPT ![e] = NoEdit]
  /\ UNCHANGED patches

Patch(e) ==
  \/ (ReadObject(e) \/ ValidateName(e) \/ RejectSave(e)) /\ UNCHANGED storeVars
  \/ SaveObject(e)

PatchNext ==
  \/ Next /\ UNCHANGED patchVars
  \/ \E e \in Editor : Patch(e)

PatchSpec == PatchInit /\ [][PatchNext]_allVars
=============================================================================
