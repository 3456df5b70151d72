---------------------------- MODULE StaffProofs -----------------------------
(***************************************************************************)
(* Theorems about Staff, for any users, tenants and threads: without a     *)
(* change of role, owners stay owners, and that is why an owner read long  *)
(* ago can still be trusted; a manager that was read is one still, but may *)
(* have left.                                                              *)
(***************************************************************************)
EXTENDS Staff, TLAPS

Owns(u, tenant) == HasRole(u, tenant, {"OWNER"})

\* What a thread holds: the request it serves, an actor who has the role that
\* was read, in the tenant of the request, though he may have left it, and,
\* between the two inserts of provisioning, an account that has no membership
\* yet.
ControlAt(t) ==
  /\ pc[t] \notin {"read_target", "patch"}
  /\ pc[t] # "idle" => req[t] \in Request
  /\ pc[t] = "read_actor" => req[t].op \in {"provision", "remove"}
  /\ pc[t] \in {"provision", "assign", "remove"} =>
       /\ actor[t] # NoRow
       /\ actor[t].tenant = req[t].tenant
       /\ req[t].tenant \in shop
       /\ membership[req[t].by] # NoRow
       /\ membership[req[t].by].tenant = req[t].tenant
       /\ membership[req[t].by].role = actor[t].role
       /\ actor[t].role = "OWNER" => Owns(req[t].by, req[t].tenant)
  /\ pc[t] = "assign" =>
       /\ req[t].user \in account
       /\ membership[req[t].user] = NoRow
       /\ MayProvision(t)

ControlOK == \A t \in Thread : ControlAt(t)

\* No two threads provision one e-mail.
OnePerUser ==
  \A s, t \in Thread :
    pc[s] = "assign" /\ pc[t] = "assign" /\ req[s].user = req[t].user => s = t

Inv == TypeOK /\ ControlOK /\ OnePerUser /\ TenantKeepsOwner

-----------------------------------------------------------------------------

\* Only three kinds of step write a membership.
LEMMA OnlyTheseWrite ==
  ASSUME [Next]_vars
  PROVE  \/ UNCHANGED membership
         \/ \E t \in Thread : Onboard(t) \/ AssignUser(t) \/ RemoveMember(t)
<1> USE DEF tables
<1>1. CASE UNCHANGED vars
  BY <1>1 DEF vars
<1>2. ASSUME NEW t \in Thread, Serve(t)
      PROVE  UNCHANGED membership \/ Onboard(t) \/ AssignUser(t) \/ RemoveMember(t)
  <2>1. CASE CallRegister(t) \/ CallProvision(t) \/ CallRemove(t) \/ CallRemoveDirectly(t)
    BY <2>1 DEF CallRegister, CallProvision, CallRemove, CallRemoveDirectly, Accept
  <2>2. CASE RejectOnboard(t) \/ RejectProvision(t) \/ RejectRemove(t) \/ Fail(t)
    BY <2>2 DEF RejectOnboard, RejectProvision, RejectRemove, Fail, Refuse
  <2>3. CASE ReadActor(t) \/ CreateUser(t)
    BY <2>3 DEF ReadActor, CreateUser, Refuse
  <2> QED
    BY <1>2, <2>1, <2>2, <2>3 DEF Serve
<1> QED
  BY <1>1, <1>2 DEF Next

\* What a step does to the membership of one user.
LEMMA MembershipEffect ==
  ASSUME Inv, [Next]_vars, NEW u \in User, membership'[u] # membership[u]
  PROVE  \/ /\ membership[u] = NoRow
            /\ \E t \in Thread :
                 /\ req[t].user = u
                 /\ \/ /\ Onboard(t) /\ u \notin account
                       /\ membership'[u].role = "OWNER" /\ ~membership'[u].left
                    \/ /\ AssignUser(t)
                       /\ membership'[u] =
                            [tenant |-> req[t].tenant, role |-> req[t].role, left |-> FALSE]
         \/ /\ membership[u] # NoRow
            /\ membership'[u] = [membership[u] EXCEPT !.left = TRUE]
            /\ membership[u].role # "OWNER"
            /\ \E t \in Thread :
                 /\ RemoveMember(t) /\ MayRemove(t)
                 /\ req[t].user = u
                 /\ u # req[t].by
                 /\ membership[u].tenant = req[t].tenant
<1> USE DEF Inv, TypeOK
<1>1. PICK t \in Thread : Onboard(t) \/ AssignUser(t) \/ RemoveMember(t)
  BY OnlyTheseWrite
<1>2. ControlAt(t)
  BY DEF ControlOK
<1>3. pc[t] # "idle" => req[t] \in Request /\ req[t].user \in User
  BY <1>2 DEF ControlAt, Request
<1>4. CASE Onboard(t)
  <2>1. req[t].user = u /\ u \notin account /\ membership[u] = NoRow
    BY <1>3, <1>4 DEF Onboard
  <2>2. membership'[u].role = "OWNER" /\ ~membership'[u].left
    BY <1>4, <2>1 DEF Onboard
  <2> QED
    BY <1>4, <2>1, <2>2
<1>5. CASE AssignUser(t)
  BY <1>2, <1>3, <1>5 DEF AssignUser, ControlAt
<1>6. CASE RemoveMember(t)
  <2>1. req[t].user = u /\ membership[u] # NoRow /\ membership[u].tenant = req[t].tenant
    BY <1>2, <1>3, <1>6 DEF RemoveMember, Active, ControlAt
  <2>2. membership'[u] = [membership[u] EXCEPT !.left = TRUE]
    BY <1>6, <2>1 DEF RemoveMember
  <2>3. MayRemove(t) /\ u # req[t].by /\ membership[u].role # "OWNER"
    BY <1>6, <2>1 DEF RemoveMember, MayRemove
  <2> QED
    BY <1>6, <2>1, <2>2, <2>3
<1> QED
  BY <1>1, <1>4, <1>5, <1>6

\* Once an owner, always an owner.
LEMMA OwnersStay ==
  ASSUME Inv, [Next]_vars, NEW u \in User, NEW tenant, Owns(u, tenant)
  PROVE  Owns(u, tenant)'
<1>1. membership[u] # NoRow /\ membership[u].role = "OWNER"
  BY DEF Owns, HasRole, Active
<1>2. membership'[u] = membership[u]
  BY <1>1, MembershipEffect
<1> QED
  BY <1>2 DEF Owns, HasRole, Active

\* A membership stays, in its tenant and with its role.
LEMMA MembersStay ==
  ASSUME Inv, [Next]_vars, NEW u \in User, membership[u] # NoRow
  PROVE  /\ membership'[u] # NoRow
         /\ membership'[u].tenant = membership[u].tenant
         /\ membership'[u].role = membership[u].role
<1>1. membership[u] \in Membership
  BY DEF Inv, TypeOK
<1>2. CASE membership'[u] = membership[u]
  BY <1>2
<1>3. CASE membership'[u] # membership[u]
  <2>1. membership'[u] = [membership[u] EXCEPT !.left = TRUE]
    BY <1>3, MembershipEffect
  <2>2. membership'[u] \in Membership
    BY <1>1, <2>1 DEF Membership
  <2> QED
    BY <1>1, <2>1, <2>2, NullAssumption DEF Membership
<1> QED
  BY <1>2, <1>3

\* Accounts and tenants are never deleted.
LEMMA TablesGrow ==
  ASSUME [Next]_vars
  PROVE  account \subseteq account' /\ shop \subseteq shop'
<1> USE DEF tables
<1>1. CASE UNCHANGED vars
  BY <1>1 DEF vars
<1>2. ASSUME NEW t \in Thread, Serve(t)
      PROVE  account \subseteq account' /\ shop \subseteq shop'
  BY <1>2 DEF Serve, CallRegister, CallProvision, CallRemove, CallRemoveDirectly, Accept,
         RejectOnboard, RejectProvision, RejectRemove, Fail, Refuse, ReadActor, CreateUser, Onboard,
         AssignUser, RemoveMember
<1> QED
  BY <1>1, <1>2 DEF Next

-----------------------------------------------------------------------------
(* The steps keep Inv.                                                     *)

LEMMA InitInv == Init => Inv
BY DEF Init, Inv, TypeOK, ControlOK, ControlAt, OnePerUser, TenantKeepsOwner

\* A step of one thread leaves the memory of the others alone.
LEMMA OthersWait ==
  ASSUME Inv, NEW t \in Thread, Serve(t), NEW s \in Thread, s # t
  PROVE  pc'[s] = pc[s] /\ req'[s] = req[s] /\ actor'[s] = actor[s]
<1> USE DEF Inv, TypeOK, tables
<1>1. CASE CallRegister(t) \/ CallProvision(t) \/ CallRemove(t) \/ CallRemoveDirectly(t)
  BY <1>1 DEF CallRegister, CallProvision, CallRemove, CallRemoveDirectly, Accept
<1>2. CASE CreateUser(t)
  BY <1>2 DEF CreateUser, Goto
<1>3. CASE ReadActor(t)
  BY <1>3 DEF ReadActor, Refuse, End
<1>4. CASE \/ Onboard(t) \/ AssignUser(t) \/ RemoveMember(t) \/ RejectOnboard(t)
           \/ RejectProvision(t) \/ RejectRemove(t) \/ Fail(t)
  BY <1>4 DEF Onboard, AssignUser, RemoveMember, RejectOnboard, RejectProvision,
         RejectRemove, Fail, Refuse, End
<1> QED
  BY <1>1, <1>2, <1>3, <1>4 DEF Serve

\* A step that ends a request keeps the types of what threads hold.
LEMMA EndType ==
  ASSUME TypeOK, NEW t \in Thread, End(t)
  PROVE  /\ pc' \in [Thread -> {"idle", "read_actor", "register", "provision", "assign",
                                "remove", "read_target", "patch"}]
         /\ req' \in [Thread -> Request \cup {NoRequest}]
         /\ actor' \in [Thread -> Membership \cup {NoRow}]
         /\ target' \in [Thread -> Membership \cup {NoRow}]
BY DEF TypeOK, End

LEMMA TypeStep ==
  ASSUME Inv, [Next]_vars
  PROVE  TypeOK'
<1> USE DEF Inv, tables
<1>1. CASE UNCHANGED vars
  BY <1>1 DEF vars, TypeOK
<1>2. ASSUME NEW t \in Thread, Serve(t) PROVE TypeOK'
  <2>1. ControlAt(t)
    BY DEF ControlOK
  <2>2. CASE CallRegister(t) \/ CallProvision(t) \/ CallRemove(t) \/ CallRemoveDirectly(t)
    BY <2>2 DEF CallRegister, CallProvision, CallRemove, CallRemoveDirectly, Accept, TypeOK
  <2>3. CASE RejectOnboard(t) \/ RejectProvision(t) \/ RejectRemove(t) \/ Fail(t)
    <3>1. End(t) /\ UNCHANGED tables
      BY <2>3 DEF RejectOnboard, RejectProvision, RejectRemove, Fail, Refuse
    <3> QED
      BY <3>1, EndType DEF TypeOK
  <2>4. CASE ReadActor(t)
    <3>1. CASE Active(req[t].by, req[t].tenant)
      <4>1. req[t].by \in User /\ req[t].op \in {"provision", "remove"}
        BY <2>1, <2>4 DEF ReadActor, ControlAt, Request
      <4>2. membership[req[t].by] \in Membership
        BY <3>1, <4>1 DEF Active, TypeOK
      <4> QED
        BY <2>4, <3>1, <4>1, <4>2 DEF ReadActor, TypeOK
    <3>2. CASE ~Active(req[t].by, req[t].tenant)
      <4>1. End(t) /\ UNCHANGED tables
        BY <2>4, <3>2 DEF ReadActor, Refuse
      <4> QED
        BY <4>1, EndType DEF TypeOK
    <3> QED
      BY <3>1, <3>2
  <2>5. CASE CreateUser(t)
    <3>1. req[t].user \in User
      BY <2>1, <2>5 DEF CreateUser, ControlAt, Request
    <3> QED
      BY <2>5, <3>1 DEF CreateUser, Goto, TypeOK
  <2>6. CASE Onboard(t)
    <3>1. req[t].user \in User /\ End(t)
      BY <2>1, <2>6 DEF Onboard, ControlAt, Request
    <3>2. PICK tenant \in Tenant \ shop :
            /\ shop' = shop \cup {tenant}
            /\ account' = account \cup {req[t].user}
            /\ membership' = [membership EXCEPT ![req[t].user] =
                 [tenant |-> tenant, role |-> "OWNER", left |-> FALSE]]
      BY <2>6 DEF Onboard
    <3>3. [tenant |-> tenant, role |-> "OWNER", left |-> FALSE] \in Membership
      BY DEF Membership, Role
    <3> QED
      BY <3>1, <3>2, <3>3, EndType DEF TypeOK
  <2>7. CASE AssignUser(t)
    <3> DEFINE row == [tenant |-> actor[t].tenant, role |-> req[t].role, left |-> FALSE]
    <3>1. /\ req[t].user \in account
          /\ row \in Membership
          /\ row.tenant \in shop
      BY <2>1, <2>7 DEF AssignUser, ControlAt, Request, Membership
    <3>2. membership' = [membership EXCEPT ![req[t].user] = row]
          /\ End(t) /\ UNCHANGED <<account, shop>>
      BY <2>7 DEF AssignUser
    <3> QED
      BY <3>1, <3>2, EndType DEF TypeOK
  <2>8. CASE RemoveMember(t)
    <3>1. req[t].user \in User /\ membership[req[t].user] # NoRow
      BY <2>1, <2>8 DEF RemoveMember, ControlAt, Request, Active
    <3>2. [membership[req[t].user] EXCEPT !.left = TRUE] \in Membership
      BY <3>1 DEF TypeOK, Membership
    <3>3. membership' = [membership EXCEPT ![req[t].user].left = TRUE]
          /\ End(t) /\ UNCHANGED <<account, shop>>
      BY <2>8 DEF RemoveMember
    <3> QED
      BY <3>1, <3>2, <3>3, EndType DEF TypeOK, Membership
  <2> QED
    BY <1>2, <2>2, <2>3, <2>4, <2>5, <2>6, <2>7, <2>8 DEF Serve
<1> QED
  BY <1>1, <1>2 DEF Next

\* What a thread that did not move relies on stays true.
LEMMA ControlKept ==
  ASSUME Inv, [Next]_vars, NEW s \in Thread,
         pc'[s] = pc[s], req'[s] = req[s], actor'[s] = actor[s],
         \A t \in Thread : AssignUser(t) => t # s
  PROVE  ControlAt(s)'
<1>1. ControlAt(s)
  BY DEF Inv, ControlOK
<1>2. Owns(req[s].by, req[s].tenant) /\ pc[s] # "idle" => Owns(req[s].by, req[s].tenant)'
  <2>1. pc[s] # "idle" => req[s].by \in User
    BY <1>1 DEF ControlAt, Request
  <2> QED
    BY <2>1, OwnersStay
<1>3. account \subseteq account' /\ shop \subseteq shop'
  BY TablesGrow
<1>4. ASSUME pc[s] \in {"provision", "assign", "remove"}
      PROVE  /\ membership'[req[s].by] # NoRow
             /\ membership'[req[s].by].tenant = req[s].tenant
             /\ membership'[req[s].by].role = actor[s].role
  <2>1. req[s].by \in User
    BY <1>1, <1>4 DEF ControlAt, Request
  <2> QED
    BY <1>1, <1>4, <2>1, MembersStay DEF ControlAt
<1>5. ASSUME pc[s] = "assign" PROVE membership'[req[s].user] = NoRow
  <2>1. req[s].user \in account /\ membership[req[s].user] = NoRow /\ req[s].user \in User
    BY <1>1, <1>5 DEF ControlAt, Request
  <2>2. SUFFICES ASSUME membership'[req[s].user] # NoRow PROVE FALSE
    OBVIOUS
  <2>3. PICK t \in Thread : AssignUser(t) /\ req[t].user = req[s].user
    BY <2>1, <2>2, MembershipEffect
  <2>4. t = s
    BY <1>5, <2>3 DEF AssignUser, Inv, OnePerUser
  <2> QED
    BY <2>3, <2>4
<1> QED
  BY <1>1, <1>2, <1>3, <1>4, <1>5 DEF ControlAt, Owns, HasRole, Active, MayProvision

\* A thread that moves is left in a state it may be in.
LEMMA ControlMoved ==
  ASSUME Inv, NEW t \in Thread, Serve(t)
  PROVE  ControlAt(t)'
<1> USE DEF Inv
<1>1. ControlAt(t)
  BY DEF ControlOK
<1>2. ASSUME End(t) PROVE ControlAt(t)'
  <2>1. pc'[t] = "idle"
    BY <1>2 DEF End, TypeOK
  <2> QED
    BY <2>1 DEF ControlAt
<1>3. CASE \/ Onboard(t) \/ AssignUser(t) \/ RemoveMember(t) \/ RejectOnboard(t)
           \/ RejectProvision(t) \/ RejectRemove(t) \/ Fail(t)
  BY <1>2, <1>3 DEF Onboard, AssignUser, RemoveMember, RejectOnboard, RejectProvision,
         RejectRemove, Fail, Refuse
<1>4. CASE CallRegister(t)
  <2>1. pc'[t] = "register" /\ req'[t] \in Request
    BY <1>4 DEF CallRegister, Accept, TypeOK
  <2> QED
    BY <2>1 DEF ControlAt
<1>5. CASE CallProvision(t)
  <2>1. pc'[t] = "read_actor" /\ req'[t] \in Request /\ req'[t].op = "provision"
    BY <1>5 DEF CallProvision, Accept, TypeOK
  <2> QED
    BY <2>1 DEF ControlAt
<1>6. CASE CallRemove(t) \/ CallRemoveDirectly(t)
  <2>1. pc'[t] = "read_actor" /\ req'[t] \in Request /\ req'[t].op = "remove"
    BY <1>6 DEF CallRemove, CallRemoveDirectly, Accept, TypeOK
  <2> QED
    BY <2>1 DEF ControlAt
<1>7. CASE ReadActor(t)
  <2>1. CASE ~Active(req[t].by, req[t].tenant)
    BY <1>2, <1>7, <2>1 DEF ReadActor, Refuse
  <2>2. CASE Active(req[t].by, req[t].tenant)
    <3> DEFINE by == req[t].by
    <3>1. /\ by \in User /\ req[t] \in Request
          /\ req[t].op \in {"provision", "remove"}
      BY <1>1, <1>7 DEF ReadActor, ControlAt, Request
    <3>2. /\ actor'[t] = membership[by] /\ pc'[t] = req[t].op
          /\ req'[t] = req[t] /\ UNCHANGED <<account, shop, membership>>
      BY <1>7, <2>2, <3>1 DEF ReadActor, TypeOK, tables
    <3>3. /\ membership[by] # NoRow /\ membership[by].tenant = req[t].tenant
          /\ req[t].tenant \in shop
          /\ membership[by].role = "OWNER" => Owns(by, req[t].tenant)
      BY <2>2, <3>1 DEF Active, Owns, HasRole, TypeOK
    <3>4. UNCHANGED Owns(by, req[t].tenant)
      BY <3>2 DEF Owns, HasRole, Active
    <3> QED
      BY <3>1, <3>2, <3>3, <3>4 DEF ControlAt
  <2> QED
    BY <2>1, <2>2
<1>8. CASE CreateUser(t)
  <2>1. /\ pc[t] = "provision" /\ MayProvision(t) /\ req[t].user \notin account
        /\ account' = account \cup {req[t].user}
        /\ pc'[t] = "assign" /\ UNCHANGED <<req, actor, shop, membership>>
    BY <1>8 DEF CreateUser, Goto, TypeOK
  <2>2. req[t] \in Request /\ req[t].user \in User
    BY <1>1, <2>1 DEF ControlAt, Request
  <2>3. membership[req[t].user] = NoRow
    BY <2>1, <2>2 DEF TypeOK
  <2>4. MayProvision(t)' /\ UNCHANGED Owns(req[t].by, req[t].tenant)
    BY <2>1 DEF MayProvision, Owns, HasRole, Active
  <2> QED
    BY <1>1, <2>1, <2>2, <2>3, <2>4 DEF ControlAt
<1> QED
  BY <1>3, <1>4, <1>5, <1>6, <1>7, <1>8 DEF Serve

LEMMA ControlStep ==
  ASSUME Inv, [Next]_vars
  PROVE  ControlOK'
<1> SUFFICES ASSUME NEW s \in Thread PROVE ControlAt(s)'
  BY DEF ControlOK
<1>1. CASE UNCHANGED vars
  <2>1. UNCHANGED <<account, shop, membership, pc, req, actor>>
    BY <1>1 DEF vars, tables
  <2> QED
    BY <2>1 DEF Inv, ControlOK, ControlAt, Owns, HasRole, Active, MayProvision
<1>2. ASSUME NEW t \in Thread, Serve(t) PROVE ControlAt(s)'
  <2>1. CASE s = t
    BY <1>2, <2>1, ControlMoved
  <2>2. CASE s # t
    <3>1. pc'[s] = pc[s] /\ req'[s] = req[s] /\ actor'[s] = actor[s]
      BY <1>2, <2>2, OthersWait
    <3>2. CASE AssignUser(s)
      <4>1. pc[s] = "assign" /\ pc'[s] = "idle"
        BY <3>2 DEF AssignUser, End, Inv, TypeOK
      <4> QED
        BY <3>1, <4>1
    <3>3. CASE ~AssignUser(s)
      BY <3>1, <3>3, ControlKept
    <3> QED
      BY <3>2, <3>3
  <2> QED
    BY <2>1, <2>2
<1> QED
  BY <1>1, <1>2 DEF Next

\* An account that is about to get its membership is not created again.
LEMMA OnePerUserStep ==
  ASSUME Inv, [Next]_vars
  PROVE  OnePerUser'
<1> USE DEF Inv
<1>1. CASE UNCHANGED vars
  BY <1>1 DEF vars, OnePerUser
<1>2. ASSUME NEW t \in Thread, Serve(t) PROVE OnePerUser'
  <2>1. \A s \in Thread : s # t => pc'[s] = pc[s] /\ req'[s] = req[s]
    BY <1>2, OthersWait
  <2>2. CASE CreateUser(t)
    <3>1. req' = req /\ req[t].user \notin account
      BY <2>2 DEF CreateUser, Goto
    <3>2. \A s \in Thread : pc[s] = "assign" => req[s].user \in account
      BY DEF ControlOK, ControlAt
    <3> QED
      BY <2>1, <3>1, <3>2 DEF OnePerUser
  <2>3. CASE ~CreateUser(t)
    <3>1. pc'[t] # "assign"
      <4>1. ControlAt(t)
        BY DEF ControlOK
      <4> QED
        BY <1>2, <2>3, <4>1 DEF Serve, CallRegister, CallProvision, CallRemove,
           CallRemoveDirectly, Accept, ReadActor, Onboard, AssignUser, RemoveMember, RejectOnboard, RejectProvision,
           RejectRemove, Fail, Refuse, End, TypeOK, ControlAt
    <3> QED
      BY <2>1, <3>1 DEF OnePerUser
  <2> QED
    BY <2>2, <2>3
<1> QED
  BY <1>1, <1>2 DEF Next

\* A tenant is saved together with its owner.
LEMMA OwnerStep ==
  ASSUME Inv, [Next]_vars
  PROVE  TenantKeepsOwner'
<1> USE DEF Inv
<1> SUFFICES ASSUME NEW tenant \in shop' PROVE \E u \in User : Owns(u, tenant)'
  BY DEF TenantKeepsOwner, Owns
<1>1. CASE tenant \in shop
  <2>1. PICK u \in User : Owns(u, tenant)
    BY <1>1 DEF TenantKeepsOwner, Owns
  <2> QED
    BY <2>1, OwnersStay
<1>2. CASE tenant \notin shop
  <2>1. PICK t \in Thread : Onboard(t)
    BY <1>2 DEF Next, vars, tables, Serve, CallRegister, CallProvision,
       CallRemove, CallRemoveDirectly, Accept, RejectOnboard, RejectProvision,
       RejectRemove, Fail, Refuse,
       ReadActor, CreateUser, AssignUser, RemoveMember
  <2>2. PICK u \in User : u = req[t].user
    BY <2>1 DEF Onboard, ControlOK, ControlAt, Request
  <2>3. PICK new \in Tenant \ shop :
          /\ shop' = shop \cup {new}
          /\ membership' = [membership EXCEPT ![u] =
               [tenant |-> new, role |-> "OWNER", left |-> FALSE]]
    BY <2>1, <2>2 DEF Onboard
  <2>4. membership'[u] = [tenant |-> tenant, role |-> "OWNER", left |-> FALSE]
    BY <1>2, <2>3 DEF TypeOK
  <2>5. membership'[u] # NoRow
    <3>1. [tenant |-> new, role |-> "OWNER", left |-> FALSE] \in Membership
      BY DEF Membership, Role
    <3>2. new = tenant
      BY <1>2, <2>3
    <3> QED
      BY <2>4, <3>1, <3>2, NullAssumption
  <2>6. Owns(u, tenant)'
    BY <2>4, <2>5 DEF Owns, HasRole, Active
  <2> QED
    BY <2>6
<1> QED
  BY <1>1, <1>2
-----------------------------------------------------------------------------

LEMMA InvStep == Inv /\ [Next]_vars => Inv'
BY TypeStep, ControlStep, OnePerUserStep, OwnerStep DEF Inv

\* The inductive invariant: types, what each thread relies on, and an owner
\* for every tenant (tenants/services.py:30-93, 188-249).
THEOREM StaffInvHolds == Spec => []Inv
BY InitInv, InvStep, PTL DEF Spec

\* The tables keep their types and foreign keys (tenants/models.py:14-39).
THEOREM StaffTypes == Spec => []TypeOK
BY StaffInvHolds, PTL DEF Inv

\* Over HTTP a tenant never loses its last owner (tenants/services.py:37-56,
\* 218-242).
THEOREM OwnersRemain == Spec => []TenantKeepsOwner
BY StaffInvHolds, PTL DEF Inv

\* Who removes a member is above him: an owner of the tenant at that moment,
\* or, when it is a cashier, one whom the tenant has had as a manager, though
\* the service trusts a membership read earlier (tenants/services.py:194-242).
THEOREM RemovalsByRank == Spec => RemoversOutrank
<1> DEFINE Outranked(u) ==
      membership[u] # NoRow /\ ~membership[u].left /\ membership'[u].left =>
        \E t \in Thread :
          /\ pc[t] = "remove" /\ req[t].user = u
          /\ \/ /\ membership[u].role # "OWNER"
                /\ HasRole(req[t].by, membership[u].tenant, {"OWNER"})
             \/ /\ membership[u].role = "CASHIER"
                /\ membership[req[t].by] # NoRow
                /\ membership[req[t].by].role = "MANAGER"
                /\ membership[req[t].by].tenant = membership[u].tenant
<1>1. ASSUME Inv, [Next]_vars, NEW u \in User PROVE Outranked(u)
  <2>1. SUFFICES ASSUME membership[u] # NoRow, ~membership[u].left, membership'[u].left
                 PROVE  Outranked(u)
    OBVIOUS
  <2>2. PICK t \in Thread : /\ RemoveMember(t) /\ MayRemove(t) /\ req[t].user = u
                           /\ membership[u].tenant = req[t].tenant
    BY <1>1, <2>1, MembershipEffect
  <2>3. pc[t] = "remove" /\ ControlAt(t)
    BY <1>1, <2>2 DEF RemoveMember, Inv, ControlOK
  <2>4. CASE actor[t].role = "OWNER"
    BY <2>2, <2>3, <2>4 DEF ControlAt, MayRemove, Owns
  <2>5. CASE actor[t].role = "MANAGER"
    BY <2>2, <2>3, <2>5 DEF ControlAt, MayRemove
  <2> QED
    BY <2>2, <2>4, <2>5 DEF MayRemove
<1>2. Inv /\ [Next]_vars => [\A u \in User : Outranked(u)]_vars
  BY <1>1
<1> QED
  BY <1>2, StaffInvHolds, PTL DEF Spec, RemoversOutrank

\* A manager comes into a tenant only by an active owner of it
\* (tenants/services.py:71-91).
THEOREM ManagersByOwners == Spec => OwnersMakeManagers
<1> DEFINE Made(u) ==
      membership[u] = NoRow /\ membership'[u] # NoRow /\ membership'[u].role = "MANAGER" =>
        \E t \in Thread :
          /\ pc[t] = "assign" /\ req[t].user = u
          /\ HasRole(req[t].by, membership'[u].tenant, {"OWNER"})
<1>1. ASSUME Inv, [Next]_vars, NEW u \in User PROVE Made(u)
  <2>1. SUFFICES ASSUME membership[u] = NoRow, membership'[u] # NoRow,
                        membership'[u].role = "MANAGER"
                 PROVE  Made(u)
    OBVIOUS
  <2>2. PICK t \in Thread :
          /\ AssignUser(t) /\ req[t].user = u
          /\ membership'[u] =
               [tenant |-> req[t].tenant, role |-> req[t].role, left |-> FALSE]
    BY <1>1, <2>1, MembershipEffect
  <2>3. pc[t] = "assign" /\ req[t].role = "MANAGER" /\ membership'[u].tenant = req[t].tenant
    BY <2>1, <2>2 DEF AssignUser
  <2>4. Owns(req[t].by, req[t].tenant)
    BY <1>1, <2>3 DEF Inv, ControlOK, ControlAt, MayProvision
  <2> QED
    BY <2>2, <2>3, <2>4 DEF Owns
<1>2. Inv /\ [Next]_vars => [\A u \in User : Made(u)]_vars
  BY <1>1
<1> QED
  BY <1>2, StaffInvHolds, PTL DEF Spec, OwnersMakeManagers
=============================================================================
