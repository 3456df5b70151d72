--------------------------- MODULE ContextProofs ----------------------------
(***************************************************************************)
(* Theorems about TenantContext, for any users, tenants, threads and       *)
(* workers: a thread has the tenant of its own request, and rows only go   *)
(* to who was entitled to them.  The memberships change underneath by      *)
(* every operation of Staff, the change of role included, with which       *)
(* nobody who has left comes back.                                         *)
(***************************************************************************)
EXTENDS TenantContext, StaffProofs

\* What the threads of Staff rely on when roles are changed as well: there
\* may be no owner left, but a membership is still made once.
HoldsAt(t) ==
  /\ pc[t] # "idle" => req[t] \in Request
  /\ pc[t] = "read_actor" => req[t].op \in {"provision", "remove", "patch"}
  /\ pc[t] = "assign" =>
       /\ actor[t] \in Membership
       /\ actor[t].tenant \in shop
       /\ req[t].user \in account
       /\ membership[req[t].user] = NoRow
  /\ pc[t] \in {"provision", "remove"} =>
       actor[t] \in Membership /\ actor[t].tenant \in shop
  /\ pc[t] = "patch" => membership[req[t].user] # NoRow

Holds == \A t \in Thread : HoldsAt(t)

StaffInv == TypeOK /\ Holds /\ OnePerUser

-----------------------------------------------------------------------------
(* The memberships.                                                        *)

\* A membership, once made, stays and stays in its tenant.
LEMMA MembershipStays ==
  ASSUME StaffInv, NEW t \in Thread, Serve(t) \/ ServePatch(t),
         NEW u \in User, membership[u] # NoRow
  PROVE  membership'[u] \in Membership /\ membership'[u].tenant = membership[u].tenant
<1> USE DEF StaffInv, TypeOK, tables
<1>1. HoldsAt(t)
  BY DEF Holds
<1>2. membership[u] \in Membership /\ u \in account
  OBVIOUS
<1>3. CASE UNCHANGED membership
  BY <1>2, <1>3
<1>4. CASE Onboard(t)
  <2>1. req[t].user # u
    BY <1>2, <1>4 DEF Onboard
  <2> QED
    BY <1>2, <1>4, <2>1 DEF Onboard
<1>5. CASE AssignUser(t)
  <2>1. req[t].user # u
    BY <1>1, <1>5 DEF AssignUser, HoldsAt
  <2> QED
    BY <1>2, <1>5, <2>1 DEF AssignUser
<1>6. CASE RemoveMember(t)
  <2>1. membership' = [membership EXCEPT ![req[t].user].left = TRUE]
    BY <1>6 DEF RemoveMember
  <2> QED
    BY <1>2, <2>1 DEF Membership
<1>7. CASE SaveRole(t)
  <2>1. membership' = [membership EXCEPT ![req[t].user].role = req[t].role]
        /\ req[t].role \in Role
    BY <1>1, <1>7 DEF SaveRole, HoldsAt, Request
  <2> QED
    BY <1>2, <2>1 DEF Membership
<1>8. CASE CallRegister(t) \/ CallProvision(t) \/ CallRemove(t) \/ CallRemoveDirectly(t)
           \/ CallPatch(t)
  BY <1>3, <1>8 DEF CallRegister, CallProvision, CallRemove, CallRemoveDirectly,
         CallPatch, Accept
<1>9. CASE \/ RejectOnboard(t) \/ RejectProvision(t) \/ RejectRemove(t) \/ KeepRole(t)
           \/ Fail(t)
  BY <1>3, <1>9 DEF RejectOnboard, RejectProvision, RejectRemove, KeepRole, Fail, Refuse
<1>10. CASE ReadActor(t) \/ CreateUser(t) \/ ReadTarget(t)
  BY <1>3, <1>10 DEF ReadActor, CreateUser, ReadTarget, Refuse
<1> QED
  BY <1>4, <1>5, <1>6, <1>7, <1>8, <1>9, <1>10 DEF Serve, ServePatch

\* A step that ends a request leaves the thread with nothing to rely on.
LEMMA EndHolds ==
  ASSUME TypeOK, NEW t \in Thread, End(t)
  PROVE  HoldsAt(t)'
<1>1. pc'[t] = "idle"
  BY DEF End, TypeOK
<1> QED
  BY <1>1 DEF HoldsAt

\* A step leaves the memory of the other threads alone.
LEMMA OthersKeep ==
  ASSUME TypeOK, NEW t \in Thread, Serve(t) \/ ServePatch(t), NEW s \in Thread, s # t
  PROVE  pc'[s] = pc[s] /\ req'[s] = req[s] /\ actor'[s] = actor[s]
<1> USE DEF TypeOK, tables
<1>1. CASE CallRegister(t) \/ CallProvision(t) \/ CallRemove(t) \/ CallRemoveDirectly(t)
           \/ CallPatch(t)
  BY <1>1 DEF CallRegister, CallProvision, CallRemove, CallRemoveDirectly, CallPatch, Accept
<1>2. CASE CreateUser(t)
  BY <1>2 DEF CreateUser, Goto
<1>3. CASE ReadActor(t) \/ ReadTarget(t)
  BY <1>3 DEF ReadActor, ReadTarget, Refuse, End
<1>4. CASE \/ Onboard(t) \/ AssignUser(t) \/ RemoveMember(t) \/ RejectOnboard(t)
           \/ RejectProvision(t) \/ RejectRemove(t) \/ Fail(t) \/ SaveRole(t) \/ KeepRole(t)
  BY <1>4 DEF Onboard, AssignUser, RemoveMember, RejectOnboard, RejectProvision,
         RejectRemove, Fail, SaveRole, KeepRole, Refuse, End
<1> QED
  BY <1>1, <1>2, <1>3, <1>4 DEF Serve, ServePatch

\* Only these make an account or a tenant, and none is deleted.
LEMMA AccountsGrow ==
  ASSUME NEW t \in Thread, Serve(t) \/ ServePatch(t)
  PROVE  account \subseteq account' /\ shop \subseteq shop'
BY DEF Serve, ServePatch, CallRegister, CallProvision, CallRemove, CallRemoveDirectly,
       CallPatch, Accept,
       RejectOnboard, RejectProvision, RejectRemove, KeepRole, Fail, Refuse, ReadActor,
       ReadTarget, CreateUser, Onboard, AssignUser, RemoveMember, SaveRole, tables

LEMMA StaffTypeStep ==
  ASSUME StaffInv, NEW t \in Thread, Serve(t) \/ ServePatch(t)
  PROVE  TypeOK'
<1> USE DEF StaffInv, tables
<1>1. HoldsAt(t)
  BY DEF Holds
<1>2. CASE CallRegister(t) \/ CallProvision(t) \/ CallRemove(t) \/ CallRemoveDirectly(t)
           \/ CallPatch(t)
  BY <1>2 DEF CallRegister, CallProvision, CallRemove, CallRemoveDirectly, CallPatch,
         Accept, TypeOK
<1>3. CASE \/ RejectOnboard(t) \/ RejectProvision(t) \/ RejectRemove(t) \/ KeepRole(t)
           \/ Fail(t)
  <2>1. End(t) /\ UNCHANGED tables
    BY <1>3 DEF RejectOnboard, RejectProvision, RejectRemove, KeepRole, Fail, Refuse
  <2> QED
    BY <2>1, EndType DEF TypeOK
<1>4. CASE ReadActor(t)
  <2>1. CASE Active(req[t].by, req[t].tenant)
    <3>1. req[t].by \in User /\ req[t].op \in {"provision", "remove", "patch"}
      BY <1>1, <1>4 DEF ReadActor, HoldsAt, Request
    <3>2. membership[req[t].by] \in Membership
      BY <2>1, <3>1 DEF Active, TypeOK
    <3> QED
      BY <1>4, <2>1, <3>1, <3>2 DEF ReadActor, TypeOK
  <2>2. CASE ~Active(req[t].by, req[t].tenant)
    <3>1. End(t) /\ UNCHANGED tables
      BY <1>4, <2>2 DEF ReadActor, Refuse
    <3> QED
      BY <3>1, EndType DEF TypeOK
  <2> QED
    BY <2>1, <2>2
<1>5. CASE ReadTarget(t)
  <2>1. CASE Active(req[t].user, req[t].tenant)
    <3>1. req[t].user \in User
      BY <1>1, <1>5 DEF ReadTarget, HoldsAt, Request
    <3>2. membership[req[t].user] \in Membership
      BY <2>1, <3>1 DEF Active, TypeOK
    <3> QED
      BY <1>5, <2>1, <3>2 DEF ReadTarget, TypeOK
  <2>2. CASE ~Active(req[t].user, req[t].tenant)
    <3>1. End(t) /\ UNCHANGED tables
      BY <1>5, <2>2 DEF ReadTarget, Refuse
    <3> QED
      BY <3>1, EndType DEF TypeOK
  <2> QED
    BY <2>1, <2>2
<1>6. CASE CreateUser(t)
  <2>1. req[t].user \in User
    BY <1>1, <1>6 DEF CreateUser, HoldsAt, Request
  <2> QED
    BY <1>6, <2>1 DEF CreateUser, Goto, TypeOK
<1>7. CASE Onboard(t)
  <2>1. req[t].user \in User /\ End(t)
    BY <1>1, <1>7 DEF Onboard, HoldsAt, Request
  <2>2. PICK tenant \in Tenant \ shop :
          /\ shop' = shop \cup {tenant}
          /\ account' = account \cup {req[t].user}
          /\ membership' = [membership EXCEPT ![req[t].user] =
               [tenant |-> tenant, role |-> "OWNER", left |-> FALSE]]
    BY <1>7 DEF Onboard
  <2>3. [tenant |-> tenant, role |-> "OWNER", left |-> FALSE] \in Membership
    BY DEF Membership, Role
  <2> QED
    BY <2>1, <2>2, <2>3, EndType DEF TypeOK
<1>8. CASE AssignUser(t)
  <2> DEFINE row == [tenant |-> actor[t].tenant, role |-> req[t].role, left |-> FALSE]
  <2>1. req[t].user \in account /\ row \in Membership /\ row.tenant \in shop
    BY <1>1, <1>8 DEF AssignUser, HoldsAt, Request, Membership
  <2>2. membership' = [membership EXCEPT ![req[t].user] = row]
        /\ End(t) /\ UNCHANGED <<account, shop>>
    BY <1>8 DEF AssignUser
  <2> QED
    BY <2>1, <2>2, EndType DEF TypeOK
<1>9. CASE RemoveMember(t) \/ SaveRole(t)
  <2> DEFINE u == req[t].user
  <2>1. u \in User /\ membership[u] \in Membership
    BY <1>1, <1>9 DEF RemoveMember, SaveRole, HoldsAt, Request, Active, TypeOK
  <2>2. End(t) /\ UNCHANGED <<account, shop>>
    BY <1>9 DEF RemoveMember, SaveRole
  <2>3. membership'[u] \in Membership /\ membership'[u].tenant = membership[u].tenant
    BY <2>1, MembershipStays, NullAssumption
  <2>4. \A v \in User : v # u => membership'[v] = membership[v]
    BY <1>9 DEF RemoveMember, SaveRole, TypeOK
  <2>5. DOMAIN membership' = User /\ membership' = [v \in User |-> membership'[v]]
    BY <1>9 DEF RemoveMember, SaveRole, TypeOK
  <2>6. membership' \in [User -> Membership \cup {NoRow}]
    BY <2>1, <2>3, <2>4, <2>5 DEF TypeOK
  <2>7. \A v \in User : membership'[v] # NoRow => v \in account' /\ membership'[v].tenant \in shop'
    BY <2>1, <2>2, <2>3, <2>4, NullAssumption DEF TypeOK
  <2>8. account' \subseteq User /\ shop' \subseteq Tenant
    BY <2>2 DEF TypeOK
  <2> QED
    BY <2>2, <2>6, <2>7, <2>8, EndType DEF TypeOK
<1> QED
  BY <1>2, <1>3, <1>4, <1>5, <1>6, <1>7, <1>8, <1>9 DEF Serve, ServePatch

\* What a thread that did not move relies on stays true.
LEMMA HoldsKept ==
  ASSUME StaffInv, NEW t \in Thread, Serve(t) \/ ServePatch(t), NEW s \in Thread, s # t
  PROVE  HoldsAt(s)'
<1> USE DEF StaffInv
<1>1. HoldsAt(s) /\ HoldsAt(t)
  BY DEF Holds
<1>2. pc'[s] = pc[s] /\ req'[s] = req[s] /\ actor'[s] = actor[s]
  BY OthersKeep
<1>3. account \subseteq account' /\ shop \subseteq shop'
  BY AccountsGrow
<1>4. ASSUME pc[s] = "patch" PROVE membership'[req[s].user] # NoRow
  <2>1. req[s].user \in User /\ membership[req[s].user] # NoRow
    BY <1>1, <1>4 DEF HoldsAt, Request
  <2> QED
    BY <2>1, MembershipStays, NullAssumption
<1>5. ASSUME pc[s] = "assign" PROVE membership'[req[s].user] = NoRow
  <2> DEFINE u == req[s].user
  <2>1. u \in User /\ u \in account /\ membership[u] = NoRow
    BY <1>1, <1>5 DEF HoldsAt, Request
  <2>2. CASE UNCHANGED membership
    BY <2>1, <2>2
  <2>3. CASE Onboard(t) \/ AssignUser(t)
    <3>1. req[t].user # u
      BY <1>5, <2>1, <2>3 DEF Onboard, AssignUser, OnePerUser
    <3> QED
      BY <2>1, <2>3, <3>1 DEF Onboard, AssignUser, TypeOK
  <2>4. CASE RemoveMember(t) \/ SaveRole(t)
    <3>1. membership[req[t].user] # NoRow
      BY <1>1, <2>4 DEF RemoveMember, SaveRole, HoldsAt, Active
    <3> QED
      BY <2>1, <2>4, <3>1 DEF RemoveMember, SaveRole, TypeOK
  <2> QED
    BY <2>2, <2>3, <2>4 DEF Serve, ServePatch, CallRegister, CallProvision, CallRemove,
       CallRemoveDirectly, CallPatch, Accept, RejectOnboard, RejectProvision,
       RejectRemove, KeepRole, Fail,
       Refuse, ReadActor, ReadTarget, CreateUser, tables
<1> QED
  BY <1>1, <1>2, <1>3, <1>4, <1>5 DEF HoldsAt

\* A thread that moves is left in a state it may be in.
LEMMA HoldsMoved ==
  ASSUME StaffInv, NEW t \in Thread, Serve(t) \/ ServePatch(t)
  PROVE  HoldsAt(t)'
<1> USE DEF StaffInv
<1>1. HoldsAt(t)
  BY DEF Holds
<1>2. CASE \/ Onboard(t) \/ AssignUser(t) \/ RemoveMember(t) \/ RejectOnboard(t)
           \/ RejectProvision(t) \/ RejectRemove(t) \/ Fail(t) \/ SaveRole(t) \/ KeepRole(t)
  <2>1. End(t)
    BY <1>2 DEF Onboard, AssignUser, RemoveMember, RejectOnboard, RejectProvision,
       RejectRemove, Fail, SaveRole, KeepRole, Refuse
  <2> QED
    BY <2>1, EndHolds
<1>3. CASE CallRegister(t) \/ CallProvision(t) \/ CallRemove(t) \/ CallRemoveDirectly(t)
           \/ CallPatch(t)
  <2>1. /\ req'[t] \in Request
        /\ \/ pc'[t] = "register"
           \/ pc'[t] = "read_actor" /\ req'[t].op \in {"provision", "remove", "patch"}
    BY <1>3 DEF CallRegister, CallProvision, CallRemove, CallRemoveDirectly, CallPatch,
           Accept, TypeOK
  <2> QED
    BY <2>1 DEF HoldsAt
<1>4. CASE ReadActor(t)
  <2>1. CASE ~Active(req[t].by, req[t].tenant)
    BY <1>4, <2>1, EndHolds DEF ReadActor, Refuse
  <2>2. CASE Active(req[t].by, req[t].tenant)
    <3>1. /\ req[t] \in Request /\ req[t].by \in User
          /\ req[t].op \in {"provision", "remove", "patch"}
      BY <1>1, <1>4 DEF ReadActor, HoldsAt, Request
    <3>2. membership[req[t].by] \in Membership /\ membership[req[t].by].tenant \in shop
      BY <2>2, <3>1 DEF Active, TypeOK
    <3>3. /\ actor'[t] = membership[req[t].by] /\ req'[t] = req[t]
          /\ pc'[t] \in {"read_target", "provision", "remove"}
          /\ UNCHANGED tables
      BY <1>4, <2>2, <3>1 DEF ReadActor, TypeOK
    <3> QED
      BY <3>1, <3>2, <3>3 DEF HoldsAt, tables
  <2> QED
    BY <2>1, <2>2
<1>5. CASE ReadTarget(t)
  <2>1. CASE ~Active(req[t].user, req[t].tenant)
    BY <1>5, <2>1, EndHolds DEF ReadTarget, Refuse
  <2>2. CASE Active(req[t].user, req[t].tenant)
    <3>1. pc'[t] = "patch" /\ req'[t] = req[t] /\ req[t] \in Request /\ UNCHANGED tables
      BY <1>1, <1>5, <2>2 DEF ReadTarget, HoldsAt, TypeOK
    <3> QED
      BY <2>2, <3>1 DEF HoldsAt, Active, tables
  <2> QED
    BY <2>1, <2>2
<1>6. CASE CreateUser(t)
  <2>1. req[t] \in Request /\ req[t].user \in User /\ req[t].user \notin account
    BY <1>1, <1>6 DEF CreateUser, HoldsAt, Request
  <2>2. membership[req[t].user] = NoRow
    BY <2>1 DEF TypeOK
  <2>3. /\ account' = account \cup {req[t].user} /\ pc'[t] = "assign"
        /\ UNCHANGED <<req, actor, shop, membership>>
    BY <1>6 DEF CreateUser, Goto, TypeOK
  <2>4. actor[t] \in Membership /\ actor[t].tenant \in shop
    BY <1>1, <1>6 DEF CreateUser, HoldsAt
  <2> QED
    BY <2>1, <2>2, <2>3, <2>4 DEF HoldsAt
<1> QED
  BY <1>2, <1>3, <1>4, <1>5, <1>6 DEF Serve, ServePatch

\* A second thread that provisions a user finds the account taken.
LEMMA OnePerUserKept ==
  ASSUME StaffInv, NEW t \in Thread, Serve(t) \/ ServePatch(t)
  PROVE  OnePerUser'
<1> USE DEF StaffInv
<1>1. SUFFICES ASSUME NEW r \in Thread, NEW s \in Thread, pc'[r] = "assign",
                      pc'[s] = "assign", req'[r].user = req'[s].user, r # s, s # t
               PROVE  FALSE
  BY DEF OnePerUser
<1>2. pc[s] = "assign" /\ req'[s] = req[s] /\ req[s].user \in account
  BY <1>1, OthersKeep DEF Holds, HoldsAt
<1>3. CASE r # t
  BY <1>1, <1>2, <1>3, OthersKeep DEF OnePerUser
<1>4. CASE r = t
  <2>1. CreateUser(t)
    BY <1>1, <1>4 DEF Serve, ServePatch, CallRegister, CallProvision, CallRemove,
           CallRemoveDirectly, CallPatch,
       Accept, RejectOnboard, RejectProvision, RejectRemove, KeepRole, Fail, Refuse, End,
       ReadActor, ReadTarget, Onboard, AssignUser, RemoveMember, SaveRole, TypeOK,
       Holds, HoldsAt
  <2> QED
    BY <1>1, <1>2, <1>4, <2>1 DEF CreateUser, Goto
<1> QED
  BY <1>3, <1>4

LEMMA StaffInvKept ==
  ASSUME StaffInv, NEW t \in Thread, Serve(t) \/ ServePatch(t)
  PROVE  StaffInv'
<1>1. Holds'
  BY HoldsKept, HoldsMoved DEF Holds
<1> QED
  BY <1>1, StaffTypeStep, OnePerUserKept DEF StaffInv

-----------------------------------------------------------------------------
(* The requests.                                                           *)

\* What a worker relies on: between two of its statements the memberships
\* may change, so it is that the user was entitled once.
WasEntitled(w) == visit[w].entitled \/ Entitled(w)

VisitAt(w) ==
  /\ visit[w].at = "idle" => visit[w].header = NoTenant
  /\ visit[w].at # "idle" => visit[w].user \in User
  /\ visit[w].at # "response" => visit[w].rows = {}
  /\ visit[w].at = "rows" /\ visit[w].view = "products" => WasEntitled(w)
  /\ visit[w].at = "rows" /\ visit[w].view # "products" /\ MayRead(w) => WasEntitled(w)
  /\ visit[w].rows # {} => visit[w].rows = {Parsed(visit[w].header)} /\ WasEntitled(w)

ContextInv ==
  /\ StaffInv
  /\ ContextTypeOK
  /\ ContextIsOwn
  /\ \A w \in Worker : VisitAt(w)

LEMMA ContextInitInv == ContextInit => ContextInv
<1> SUFFICES ASSUME ContextInit PROVE ContextInv
  OBVIOUS
<1> USE DEF ContextInit
<1>1. StaffInv
  BY DEF Init, StaffInv, TypeOK, Holds, HoldsAt, OnePerUser
<1>2. ContextTypeOK
  BY DEF ContextTypeOK, NoVisit, Header, Views
<1>3. ContextIsOwn
  BY HeaderAssumption DEF ContextIsOwn, NoVisit, Parsed
<1>4. \A w \in Worker : VisitAt(w)
  BY DEF VisitAt, NoVisit
<1> QED
  BY <1>1, <1>2, <1>3, <1>4 DEF ContextInv

\* The memberships change under the requests.
LEMMA StaffStepInv ==
  ASSUME ContextInv, NEW t \in Thread, StaffStep(t)
  PROVE  ContextInv'
<1> USE DEF ContextInv, StaffStep
<1>1. StaffInv'
  BY StaffInvKept
<1>2. \A w \in Worker :
        visit'[w] = IF visit[w].at = "idle" THEN visit[w]
                    ELSE [visit[w] EXCEPT !.entitled = @ \/ Entitled(w)]
  OBVIOUS
<1>3. ContextTypeOK'
  <2>1. \A w \in Worker : visit[w].entitled \in BOOLEAN /\ Entitled(w) \in BOOLEAN
    BY DEF ContextTypeOK, Entitled, HasRole, Active
  <2>2. \A w \in Worker : (visit[w].entitled \/ Entitled(w)) \in BOOLEAN
    BY <2>1
  <2> QED
    BY <2>2 DEF ContextTypeOK
<1>4. ContextIsOwn'
  BY <1>2 DEF ContextIsOwn, ContextTypeOK, Parsed
<1>5. ASSUME NEW w \in Worker PROVE VisitAt(w)'
  <2>1. CASE visit[w].at = "idle"
    BY <1>2, <2>1 DEF VisitAt
  <2>2. CASE visit[w].at # "idle"
    <3>1. /\ visit'[w].at = visit[w].at /\ visit'[w].user = visit[w].user
          /\ visit'[w].header = visit[w].header /\ visit'[w].view = visit[w].view
          /\ visit'[w].actor = visit[w].actor /\ visit'[w].rows = visit[w].rows
          /\ visit'[w].entitled = (visit[w].entitled \/ Entitled(w))
      BY <1>2, <2>2 DEF ContextTypeOK
    <3>2. WasEntitled(w) => WasEntitled(w)'
      BY <3>1 DEF WasEntitled
    <3> QED
      BY <3>1, <3>2 DEF VisitAt, MayRead, Parsed
  <2> QED
    BY <2>1, <2>2
<1> QED
  BY <1>1, <1>3, <1>4, <1>5

LEMMA IssueTokenInv ==
  ASSUME ContextInv, NEW u \in User, IssueToken(u)
  PROVE  ContextInv'
<1> USE DEF ContextInv, staffVars, vars
<1>1. StaffInv'
  BY DEF IssueToken, StaffInv, TypeOK, Holds, HoldsAt, OnePerUser
<1>2. PICK tenant \in ClaimOf(u) : claims' = [claims EXCEPT ![u] = tenant]
  BY DEF IssueToken
<1>3. tenant \in Tenant \cup {NoTenant}
  BY DEF ClaimOf, StaffInv, TypeOK, Membership
<1>4. ContextTypeOK'
  BY <1>2, <1>3 DEF IssueToken, ContextTypeOK
<1>5. ContextIsOwn'
  BY DEF IssueToken, ContextIsOwn, Parsed
<1>6. \A w \in Worker : VisitAt(w)'
  BY DEF IssueToken, VisitAt, WasEntitled, Entitled, HasRole, Active, MayRead, Parsed
<1> QED
  BY <1>1, <1>4, <1>5, <1>6

\* A step of one worker leaves the memberships and the others alone.
LEMMA ReadFrame ==
  ASSUME ContextInv, NEW v \in Worker, Read(v)
  PROVE  /\ UNCHANGED staffVars
         /\ claims' = claims
         /\ \A w \in Worker : w # v => local'[w] = local[w] /\ visit'[w] = visit[w]
<1> USE DEF ContextInv, ContextTypeOK
<1>1. CASE Enter(v)
  BY <1>1 DEF Enter, SetTenant
<1>2. CASE Leave(v)
  BY <1>2 DEF Leave, ClearTenant
<1>3. CASE CheckTenant(v) \/ CheckRole(v)
  BY <1>3 DEF CheckTenant, CheckRole, Proceed
<1>4. CASE FetchActor(v) \/ ReadRows(v)
  BY <1>4 DEF FetchActor, ReadRows
<1> QED
  BY <1>1, <1>2, <1>3, <1>4 DEF Read

\* The worker that moves is left with a reading of its own.
LEMMA EnterInv ==
  ASSUME ContextInv, NEW w \in Worker, Enter(w)
  PROVE  ContextTypeOK' /\ local'[w] = Parsed(visit'[w].header) /\ VisitAt(w)'
<1> USE DEF ContextInv, ContextTypeOK
<1>1. PICK u \in User, header \in Header, view \in View :
        /\ SetTenant(w, header)
        /\ visit' = [visit EXCEPT ![w] =
             [NoVisit EXCEPT !.at = IF view = "members" THEN "role" ELSE "tenant",
                !.user = u, !.header = header, !.view = view]]
  BY DEF Enter
<1>2. /\ visit'[w].header = header /\ visit'[w].rows = {} /\ visit'[w].user = u
      /\ visit'[w].at \in {"role", "tenant"}
      /\ local' = [local EXCEPT ![w] = Parsed(header)]
  BY <1>1 DEF SetTenant, NoVisit
<1>3. ContextTypeOK'
  <2>1. Parsed(header) \in Tenant \cup {NoTenant} /\ claims' = claims /\ view \in Views
    BY ViewAssumption DEF Parsed, Enter
  <2> QED
    BY <1>1, <1>2, <2>1 DEF NoVisit
<1> QED
  BY <1>2, <1>3 DEF VisitAt

LEMMA LeaveInv ==
  ASSUME ContextInv, NEW w \in Worker, Leave(w)
  PROVE  ContextTypeOK' /\ local'[w] = Parsed(visit'[w].header) /\ VisitAt(w)'
<1> USE DEF ContextInv, ContextTypeOK
<1>1. visit'[w] = NoVisit /\ local'[w] = NoTenant
  BY DEF Leave, ClearTenant
<1>2. NoVisit \in [at : {"idle", "tenant", "role", "actor", "rows", "response"},
                   user : User \cup {NoRow}, header : Header, view : Views,
                   actor : Membership \cup {NoRow}, rows : SUBSET Tenant,
                   entitled : BOOLEAN]
  BY DEF NoVisit, Header, Views
<1>3. ContextTypeOK'
  BY <1>2 DEF Leave, ClearTenant
<1> QED
  BY <1>1, <1>3, HeaderAssumption DEF NoVisit, Parsed, VisitAt

\* A permission that lets an active member in has seen him entitled.
LEMMA CheckInv ==
  ASSUME ContextInv, NEW w \in Worker, CheckTenant(w) \/ CheckRole(w)
  PROVE  ContextTypeOK' /\ local'[w] = Parsed(visit'[w].header) /\ VisitAt(w)'
<1> USE DEF ContextInv, ContextTypeOK
<1>1. PICK next \in {"role", "rows", "actor"} :
        /\ visit' = [visit EXCEPT ![w].at = next]
        /\ UNCHANGED <<staffVars, local, claims>>
        /\ next = "rows" =>
             /\ visit[w].view = "products"
             /\ local[w] # NoTenant
             /\ Active(visit[w].user, local[w])
  BY DEF CheckTenant, CheckRole, Proceed, IsMember, NeedsRole
<1>2. visit[w].at \in {"tenant", "role"}
  BY DEF CheckTenant, CheckRole
<1>3. /\ visit'[w].at = next /\ visit'[w].user = visit[w].user
      /\ visit'[w].header = visit[w].header /\ visit'[w].view = visit[w].view
      /\ visit'[w].rows = visit[w].rows /\ visit'[w].entitled = visit[w].entitled
  BY <1>1
<1>4. visit[w].user \in User /\ visit[w].rows = {}
  BY <1>2 DEF VisitAt
<1>5. next = "rows" => Entitled(w)
  <2> SUFFICES ASSUME next = "rows" PROVE Entitled(w)
    OBVIOUS
  <2>1. Active(visit[w].user, Parsed(visit[w].header)) /\ Parsed(visit[w].header) # NoTenant
    BY <1>1 DEF ContextIsOwn
  <2>2. membership[visit[w].user].role \in Role
    BY <1>4, <2>1 DEF Active, StaffInv, TypeOK, Membership
  <2> QED
    BY <1>1, <2>1, <2>2 DEF Entitled, HasRole, NeedsRole
<1>6. Entitled(w)' = Entitled(w)
  BY <1>1, <1>3 DEF Entitled, HasRole, Active, Parsed, staffVars, vars
<1>7. ContextTypeOK'
  BY <1>1
<1>8. local'[w] = Parsed(visit'[w].header)
  BY <1>1, <1>3 DEF ContextIsOwn, Parsed
<1>9. VisitAt(w)'
  BY <1>1, <1>3, <1>4, <1>5, <1>6 DEF VisitAt, WasEntitled
<1> QED
  BY <1>7, <1>8, <1>9

\* The role an actor is held to is the one he had when he was read.
LEMMA FetchActorInv ==
  ASSUME ContextInv, NEW w \in Worker, FetchActor(w)
  PROVE  ContextTypeOK' /\ local'[w] = Parsed(visit'[w].header) /\ VisitAt(w)'
<1> USE DEF ContextInv, ContextTypeOK
<1>1. /\ visit[w].at = "actor" /\ local[w] # NoTenant
      /\ Active(visit[w].user, local[w])
      /\ visit' = [visit EXCEPT ![w].at = "rows", ![w].actor = membership[visit[w].user]]
      /\ UNCHANGED <<staffVars, local, claims>>
  BY DEF FetchActor
<1>2. visit[w].user \in User /\ visit[w].rows = {}
  BY <1>1 DEF VisitAt
<1>3. membership[visit[w].user] \in Membership
  BY <1>1, <1>2 DEF Active, StaffInv, TypeOK
<1>4. /\ visit'[w].at = "rows" /\ visit'[w].user = visit[w].user
      /\ visit'[w].header = visit[w].header /\ visit'[w].view = visit[w].view
      /\ visit'[w].rows = visit[w].rows /\ visit'[w].actor = membership[visit[w].user]
  BY <1>1
<1>5. ContextTypeOK'
  <2> DEFINE read == [visit[w] EXCEPT !.at = "rows", !.actor = membership[visit[w].user]]
  <2>1. visit' = [visit EXCEPT ![w] = read]
    BY <1>1
  <2>2. read \in [at : {"idle", "tenant", "role", "actor", "rows", "response"},
                  user : User \cup {NoRow}, header : Header, view : Views,
                  actor : Membership \cup {NoRow}, rows : SUBSET Tenant,
                  entitled : BOOLEAN]
    BY <1>3
  <2> QED
    BY <1>1, <2>1, <2>2
<1>6. local'[w] = Parsed(visit'[w].header) /\ local[w] = Parsed(visit[w].header)
  BY <1>1, <1>4 DEF ContextIsOwn, Parsed
<1>7. MayRead(w)' => Entitled(w)'
  <2>1. membership' = membership
    BY <1>1 DEF staffVars, vars
  <2>2. membership[visit[w].user].role \in Role
    BY <1>3 DEF Membership
  <2> QED
    BY <1>1, <1>4, <1>6, <2>1, <2>2 DEF MayRead, Entitled, HasRole, Active, Parsed
<1>8. visit[w].view = "products" => MayRead(w)'
  BY <1>4 DEF MayRead, NeedsRole
<1> QED
  BY <1>2, <1>4, <1>5, <1>6, <1>7, <1>8 DEF VisitAt, WasEntitled

\* Rows are those of the thread's tenant.
LEMMA ReadRowsInv ==
  ASSUME ContextInv, NEW w \in Worker, ReadRows(w)
  PROVE  ContextTypeOK' /\ local'[w] = Parsed(visit'[w].header) /\ VisitAt(w)'
<1> USE DEF ContextInv, ContextTypeOK
<1>1. PICK rows \in SUBSET {local[w]} :
        /\ visit[w].at = "rows" /\ MayRead(w)
        /\ rows \subseteq Tenant
        /\ visit' = [visit EXCEPT ![w].at = "response", ![w].rows = rows]
        /\ UNCHANGED <<staffVars, local, claims>>
  <2> DEFINE rows == IF visit[w].view = "products" THEN Scoped(w)
                     ELSE Scoped(w) \cap {visit[w].actor.tenant}
  <2>1. rows \subseteq {local[w]} /\ rows \subseteq Tenant
    BY DEF Scoped
  <2> QED
    BY <2>1 DEF ReadRows
<1>2. /\ visit'[w].at = "response" /\ visit'[w].user = visit[w].user
      /\ visit'[w].header = visit[w].header /\ visit'[w].view = visit[w].view
      /\ visit'[w].rows = rows /\ visit'[w].entitled = visit[w].entitled
  BY <1>1
<1>3. WasEntitled(w) /\ visit[w].user \in User
  BY <1>1 DEF VisitAt
<1>4. WasEntitled(w)'
  BY <1>1, <1>2, <1>3 DEF WasEntitled, Entitled, HasRole, Active, Parsed, staffVars, vars
<1>5. local'[w] = Parsed(visit'[w].header) /\ local[w] = local'[w]
  BY <1>1, <1>2 DEF ContextIsOwn, Parsed
<1>6. ContextTypeOK'
  <2> DEFINE given == [visit[w] EXCEPT !.at = "response", !.rows = rows]
  <2>1. visit' = [visit EXCEPT ![w] = given]
    BY <1>1
  <2>2. given \in [at : {"idle", "tenant", "role", "actor", "rows", "response"},
                   user : User \cup {NoRow}, header : Header, view : Views,
                   actor : Membership \cup {NoRow}, rows : SUBSET Tenant,
                   entitled : BOOLEAN]
    BY <1>1
  <2> QED
    BY <1>1, <2>1, <2>2
<1>7. rows # {} => rows = {Parsed(visit'[w].header)}
  BY <1>5
<1> QED
  BY <1>2, <1>3, <1>4, <1>5, <1>6, <1>7 DEF VisitAt, Parsed

LEMMA ReadInv ==
  ASSUME ContextInv, NEW v \in Worker, Read(v)
  PROVE  ContextInv'
<1>1. ContextTypeOK' /\ local'[v] = Parsed(visit'[v].header) /\ VisitAt(v)'
  BY EnterInv, LeaveInv, CheckInv, FetchActorInv, ReadRowsInv DEF Read
<1>2. /\ UNCHANGED staffVars
      /\ claims' = claims
      /\ \A w \in Worker : w # v => local'[w] = local[w] /\ visit'[w] = visit[w]
  BY ReadFrame
<1>3. StaffInv'
  BY <1>2 DEF ContextInv, StaffInv, TypeOK, Holds, HoldsAt, OnePerUser, staffVars, vars
<1>4. ContextIsOwn'
  BY <1>1, <1>2 DEF ContextInv, ContextIsOwn, Parsed
<1>5. ASSUME NEW w \in Worker PROVE VisitAt(w)'
  <2>1. CASE w = v
    BY <1>1, <2>1
  <2>2. CASE w # v
    <3>1. visit'[w] = visit[w] /\ membership' = membership
      BY <1>2, <2>2 DEF staffVars, vars
    <3> QED
      BY <3>1 DEF ContextInv, VisitAt, WasEntitled, Entitled, HasRole, Active, MayRead, Parsed
  <2> QED
    BY <2>1, <2>2
<1> QED
  BY <1>1, <1>3, <1>4, <1>5 DEF ContextInv

LEMMA ContextInvStep == ContextInv /\ [ContextNext]_allVars => ContextInv'
<1> SUFFICES ASSUME ContextInv, [ContextNext]_allVars PROVE ContextInv'
  OBVIOUS
<1>1. CASE UNCHANGED allVars
  BY <1>1 DEF allVars, vars, ContextInv, StaffInv, TypeOK, Holds, HoldsAt, OnePerUser,
     ContextTypeOK, ContextIsOwn, VisitAt, WasEntitled, Entitled, HasRole,
     Active, MayRead, Parsed
<1> QED
  BY <1>1, StaffStepInv, IssueTokenInv, ReadInv DEF ContextNext

-----------------------------------------------------------------------------

\* The inductive invariant of the composition (core/middleware.py:8-17;
\* tenants/services.py:30-143).
THEOREM ContextInvHolds == ContextSpec => []ContextInv
BY ContextInitInv, ContextInvStep, PTL DEF ContextSpec

\* What the threads, the tokens and the requests hold has its type
\* (core/thread_local.py:6-25).
THEOREM ContextTypes == ContextSpec => []ContextTypeOK
BY ContextInvHolds, PTL DEF ContextInv

\* However many requests a thread has served and whatever became of them, the
\* tenant it has is the one of the request it serves (core/middleware.py:8-17).
THEOREM ContextsAreOwn == ContextSpec => []ContextIsOwn
BY ContextInvHolds, PTL DEF ContextInv

\* Rows are of the tenant the header names, and only for a user who was
\* entitled to them at some moment of the request (tenants/permissions.py:10-54;
\* tenants/services.py:119-143; orders/services.py:407-421).
THEOREM RowsForMembers == ContextSpec => []MembersOnly
<1>1. ContextInv => MembersOnly
  BY DEF ContextInv, MembersOnly, VisitAt, WasEntitled
<1> QED
  BY <1>1, ContextInvHolds, PTL

-----------------------------------------------------------------------------
(* Staff with its change of role.                                          *)

PatchingNext == Next \/ \E t \in Thread : ServePatch(t)

\* Only two kinds of step change a membership there is: a removal, never of
\* an owner, and a change of role.
LEMMA RowEffect ==
  ASSUME StaffInv, NEW t \in Thread, Serve(t) \/ ServePatch(t),
         NEW u \in User, membership[u] # NoRow, membership'[u] # membership[u]
  PROVE  /\ req[t].user = u
         /\ \/ /\ RemoveMember(t)
               /\ membership[u].role # "OWNER" /\ membership'[u].role = membership[u].role
            \/ /\ SaveRole(t)
               /\ membership'[u] = [membership[u] EXCEPT !.role = req[t].role]
<1> USE DEF StaffInv, TypeOK, tables
<1>1. HoldsAt(t)
  BY DEF Holds
<1>2. membership[u] \in Membership /\ u \in account
  OBVIOUS
<1>3. CASE Onboard(t) \/ AssignUser(t)
  BY <1>1, <1>2, <1>3 DEF Onboard, AssignUser, HoldsAt
<1>4. CASE RemoveMember(t)
  <2>1. membership' = [membership EXCEPT ![req[t].user].left = TRUE]
        /\ membership[req[t].user].role # "OWNER"
    BY <1>4 DEF RemoveMember, MayRemove
  <2>2. req[t].user = u
    BY <2>1
  <2> QED
    BY <1>2, <1>4, <2>1, <2>2 DEF Membership
<1>5. CASE SaveRole(t)
  BY <1>5 DEF SaveRole
<1> QED
  BY <1>3, <1>4, <1>5 DEF Serve, ServePatch, CallRegister, CallProvision, CallRemove,
     CallRemoveDirectly, CallPatch, Accept, RejectOnboard, RejectProvision,
     RejectRemove, KeepRole, Fail,
     Refuse, ReadActor, ReadTarget, CreateUser

LEMMA PatchingInit == Init => StaffInv
BY DEF Init, StaffInv, TypeOK, Holds, HoldsAt, OnePerUser

LEMMA PatchingStep == StaffInv /\ [PatchingNext]_staffVars => StaffInv'
<1> SUFFICES ASSUME StaffInv, [PatchingNext]_staffVars PROVE StaffInv'
  OBVIOUS
<1>1. CASE UNCHANGED staffVars
  BY <1>1 DEF staffVars, vars, StaffInv, TypeOK, Holds, HoldsAt, OnePerUser
<1> QED
  BY <1>1, StaffInvKept DEF PatchingNext, Next

\* Who has left a tenant stays out, whatever role somebody who read his
\* membership before gives him afterwards, for any threads
\* (tenants/services.py:146-185, 188-249).
THEOREM LeaversStayOut == PatchingSpec => LeftForGood
<1> DEFINE StaysOut(u) == membership[u] # NoRow /\ membership[u].left => membership'[u].left
<1>1. ASSUME StaffInv, [PatchingNext]_staffVars, NEW u \in User PROVE StaysOut(u)
  <2>1. SUFFICES ASSUME membership[u] # NoRow, membership[u].left,
                        membership'[u] # membership[u]
                 PROVE  membership'[u].left
    OBVIOUS
  <2>2. PICK t \in Thread : Serve(t) \/ ServePatch(t)
    BY <1>1, <2>1 DEF PatchingNext, Next, staffVars, vars
  <2>3. CASE RemoveMember(t)
    <3>1. req[t].user = u
      BY <1>1, <2>1, <2>2, RowEffect
    <3> QED
      BY <2>1, <2>3, <3>1 DEF RemoveMember, Active
  <2>4. CASE ~RemoveMember(t)
    <3>1. membership'[u] = [membership[u] EXCEPT !.role = req[t].role]
      BY <1>1, <2>1, <2>2, <2>4, RowEffect
    <3>2. membership[u] \in Membership
      BY <1>1, <2>1 DEF StaffInv, TypeOK
    <3> QED
      BY <2>1, <3>1, <3>2 DEF Membership
  <2> QED
    BY <2>3, <2>4
<1>2. StaffInv /\ [PatchingNext]_staffVars => [\A u \in User : StaysOut(u)]_staffVars
  BY <1>1
<1> QED
  BY <1>2, PatchingInit, PatchingStep, PTL DEF PatchingSpec, PatchingNext, LeftForGood, staffVars

\* The readings, tokens and headers beside the memberships change nothing in
\* them: the composition is the module Staff with its change of role
\* (core/middleware.py:8-17; tenants/services.py:96-143).
THEOREM ContextServesStaff == ContextSpec => PatchingSpec
<1>1. ContextInit => Init
  BY DEF ContextInit
<1>2. [ContextNext]_allVars => [PatchingNext]_staffVars
  BY DEF ContextNext, allVars, staffVars, StaffStep, IssueToken, Read, Enter, Leave, CheckTenant,
     CheckRole, FetchActor, ReadRows, Proceed, PatchingNext, Next
<1> QED
  BY <1>1, <1>2, PTL DEF ContextSpec, PatchingSpec, PatchingNext, staffVars
=============================================================================
