------------------------------- MODULE Staff --------------------------------
(***************************************************************************)
(* The accounts, tenants and memberships of tenants/services.py: onboarding*)
(* of an owner, provisioning of staff, removal and change of role, served  *)
(* by concurrent threads.                                                  *)
(*                                                                         *)
(* A view checks the permissions, reads the actor's membership and hands   *)
(* the object it read to the service, each in a statement of its own; the  *)
(* service decides by that object.  Onboarding is one transaction, the two *)
(* inserts of provisioning are not in one, and removing locks the target.  *)
(* An account is created together with its only membership, so a           *)
(* membership is known by its user, and a user by the e-mail address.  A   *)
(* request that a permission or a serializer refuses changes nothing and   *)
(* is left out.  Spec has the requests over HTTP, and the service that     *)
(* removes members as its tests call it, where it alone decides.           *)
(***************************************************************************)
EXTENDS Integers, FiniteSets

CONSTANTS
  Thread,      \* the web-server threads
  User,        \* e-mail addresses
  Tenant,      \* primary keys of Tenant
  NoRow,       \* a row that does not exist or was not read
  NoRequest    \* the request of a thread that serves none

Role == {"OWNER", "MANAGER", "CASHIER"}
Membership == [tenant : Tenant, role : Role, left : BOOLEAN]

\* What is asked, by whom and in which tenant, of which user; the role is
\* that of new staff, or the new one of the user.
Request == [op : {"register", "provision", "remove", "patch"},
            by : User, tenant : Tenant, user : User, role : Role]

ASSUME NullAssumption ==
  NoRow \notin Membership /\ NoRequest \notin Request

VARIABLES
  account,      \* the User table
  shop,         \* the Tenant table
  membership,   \* the TenantMembership table
  pc,           \* where each thread is
  req,          \* the request it serves
  actor,        \* the membership of the actor, as the view read it
  target        \* the membership to patch, as the view read it

tables == <<account, shop, membership>>
vars == <<account, shop, membership, pc, req, actor, target>>

Init ==
  /\ account = {}
  /\ shop = {}
  /\ membership = [u \in User |-> NoRow]
  /\ pc = [t \in Thread |-> "idle"]
  /\ req = [t \in Thread |-> NoRequest]
  /\ actor = [t \in Thread |-> NoRow]
  /\ target = [t \in Thread |-> NoRow]

\* ActiveMembershipManager: a member of the tenant who has not left.
Active(u, tenant) ==
  membership[u] # NoRow /\ membership[u].tenant = tenant /\ ~membership[u].left
HasRole(u, tenant, roles) == Active(u, tenant) /\ membership[u].role \in roles

\* The view has checked the permissions and the body of a request.
Accept(t, r, next) ==
  /\ pc[t] = "idle"
  /\ pc' = [pc EXCEPT ![t] = next]
  /\ req' = [req EXCEPT ![t] = r]
  /\ UNCHANGED <<tables, actor, target>>

Goto(t, next) == pc' = [pc EXCEPT ![t] = next] /\ UNCHANGED <<req, actor, target>>

\* The request ends, by an answer, an exception or the death of its thread.
End(t) ==
  /\ pc' = [pc EXCEPT ![t] = "idle"]
  /\ req' = [req EXCEPT ![t] = NoRequest]
  /\ actor' = [actor EXCEPT ![t] = NoRow]
  /\ target' = [target EXCEPT ![t] = NoRow]

Refuse(t) == End(t) /\ UNCHANGED tables

\* get_current_active_membership
ReadActor(t) ==
  /\ pc[t] = "read_actor"
  /\ IF Active(req[t].by, req[t].tenant)
       THEN /\ actor' = [actor EXCEPT ![t] = membership[req[t].by]]
            /\ pc' = [pc EXCEPT ![t] = IF req[t].op = "patch" THEN "read_target" ELSE req[t].op]
            /\ UNCHANGED <<tables, req, target>>
       ELSE Refuse(t)

-----------------------------------------------------------------------------
(* public_onboarding_orchestrator                                          *)

\* validate_email of TenantRegisterSerializer looks for the address first.
CallRegister(t) ==
  \E r \in Request :
    /\ r.op = "register" /\ r.by = r.user /\ r.role = "OWNER"
    /\ r.user \notin account
    /\ r.tenant \notin shop
    /\ Accept(t, r, "register")

\* Mutants of Onboard: the tenant is not saved; it is saved before the
\* transaction begins.
OnboardWithoutTenant(t) ==
  /\ pc[t] = "register"
  /\ req[t].user \notin account
  /\ \E tenant \in Tenant \ shop :
       membership' = [membership EXCEPT ![req[t].user] =
         [tenant |-> tenant, role |-> "OWNER", left |-> FALSE]]
  /\ account' = account \cup {req[t].user}
  /\ UNCHANGED shop
  /\ End(t)
OnboardTenantFirst(t) ==
  /\ pc[t] = "register"
  /\ \E tenant \in Tenant \ shop :
       /\ shop' = shop \cup {tenant}
       /\ IF req[t].user \notin account
            THEN /\ account' = account \cup {req[t].user}
                 /\ membership' = [membership EXCEPT ![req[t].user] =
                      [tenant |-> tenant, role |-> "OWNER", left |-> FALSE]]
            ELSE UNCHANGED <<account, membership>>
  /\ End(t)

\* One transaction: the user, the tenant and the membership of the owner.
Onboard(t) ==
  /\ pc[t] = "register"
  /\ req[t].user \notin account
  /\ \E tenant \in Tenant \ shop :
       /\ shop' = shop \cup {tenant}
       /\ account' = account \cup {req[t].user}
       /\ membership' = [membership EXCEPT ![req[t].user] =
            [tenant |-> tenant, role |-> "OWNER", left |-> FALSE]]
  /\ End(t)

\* The unique constraint on the e-mail raises: all is rolled back.
RejectOnboard(t) ==
  pc[t] = "register" /\ req[t].user \in account /\ Refuse(t)

-----------------------------------------------------------------------------
(* staff_provising_orchestrator                                            *)

CallProvision(t) ==
  \E r \in Request :
    /\ r.op = "provision" /\ r.role \in {"MANAGER", "CASHIER"}
    /\ HasRole(r.by, r.tenant, {"OWNER", "MANAGER"})
    /\ r.user \notin account
    /\ Accept(t, r, "read_actor")

\* Mutant of MayProvision: managers are not held to cashiers.
MayProvisionAny(t) == actor[t].role \in {"OWNER", "MANAGER"}

MayProvision(t) ==
  \/ actor[t].role = "OWNER"
  \/ actor[t].role = "MANAGER" /\ req[t].role = "CASHIER"

\* Mutant of CreateUser: a User table without the unique e-mail.
CreateUserUnchecked(t) ==
  /\ pc[t] = "provision"
  /\ MayProvision(t)
  /\ account' = account \cup {req[t].user}
  /\ Goto(t, "assign")
  /\ UNCHANGED <<shop, membership>>

CreateUser(t) ==
  /\ pc[t] = "provision"
  /\ MayProvision(t)
  /\ req[t].user \notin account
  /\ account' = account \cup {req[t].user}
  /\ Goto(t, "assign")
  /\ UNCHANGED <<shop, membership>>

RejectProvision(t) ==
  /\ pc[t] = "provision"
  /\ ~MayProvision(t) \/ req[t].user \in account
  /\ Refuse(t)

\* assign_user_to_tenant_service
AssignUser(t) ==
  /\ pc[t] = "assign"
  /\ membership' = [membership EXCEPT ![req[t].user] =
       [tenant |-> actor[t].tenant, role |-> req[t].role, left |-> FALSE]]
  /\ UNCHANGED <<account, shop>>
  /\ End(t)

-----------------------------------------------------------------------------
(* remove_member_from_tenant_service                                       *)

\* RemoveMemberView, whose permission is for owners only.
CallRemove(t) ==
  \E r \in Request :
    /\ r.op = "remove" /\ r.role = "CASHIER"
    /\ HasRole(r.by, r.tenant, {"OWNER"})
    /\ Active(r.user, r.tenant)
    /\ Accept(t, r, "read_actor")

\* The service called outside of HTTP, as its tests do: whatever the role of
\* the actor and whosever the membership, it is left to the service.
CallRemoveDirectly(t) ==
  \E r \in Request :
    /\ r.op = "remove" /\ r.role = "CASHIER"
    /\ Active(r.by, r.tenant)
    /\ membership[r.user] # NoRow
    /\ Accept(t, r, "read_actor")

\* Mutant of MayRemove: nobody is protected.
MayRemoveAnyone(t) == actor[t].role \in {"OWNER", "MANAGER"}

\* By the actor the view has read and the target as it is when locked.
MayRemove(t) ==
  /\ req[t].user # req[t].by
  /\ \/ actor[t].role = "OWNER" /\ membership[req[t].user].role # "OWNER"
     \/ actor[t].role = "MANAGER" /\ membership[req[t].user].role = "CASHIER"

\* The target is locked, checked and saved in one transaction.
RemoveMember(t) ==
  /\ pc[t] = "remove"
  /\ Active(req[t].user, actor[t].tenant)
  /\ MayRemove(t)
  /\ membership' = [membership EXCEPT ![req[t].user].left = TRUE]
  /\ UNCHANGED <<account, shop>>
  /\ End(t)

RejectRemove(t) ==
  /\ pc[t] = "remove"
  /\ ~Active(req[t].user, actor[t].tenant) \/ ~MayRemove(t)
  /\ Refuse(t)

-----------------------------------------------------------------------------
(* patch_staff_service.  StaffPatchAPIView.patch names its parameters in   *)
(* the wrong order and raises a TypeError for every request.  So the       *)
(* service is called outside of HTTP, with no permission checked before,   *)
(* by a caller that reads the two memberships as the view is written to.   *)

CallPatch(t) ==
  \E r \in Request :
    /\ r.op = "patch"
    /\ Active(r.by, r.tenant)
    /\ Accept(t, r, "read_actor")

ReadTarget(t) ==
  /\ pc[t] = "read_target"
  /\ IF Active(req[t].user, req[t].tenant)
       THEN /\ target' = [target EXCEPT ![t] = membership[req[t].user]]
            /\ pc' = [pc EXCEPT ![t] = "patch"]
            /\ UNCHANGED <<tables, req, actor>>
       ELSE Refuse(t)

\* Mutants of MayPatch: an owner may demote himself; a manager may
\* patch whoever is no owner.
MayPatchSelf(t) == actor[t].role = "OWNER" /\ target[t].role # req[t].role
MayPatchAsManager(t) ==
  /\ actor[t].role = "MANAGER" => target[t].role # "OWNER"
  /\ actor[t].role # "CASHIER"
  /\ req[t].user = req[t].by => req[t].role = "OWNER"
  /\ target[t].role # req[t].role

\* By the two objects the caller has read.
MayPatch(t) ==
  /\ actor[t].role = "OWNER"
  /\ req[t].user = req[t].by => req[t].role = "OWNER"
  /\ target[t].role # req[t].role

\* save(update_fields=["role"]): nothing but the role is written.
SaveRole(t) ==
  /\ pc[t] = "patch"
  /\ MayPatch(t)
  /\ membership' = [membership EXCEPT ![req[t].user].role = req[t].role]
  /\ UNCHANGED <<account, shop>>
  /\ End(t)

KeepRole(t) == pc[t] = "patch" /\ ~MayPatch(t) /\ Refuse(t)

-----------------------------------------------------------------------------

\* The worker dies or an insert fails; what was committed stays.
Fail(t) == pc[t] # "idle" /\ Refuse(t)

Serve(t) ==
  \/ CallRegister(t) \/ Onboard(t) \/ RejectOnboard(t)
  \/ CallProvision(t) \/ CreateUser(t) \/ RejectProvision(t) \/ AssignUser(t)
  \/ CallRemove(t) \/ CallRemoveDirectly(t) \/ RemoveMember(t) \/ RejectRemove(t)
  \/ ReadActor(t) \/ Fail(t)
ServePatch(t) == CallPatch(t) \/ ReadTarget(t) \/ SaveRole(t) \/ KeepRole(t)

Next == \E t \in Thread : Serve(t)
Spec == Init /\ [][Next]_vars

\* The same with patch_staff_service called as its view is written to.
PatchingSpec == Init /\ [][Next \/ \E t \in Thread : ServePatch(t)]_vars

-----------------------------------------------------------------------------

\* Type invariant, with the foreign keys: a membership has its user and its
\* tenant (tenants/models.py:14-36).
TypeOK ==
  /\ account \subseteq User
  /\ shop \subseteq Tenant
  /\ membership \in [User -> Membership \cup {NoRow}]
  /\ pc \in [Thread -> {"idle", "read_actor", "register", "provision", "assign",
                        "remove", "read_target", "patch"}]
  /\ req \in [Thread -> Request \cup {NoRequest}]
  /\ actor \in [Thread -> Membership \cup {NoRow}]
  /\ target \in [Thread -> Membership \cup {NoRow}]
  /\ \A u \in User : membership[u] # NoRow => u \in account /\ membership[u].tenant \in shop

\* A tenant is never without an active owner: not after a failed onboarding,
\* and not by removals, whose actors may have been read long before
\* (tenants/services.py:37-56, 218-242).
TenantKeepsOwner ==
  \A tenant \in shop : \E u \in User : HasRole(u, tenant, {"OWNER"})

\* A member is only removed by somebody who is above him in the same tenant
\* at that moment: owners, who are above all but owners, and for cashiers
\* also managers, of whom the service may have read a membership that has
\* been left since (tenants/services.py:194-242).
RemoversOutrank ==
  [][\A u \in User :
       membership[u] # NoRow /\ ~membership[u].left /\ membership'[u].left =>
         \E t \in Thread :
           /\ pc[t] = "remove" /\ req[t].user = u
           /\ \/ /\ membership[u].role # "OWNER"
                 /\ HasRole(req[t].by, membership[u].tenant, {"OWNER"})
              \/ /\ membership[u].role = "CASHIER"
                 /\ membership[req[t].by] # NoRow
                 /\ membership[req[t].by].role = "MANAGER"
                 /\ membership[req[t].by].tenant = membership[u].tenant]_vars

\* Who has left a tenant stays out: neither a provisioning of his address
\* that was let in before he had an account brings him back, nor a change
\* of role by an object that was read while he was a member
\* (tenants/services.py:83-91, 146-185, 244-246).
LeftForGood ==
  [][\A u \in User :
       membership[u] # NoRow /\ membership[u].left => membership'[u].left]_vars

\* A manager never comes into a tenant by the hand of a manager
\* (tenants/services.py:71-80).
OwnersMakeManagers ==
  [][\A u \in User :
       membership[u] = NoRow /\ membership'[u] # NoRow /\ membership'[u].role = "MANAGER" =>
         \E t \in Thread :
           /\ pc[t] = "assign" /\ req[t].user = u
           /\ HasRole(req[t].by, membership'[u].tenant, {"OWNER"})]_vars

\* A role is only changed by somebody who is at that moment an active owner
\* (tenants/services.py:152-160; tests/tenants/services/test_patch_service.py).
OnlyOwnersChangeRoles ==
  [][\A u \in User :
       membership[u] # NoRow /\ membership'[u].role # membership[u].role =>
         \E t \in Thread :
           /\ pc[t] = "patch" /\ req[t].user = u
           /\ HasRole(req[t].by, membership[u].tenant, {"OWNER"})]_vars

\* Staff are only added by somebody who is an active member at that moment:
\* business operations use an active TenantMembership as the trusted actor
\* context (README.md:41; tenants/services.py:71-91, 252-262).
OnlyMembersProvision ==
  [][\A u \in User :
       membership[u] = NoRow /\ membership'[u] # NoRow /\ membership'[u].role # "OWNER" =>
         \E t \in Thread :
           /\ pc[t] = "assign" /\ req[t].user = u
           /\ HasRole(req[t].by, membership'[u].tenant, {"OWNER", "MANAGER"})]_vars

\* A failed operation leaves nothing partial behind (README.md:111): who has
\* an account has a membership, or is about to get it.
AccountsAreStaff ==
  \A u \in account :
    membership[u] # NoRow \/ \E t \in Thread : pc[t] = "assign" /\ req[t].user = u
=============================================================================
