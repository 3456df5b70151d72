---------------------------- MODULE TenantContext -----------------------------
(***************************************************************************)
(* The tenant of a request: the header that core/middleware.py keeps in a  *)
(* thread-local, the managers and permissions that read it back, the       *)
(* membership the view fetches with it, and the rows the request gets to   *)
(* see, while module Staff changes the memberships underneath.             *)
(*                                                                         *)
(* The requests here are the readings of a tenant's rows; each permission, *)
(* the actor and the rows are a statement of their own.  The user is known *)
(* by a token, which outlives a membership; the tenant its claims name is  *)
(* what the client sends back as the header X-Tenant-Id, or it sends       *)
(* another.  Nothing on the server reads the role in the claims.           *)
(***************************************************************************)
EXTENDS Staff

CONSTANTS
  Worker,      \* the threads that serve readings, apart from Thread
  Garbage,     \* a header that is no number
  NoTenant,    \* no header; no tenant in a thread or in a token
  View         \* the views that are asked

Views == {"products", "count", "orders", "members"}
Header == Tenant \cup {Garbage, NoTenant}

ASSUME ViewAssumption == View \subseteq Views
ASSUME HeaderAssumption ==
  Garbage \notin Tenant /\ NoTenant \notin Tenant \cup {Garbage} /\ NoRow \notin Tenant

VARIABLES
  local,     \* _thread_local.tenant_id of each worker
  claims,    \* the tenant that the last token of each user names, NoRow without one
  visit      \* the reading each worker serves

contextVars == <<local, claims, visit>>
staffVars == vars
allVars == <<vars, local, claims, visit>>

\* Whose request it is, with its header, its view, the actor it has read and
\* the tenants whose rows it was given; and, as history, whether the user has
\* been entitled to them at some moment before the last step of Staff.
NoVisit ==
  [at |-> "idle", user |-> NoRow, header |-> NoTenant, view |-> "products",
   actor |-> NoRow, rows |-> {}, entitled |-> FALSE]

ContextInit ==
  /\ Init
  /\ local = [w \in Worker |-> NoTenant]
  /\ claims = [u \in User |-> NoRow]
  /\ visit = [w \in Worker |-> NoVisit]

-----------------------------------------------------------------------------
(* Tokens.                                                                 *)

\* get_user_tenant_claim_service: the user's membership, left or not.
ClaimOf(u) ==
  IF membership[u] = NoRow THEN {NoTenant} ELSE {membership[u].tenant}

\* Login and refresh: both sign the claims of the moment.
IssueToken(u) ==
  /\ u \in account
  /\ \E tenant \in ClaimOf(u) : claims' = [claims EXCEPT ![u] = tenant]
  /\ UNCHANGED <<staffVars, local, visit>>

-----------------------------------------------------------------------------
(* The middleware.                                                         *)

\* Mutant of Parsed: what is no number is kept as it came.
ParsedRaw(header) == header

\* set_current_tenant: what is no number is no tenant.
Parsed(header) == IF header \in Tenant THEN header ELSE NoTenant

\* Mutant of SetTenant: a variable of the module in place of the thread-local.
SetTenantOfAll(w, header) == local' = [v \in Worker |-> Parsed(header)]

SetTenant(w, header) == local' = [local EXCEPT ![w] = Parsed(header)]

\* Mutant of ClearTenant: the tenant stays with the thread.
ClearTenantNever(w) == UNCHANGED local

\* clear_thread_local, in the finally of the middleware
ClearTenant(w) == local' = [local EXCEPT ![w] = NoTenant]

\* IsAuthenticated lets in who has a token, whatever has become of him.
Enter(w) ==
  /\ visit[w].at = "idle"
  /\ \E u \in User, header \in Header, view \in View :
       /\ claims[u] # NoRow
       /\ SetTenant(w, header)
       /\ visit' = [visit EXCEPT ![w] =
            [NoVisit EXCEPT !.at = IF view = "members" THEN "role" ELSE "tenant",
               !.user = u, !.header = header, !.view = view]]
  /\ UNCHANGED <<staffVars, claims>>

\* The response leaves through the middleware, as does every exception.
Leave(w) ==
  /\ visit[w].at # "idle"
  /\ ClearTenant(w)
  /\ visit' = [visit EXCEPT ![w] = NoVisit]
  /\ UNCHANGED <<staffVars, claims>>

-----------------------------------------------------------------------------
(* The views.                                                              *)

NeedsRole(view) == view \in {"orders", "members"}

Proceed(w, next) ==
  /\ visit' = [visit EXCEPT ![w].at = next]
  /\ UNCHANGED <<staffVars, local, claims>>

\* Mutant of IsMember: a membership that was left is one.
IsMemberOnce(u, tenant) == membership[u] # NoRow /\ membership[u].tenant = tenant

\* objects_global.filter(user=..., tenant_id=..., left_at=None).exists()
IsMember(u, tenant) == Active(u, tenant)

\* IsAuthenticatedAndHasTenant
CheckTenant(w) ==
  /\ visit[w].at = "tenant"
  /\ local[w] # NoTenant
  /\ IsMember(visit[w].user, local[w])
  /\ Proceed(w, IF NeedsRole(visit[w].view) THEN "role"
                ELSE IF visit[w].view = "products" THEN "rows" ELSE "actor")

\* IsTenantManagerOrOwner
CheckRole(w) ==
  /\ visit[w].at = "role"
  /\ local[w] # NoTenant
  /\ HasRole(visit[w].user, local[w], {"OWNER", "MANAGER"})
  /\ Proceed(w, "actor")

\* get_current_active_membership
FetchActor(w) ==
  /\ visit[w].at = "actor"
  /\ local[w] # NoTenant
  /\ Active(visit[w].user, local[w])
  /\ visit' = [visit EXCEPT ![w].at = "rows", ![w].actor = membership[visit[w].user]]
  /\ UNCHANGED <<staffVars, local, claims>>

\* The services of the order list and the member list look at the role of
\* the actor again.
MayRead(w) ==
  NeedsRole(visit[w].view) => visit[w].actor.role \in {"OWNER", "MANAGER"}

\* StrictTenantManager, ProductTenantManager: the rows of the thread's
\* tenant, of none without one.
Scoped(w) == {local[w]} \ {NoTenant}

\* What a queryset returns: the catalogue goes by the manager alone, the
\* services filter by the tenant of the actor as well.
ReadRows(w) ==
  /\ visit[w].at = "rows"
  /\ MayRead(w)
  /\ visit' = [visit EXCEPT ![w].at = "response",
       ![w].rows = IF visit[w].view = "products" THEN Scoped(w)
                   ELSE Scoped(w) \cap {visit[w].actor.tenant}]
  /\ UNCHANGED <<staffVars, local, claims>>

-----------------------------------------------------------------------------

\* At this moment the user of a request is an active member of the tenant
\* its own header names, in a role that may see what it asks for.
Entitled(w) ==
  /\ Parsed(visit[w].header) # NoTenant
  /\ HasRole(visit[w].user, Parsed(visit[w].header),
             IF NeedsRole(visit[w].view) THEN {"OWNER", "MANAGER"} ELSE Role)

\* A step of Staff, whose service of the role change is also called.
StaffStep(t) ==
  /\ Serve(t) \/ ServePatch(t)
  /\ visit' = [w \in Worker |->
       IF visit[w].at = "idle" THEN visit[w]
       ELSE [visit[w] EXCEPT !.entitled = @ \/ Entitled(w)]]
  /\ UNCHANGED <<local, claims>>

Read(w) == Enter(w) \/ CheckTenant(w) \/ CheckRole(w) \/ FetchActor(w) \/ ReadRows(w) \/ Leave(w)

ContextNext ==
  \/ \E t \in Thread : StaffStep(t)
  \/ \E u \in User : IssueToken(u)
  \/ \E w \in Worker : Read(w)

ContextSpec == ContextInit /\ [][ContextNext]_allVars

-----------------------------------------------------------------------------

\* Type invariant (core/thread_local.py:6-22).
ContextTypeOK ==
  /\ local \in [Worker -> Tenant \cup {NoTenant}]
  /\ claims \in [User -> Tenant \cup {NoTenant, NoRow}]
  /\ visit \in [Worker ->
       [at : {"idle", "tenant", "role", "actor", "rows", "response"},
        user : User \cup {NoRow}, header : Header, view : Views,
        actor : Membership \cup {NoRow}, rows : SUBSET Tenant,
        entitled : BOOLEAN]]

\* A thread has the tenant of the request it serves, none when it serves
\* none, and never that of another thread or of an earlier request
\* (core/middleware.py:8-17; core/thread_local.py:3-22).
ContextIsOwn ==
  \A w \in Worker : local[w] = Parsed(visit[w].header)

\* A request only gets rows of the tenant its own header names, and only if
\* its user was an active member of it, in a role that may see them, at some
\* moment since it came in: not by a token that outlived the membership, nor
\* by the thread of another (README.md:41-47; tenants/permissions.py:10-54;
\* tenants/services.py:119-143).
MembersOnly ==
  \A w \in Worker :
    visit[w].rows # {} =>
      /\ visit[w].rows = {Parsed(visit[w].header)}
      /\ visit[w].entitled \/ Entitled(w)

\* The claims of a token name the active tenant of its user, "AMBIL DATA
\* TENANT AKTIF MILIK USER", when it is signed (tenants/services.py:96-116).
ClaimsNameActiveTenant ==
  [][\A u \in User :
       claims'[u] # claims[u] /\ claims'[u] \in Tenant => Active(u, claims'[u])]_allVars
===============================================================================
