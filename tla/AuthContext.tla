---------------------------- MODULE AuthContext ----------------------------
(***************************************************************************)
(* Who may use the API: the guards every request passes, and the Redis     *)
(* entries that spare them the database (jwt-auth.guard.ts,                *)
(* tenant.guard.ts, auth-context-cache.service.ts).  One account of one    *)
(* tenant; a platform administrator would skip the tenant's guard.         *)
(*                                                                         *)
(* An entry is deleted after an account or a tenant is written, and        *)
(* expires by itself.  Redis may fail at any time, for any call: a read is *)
(* then a miss, a set or a deletion is lost.  A process whose client has   *)
(* ended does without for good.                                            *)
(***************************************************************************)
EXTENDS Naturals

CONSTANTS
  Slots,      \* requests that may be served together
  Redis,      \* those served by a process that may reach Redis
  MaxEdits,   \* bound on the changes to the account and the tenant
  RoleNames,  \* roles the account may have
  Working,    \* statuses of a tenant that is let in: TRIAL and ACTIVE
  NoEntry     \* nothing is cached

TenantStatuses == Working \cup {"SUSPENDED"}

ASSUME AuthAssumption ==
  Redis \subseteq Slots /\ MaxEdits \in Nat /\ NoEntry \notin RoleNames \cup TenantStatuses

VARIABLES
  user,         \* the account's row: its status, or deletedAt, and its role
  tenant,       \* the tenant's row: its status, and deletedAt
  userEntry,    \* auth:user: the role the context was cached with
  tenantEntry,  \* auth:tenant: the status that was cached
  clearing,     \* clearing[k]: deletions of entry k that are still to come
  edits,        \* changes so far
  serving       \* serving[t]: the guard request t has reached, what it has read

rows == <<user, tenant, clearing, edits>>
entries == <<userEntry, tenantEntry>>
authVars == <<rows, entries, serving>>

Answers == {"ok", "401", "403"}

Unserved == [pc |-> "idle", role |-> NoEntry, status |-> NoEntry, fill |-> {}]

AuthTypeOK ==
  /\ user \in [status : {"ACTIVE", "SUSPENDED", "DELETED"}, role : RoleNames]
  /\ tenant \in [status : TenantStatuses, deleted : BOOLEAN]
  /\ userEntry \in RoleNames \cup {NoEntry}
  /\ tenantEntry \in TenantStatuses \cup {NoEntry}
  /\ clearing \in [{"user", "tenant"} -> 0..MaxEdits]
  /\ edits \in 0..MaxEdits
  /\ serving \in [Slots ->
       [pc : {"idle", "lookup", "user", "fill", "tenant", "status", "keep"} \cup Answers,
        role : RoleNames \cup {NoEntry}, status : TenantStatuses \cup {NoEntry},
        fill : SUBSET {"user", "tenant"}]]

AuthInit ==
  /\ user \in [status : {"ACTIVE"}, role : RoleNames]
  /\ tenant \in [status : Working, deleted : {FALSE}]
  /\ userEntry = NoEntry
  /\ tenantEntry = NoEntry
  /\ clearing = [k \in {"user", "tenant"} |-> 0]
  /\ edits = 0
  /\ serving = [t \in Slots |-> Unserved]

---------------------------------------------------------------------------
(* The administration: write the row, log it, delete the entry.            *)

Edits(k) ==
  /\ edits < MaxEdits
  /\ edits' = edits + 1
  /\ clearing' = [clearing EXCEPT ![k] = @ + 1]
  /\ UNCHANGED <<entries, serving>>

\* users.service and employees.service: status (INACTIVE counts as SUSPENDED)
\* and role.
UpdateUser(status, role) ==
  /\ user.status # "DELETED"
  /\ user' = [status |-> status, role |-> role]
  /\ tenant' = tenant
  /\ Edits("user")

DeleteUser ==
  /\ user.status # "DELETED"
  /\ user' = [user EXCEPT !.status = "DELETED"]
  /\ tenant' = tenant
  /\ Edits("user")

\* tenants.service: a tenant that was deleted can still be written, and is
\* brought back by its reactivation only.
UpdateTenant(status) ==
  /\ tenant' = [tenant EXCEPT !.status = status]
  /\ user' = user
  /\ Edits("tenant")

ReactivateTenant(status) ==
  /\ status \in Working
  /\ tenant' = [status |-> status, deleted |-> FALSE]
  /\ user' = user
  /\ Edits("tenant")

DeleteTenant ==
  /\ tenant' = [status |-> "SUSPENDED", deleted |-> TRUE]
  /\ user' = user
  /\ Edits("tenant")

\* Best effort: a failed deletion leaves the entry.
Clear(k) ==
  /\ clearing[k] > 0
  /\ clearing' = [clearing EXCEPT ![k] = @ - 1]
  /\ userEntry' \in IF k = "user" THEN {NoEntry, userEntry} ELSE {userEntry}
  /\ tenantEntry' \in IF k = "tenant" THEN {NoEntry, tenantEntry} ELSE {tenantEntry}
  /\ UNCHANGED <<user, tenant, edits, serving>>

Administration ==
  \/ \E status \in {"ACTIVE", "SUSPENDED"}, role \in RoleNames : UpdateUser(status, role)
  \/ DeleteUser
  \/ \E status \in TenantStatuses : UpdateTenant(status) \/ ReactivateTenant(status)
  \/ DeleteTenant
  \/ \E k \in {"user", "tenant"} : Clear(k)

ExpireUser ==
  userEntry # NoEntry /\ userEntry' = NoEntry /\ UNCHANGED <<rows, tenantEntry, serving>>

ExpireTenant ==
  tenantEntry # NoEntry /\ tenantEntry' = NoEntry /\ UNCHANGED <<rows, userEntry, serving>>

---------------------------------------------------------------------------
(* The guards.                                                             *)

\* Where the guards begin, with a token that is verified.
Entrance(t) == IF t \in Redis THEN "lookup" ELSE "user"

Goes(t, rec) == serving' = [serving EXCEPT ![t] = rec]

\* Mutant: an entry that is used is kept for another term.
LookupAndKeepUser(t) ==
  /\ serving[t].pc = "lookup"
  /\ \/ userEntry # NoEntry
        /\ Goes(t, [Unserved EXCEPT !.pc = "fill", !.role = userEntry, !.fill = {"user"}])
     \/ Goes(t, [Unserved EXCEPT !.pc = "user"])
  /\ UNCHANGED <<rows, entries>>

LookupUser(t) ==
  /\ serving[t].pc = "lookup"
  /\ \/ userEntry # NoEntry /\ Goes(t, [Unserved EXCEPT !.pc = "tenant"])
     \/ Goes(t, [Unserved EXCEPT !.pc = "user"])
  /\ UNCHANGED <<rows, entries>>

LetsIn == tenant.status \in Working /\ ~tenant.deleted

\* Mutant: whatever the account's status, its context is read and cached.
ReadAnyUser(t) ==
  /\ serving[t].pc = "user"
  /\ Goes(t, IF user.status # "DELETED"
             THEN IF t \in Redis
                  THEN [Unserved EXCEPT !.pc = "fill", !.role = user.role,
                                        !.status = tenant.status, !.fill = {"user", "tenant"}]
                  ELSE [Unserved EXCEPT !.pc = IF LetsIn THEN "ok" ELSE "403"]
             ELSE [Unserved EXCEPT !.pc = "401"])
  /\ UNCHANGED <<rows, entries>>

\* The tenant's status is read along, whether or not the tenant is deleted.
\* Without Redis, the tenant's guard reads the tables too, and that is all.
ReadUser(t) ==
  /\ serving[t].pc = "user"
  /\ Goes(t, IF user.status = "ACTIVE"
             THEN IF t \in Redis
                  THEN [Unserved EXCEPT !.pc = "fill", !.role = user.role,
                                        !.status = tenant.status, !.fill = {"user", "tenant"}]
                  ELSE [Unserved EXCEPT !.pc = IF LetsIn THEN "ok" ELSE "403"]
             ELSE [Unserved EXCEPT !.pc = "401"])
  /\ UNCHANGED <<rows, entries>>

\* Both entries are set at once, in any order; either may fail.
Fill(t, k) ==
  /\ serving[t].pc = "fill"
  /\ k \in serving[t].fill
  /\ userEntry' \in IF k = "user" THEN {serving[t].role, userEntry} ELSE {userEntry}
  /\ tenantEntry' \in IF k = "tenant" THEN {serving[t].status, tenantEntry} ELSE {tenantEntry}
  /\ Goes(t, IF serving[t].fill = {k} THEN [Unserved EXCEPT !.pc = "tenant"]
             ELSE [serving[t] EXCEPT !.fill = @ \ {k}])
  /\ UNCHANGED rows

LookupTenant(t) ==
  /\ serving[t].pc = "tenant"
  /\ \/ /\ tenantEntry # NoEntry
        /\ Goes(t, [Unserved EXCEPT !.pc = IF tenantEntry \in Working THEN "ok" ELSE "403"])
     \/ Goes(t, [Unserved EXCEPT !.pc = "status"])
  /\ UNCHANGED <<rows, entries>>

ReadTenant(t) ==
  /\ serving[t].pc = "status"
  /\ Goes(t, IF LetsIn
             THEN [Unserved EXCEPT !.pc = "keep", !.status = tenant.status]
             ELSE [Unserved EXCEPT !.pc = "403"])
  /\ UNCHANGED <<rows, entries>>

KeepTenant(t) ==
  /\ serving[t].pc = "keep"
  /\ tenantEntry' \in {serving[t].status, tenantEntry}
  /\ Goes(t, [Unserved EXCEPT !.pc = "ok"])
  /\ UNCHANGED <<rows, userEntry>>

\* The roles' guard comes last; for those who call, it refuses like the others.
Serve(t) ==
  \/ LookupUser(t)
  \/ ReadUser(t)
  \/ \E k \in {"user", "tenant"} : Fill(t, k)
  \/ LookupTenant(t)
  \/ ReadTenant(t)
  \/ KeepTenant(t)

---------------------------------------------------------------------------

(* The guards by themselves: requests with good tokens arrive at any time. *)

Arrive(t) ==
  /\ serving[t].pc \in Answers \cup {"idle"}
  /\ Goes(t, [Unserved EXCEPT !.pc = Entrance(t)])
  /\ UNCHANGED <<rows, entries>>

GuardNext ==
  \/ Administration \/ ExpireUser \/ ExpireTenant
  \/ \E t \in Slots : Arrive(t) \/ Serve(t)

\* What has arrived is served, and entries have a term (EX, at least five
\* seconds).  Nobody is obliged to send a request or to make a change.
GuardSpec ==
  /\ AuthInit
  /\ [][GuardNext]_authVars
  /\ \A t \in Slots : WF_authVars(Serve(t))
  /\ WF_authVars(ExpireUser)
  /\ WF_authVars(ExpireTenant)

---------------------------------------------------------------------------

\* A deleted tenant that PUT /tenants/:id gave a working status again: the tables
\* keep it out and a cached status lets it in, for as long as it is deleted
\* (jwt-auth.guard.ts caches the status without deletedAt).
WrittenAfterDeletion == tenant.deleted /\ tenant.status \in Working

\* With the entries the guards answer what they would with the tables, such a
\* tenant excepted.
EntriesAreCurrent ==
  /\ userEntry # NoEntry => user.status = "ACTIVE" /\ userEntry = user.role
  /\ tenantEntry # NoEntry /\ ~WrittenAfterDeletion => (tenantEntry \in Working <=> LetsIn)

\* A suspended or restored account or tenant, or another role, takes effect: after
\* the last change the cached contexts agree with the tables for ever, although
\* deletions may fail, and a guard may put back what it read before the last
\* change or before several (README.md:119 has suspended tenants refused).
EventuallyCurrent == <>[]EntriesAreCurrent

\* What requests have read, and have still to put in the entries, is current.
ReadingsAreCurrent ==
  \A t \in Slots :
    /\ serving[t].pc = "fill" /\ "user" \in serving[t].fill =>
         user.status = "ACTIVE" /\ serving[t].role = user.role
    /\ (serving[t].pc = "fill" /\ "tenant" \in serving[t].fill) \/ serving[t].pc = "keep" =>
         serving[t].status = tenant.status

\* What EventuallyCurrent rests on: once the entries, and what is on its way into
\* them, are current, only another change makes them stale; no guard reads for the
\* entries the context of an account the tables refuse.
CurrentStaysCurrent ==
  [][EntriesAreCurrent /\ ReadingsAreCurrent /\ UNCHANGED <<user, tenant>> =>
       EntriesAreCurrent' /\ ReadingsAreCurrent']_authVars

===========================================================================
