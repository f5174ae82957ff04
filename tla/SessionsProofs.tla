--------------------------- MODULE SessionsProofs ---------------------------
(***************************************************************************)
(* The guards and the sessions, for any number of requests and changes:    *)
(* cached contexts that are current stay so until the next change, and     *)
(* tabs that refresh the tokens together, whose answers are lost or        *)
(* refused, sign nobody out.                                               *)
(***************************************************************************)
EXTENDS Sessions, TLAPS

---------------------------------------------------------------------------
(* The guards.                                                             *)

ServingPc == {"idle", "lookup", "user", "fill", "tenant", "status", "keep"} \cup Answers

Readings == [pc : ServingPc, role : RoleNames \cup {NoEntry},
             status : TenantStatuses \cup {NoEntry}, fill : SUBSET {"user", "tenant"}]

\* A deletion that is still to come was owed by a change.
GuardInv == AuthTypeOK /\ \A k \in {"user", "tenant"} : clearing[k] <= edits

LEMMA GuardsBegin == AuthInit => GuardInv
<1>. SUFFICES ASSUME AuthInit PROVE GuardInv
  OBVIOUS
<1>1. /\ user \in [status : {"ACTIVE", "SUSPENDED", "DELETED"}, role : RoleNames]
      /\ tenant \in [status : TenantStatuses, deleted : BOOLEAN]
  <2>1. /\ user \in [status : {"ACTIVE"}, role : RoleNames]
        /\ tenant \in [status : Working, deleted : {FALSE}]
    BY DEF AuthInit
  <2>. QED BY <2>1 DEF TenantStatuses
<1>2. serving \in [Slots -> Readings]
  BY DEF AuthInit, Unserved, Readings, ServingPc
<1>3. edits \in 0..MaxEdits /\ clearing \in [{"user", "tenant"} -> 0..MaxEdits]
  BY AuthAssumption DEF AuthInit
<1>4. \A k \in {"user", "tenant"} : clearing[k] <= edits
  BY DEF AuthInit
<1>5. userEntry = NoEntry /\ tenantEntry = NoEntry
  BY DEF AuthInit
<1>. QED BY <1>1, <1>2, <1>3, <1>4, <1>5 DEF GuardInv, AuthTypeOK, Readings, ServingPc

\* What each guard leaves the request with.
LEMMA GuardsKeepReadings ==
  ASSUME AuthTypeOK, NEW t \in Slots, Arrive(t) \/ Serve(t)
  PROVE  serving' \in [Slots -> Readings]
<1>1. serving \in [Slots -> Readings] /\ Unserved \in Readings
  BY DEF AuthTypeOK, Readings, ServingPc, Unserved
<1>2. PICK rec : Goes(t, rec) /\ rec \in Readings
  <2>1. CASE Arrive(t)
    BY <2>1 DEF Arrive, Entrance, Unserved, Readings, ServingPc
  <2>2. CASE LookupUser(t)
    BY <2>2 DEF LookupUser, Unserved, Readings, ServingPc
  <2>3. CASE ReadUser(t)
    <3>1. PICK rec : Goes(t, rec) /\
            \/ rec = [pc |-> "fill", role |-> user.role, status |-> tenant.status,
                      fill |-> {"user", "tenant"}]
            \/ \E pc \in Answers : rec = [Unserved EXCEPT !.pc = pc]
      BY <2>3 DEF ReadUser, Unserved, Answers
    <3>2. user.role \in RoleNames /\ tenant.status \in TenantStatuses
      BY DEF AuthTypeOK
    <3>. QED BY <3>1, <3>2 DEF Unserved, Readings, ServingPc
  <2>4. ASSUME NEW k \in {"user", "tenant"}, Fill(t, k)
        PROVE  \E rec : Goes(t, rec) /\ rec \in Readings
    BY <1>1, <2>4 DEF Fill, Unserved, Readings, ServingPc
  <2>5. CASE LookupTenant(t)
    BY <2>5 DEF LookupTenant, Unserved, Readings, ServingPc, Answers
  <2>6. CASE ReadTenant(t)
    <3>1. PICK rec : Goes(t, rec) /\
            \/ rec = [pc |-> "keep", role |-> NoEntry, status |-> tenant.status, fill |-> {}]
            \/ rec = [Unserved EXCEPT !.pc = "403"]
      BY <2>6 DEF ReadTenant, Unserved
    <3>2. tenant.status \in TenantStatuses
      BY DEF AuthTypeOK
    <3>. QED BY <3>1, <3>2 DEF Unserved, Readings, ServingPc, Answers
  <2>7. CASE KeepTenant(t)
    BY <2>7 DEF KeepTenant, Unserved, Readings, ServingPc, Answers
  <2>. QED BY <2>1, <2>2, <2>3, <2>4, <2>5, <2>6, <2>7 DEF Serve
<1>. QED BY <1>1, <1>2 DEF Goes

\* The guards write the entries with what was read, and nothing else.
LEMMA GuardsKeepEntries ==
  ASSUME AuthTypeOK, NEW t \in Slots, Arrive(t) \/ Serve(t)
  PROVE  /\ userEntry' \in RoleNames \cup {NoEntry}
         /\ tenantEntry' \in TenantStatuses \cup {NoEntry}
         /\ UNCHANGED rows
BY DEF Arrive, Serve, LookupUser, ReadUser, Fill, LookupTenant, ReadTenant, KeepTenant,
       AuthTypeOK, entries, rows

\* A change is counted, and owes a deletion.
LEMMA AdministrationKeepsTypes == GuardInv /\ Administration => GuardInv'
<1>. SUFFICES ASSUME GuardInv, Administration PROVE GuardInv'
  OBVIOUS
<1>. USE AuthAssumption DEF GuardInv
<1>1. ASSUME NEW k \in {"user", "tenant"}, Edits(k),
             user' \in [status : {"ACTIVE", "SUSPENDED", "DELETED"}, role : RoleNames],
             tenant' \in [status : TenantStatuses, deleted : BOOLEAN]
      PROVE  GuardInv'
  <2>1. edits \in Nat /\ edits' = edits + 1 /\ edits' \in 0..MaxEdits
    BY <1>1 DEF Edits, AuthTypeOK
  <2>2. /\ clearing' = [clearing EXCEPT ![k] = clearing[k] + 1]
        /\ \A j \in {"user", "tenant"} : clearing[j] \in Nat /\ clearing[j] <= edits
    BY <1>1 DEF Edits, AuthTypeOK
  <2>3. /\ clearing' \in [{"user", "tenant"} -> 0..MaxEdits]
        /\ \A j \in {"user", "tenant"} : clearing'[j] <= edits'
    BY <2>1, <2>2 DEF AuthTypeOK
  <2>. QED BY <1>1, <2>1, <2>3 DEF Edits, entries, AuthTypeOK
<1>2. ASSUME NEW k \in {"user", "tenant"}, Clear(k)
      PROVE  GuardInv'
  <2>1. /\ clearing' = [clearing EXCEPT ![k] = clearing[k] - 1]
        /\ clearing[k] \in Nat /\ clearing[k] > 0 /\ edits' = edits
    BY <1>2 DEF Clear, AuthTypeOK
  <2>2. /\ clearing' \in [{"user", "tenant"} -> 0..MaxEdits]
        /\ \A j \in {"user", "tenant"} : clearing'[j] <= edits'
    BY <2>1 DEF AuthTypeOK
  <2>3. /\ userEntry' \in RoleNames \cup {NoEntry}
        /\ tenantEntry' \in TenantStatuses \cup {NoEntry}
        /\ UNCHANGED <<user, tenant, serving>>
    BY <1>2 DEF Clear, AuthTypeOK
  <2>. QED BY <2>1, <2>2, <2>3 DEF AuthTypeOK
<1>3. CASE \E status \in {"ACTIVE", "SUSPENDED"}, role \in RoleNames : UpdateUser(status, role)
  BY <1>1, <1>3 DEF UpdateUser, AuthTypeOK
<1>4. CASE DeleteUser
  <2>1. user' \in [status : {"ACTIVE", "SUSPENDED", "DELETED"}, role : RoleNames]
    BY <1>4 DEF DeleteUser, AuthTypeOK
  <2>. QED BY <1>1, <1>4, <2>1 DEF DeleteUser, AuthTypeOK
<1>5. CASE \E status \in TenantStatuses : UpdateTenant(status) \/ ReactivateTenant(status)
  <2>1. PICK status \in TenantStatuses : UpdateTenant(status) \/ ReactivateTenant(status)
    BY <1>5
  <2>2. tenant' \in [status : TenantStatuses, deleted : BOOLEAN]
    <3>1. CASE UpdateTenant(status)
      <4>1. tenant' = [tenant EXCEPT !.status = status]
        BY <3>1 DEF UpdateTenant
      <4>. QED BY <4>1 DEF AuthTypeOK
    <3>2. CASE ReactivateTenant(status)
      <4>1. tenant' = [status |-> status, deleted |-> FALSE]
        BY <3>2 DEF ReactivateTenant
      <4>. QED BY <4>1
    <3>. QED BY <2>1, <3>1, <3>2
  <2>3. Edits("tenant") /\ user' = user
    BY <2>1 DEF UpdateTenant, ReactivateTenant
  <2>. QED BY <1>1, <2>2, <2>3 DEF AuthTypeOK
<1>6. CASE DeleteTenant
  <2>1. tenant' \in [status : TenantStatuses, deleted : BOOLEAN]
    BY <1>6 DEF DeleteTenant, TenantStatuses
  <2>. QED BY <1>1, <1>6, <2>1 DEF DeleteTenant, AuthTypeOK
<1>. QED BY <1>2, <1>3, <1>4, <1>5, <1>6 DEF Administration

LEMMA GuardStep == GuardInv /\ [GuardNext]_authVars => GuardInv'
<1>. SUFFICES ASSUME GuardInv, [GuardNext]_authVars PROVE GuardInv'
  OBVIOUS
<1>1. CASE Administration
  BY <1>1, AdministrationKeepsTypes
<1>2. CASE ExpireUser \/ ExpireTenant
  BY <1>2 DEF ExpireUser, ExpireTenant, rows, GuardInv, AuthTypeOK
<1>3. ASSUME NEW t \in Slots, Arrive(t) \/ Serve(t)
      PROVE  GuardInv'
  <2>1. serving' \in [Slots -> Readings] /\ UNCHANGED rows
    BY <1>3, GuardsKeepReadings, GuardsKeepEntries DEF GuardInv
  <2>2. userEntry' \in RoleNames \cup {NoEntry} /\ tenantEntry' \in TenantStatuses \cup {NoEntry}
    BY <1>3, GuardsKeepEntries DEF GuardInv
  <2>. QED BY <2>1, <2>2 DEF GuardInv, AuthTypeOK, rows, Readings, ServingPc
<1>4. CASE UNCHANGED authVars
  BY <1>4 DEF authVars, rows, entries, GuardInv, AuthTypeOK
<1>. QED BY <1>1, <1>2, <1>3, <1>4 DEF GuardNext

LEMMA GuardAlways == GuardSpec => []GuardInv
BY GuardsBegin, GuardStep, PTL DEF GuardSpec

\* Type correctness of the guards and of what is cached (auth-context-cache.service.ts).
THEOREM AuthTypeAlways == GuardSpec => []AuthTypeOK
<1>1. GuardInv => AuthTypeOK
  BY DEF GuardInv
<1>. QED BY <1>1, GuardAlways, PTL

\* A guard that read the rows as they are puts in the entries what they say.
LEMMA GuardsKeepCurrent ==
  ASSUME AuthTypeOK, EntriesAreCurrent, ReadingsAreCurrent, NEW t \in Slots,
         Arrive(t) \/ Serve(t)
  PROVE  EntriesAreCurrent' /\ ReadingsAreCurrent'
<1>. USE DEF EntriesAreCurrent, ReadingsAreCurrent, WrittenAfterDeletion, LetsIn
<1>1. \A r \in Slots : serving[r] \in Readings
  BY DEF AuthTypeOK, Readings, ServingPc
<1>2. UNCHANGED <<user, tenant>>
  BY GuardsKeepEntries DEF rows
<1>3. ASSUME NEW rec, Goes(t, rec), UNCHANGED entries,
             rec.pc = "fill" /\ "user" \in rec.fill => user.status = "ACTIVE" /\ rec.role = user.role,
             (rec.pc = "fill" /\ "tenant" \in rec.fill) \/ rec.pc = "keep" =>
               rec.status = tenant.status
      PROVE  EntriesAreCurrent' /\ ReadingsAreCurrent'
  <2>1. EntriesAreCurrent'
    BY <1>2, <1>3 DEF entries
  <2>2. serving' = [serving EXCEPT ![t] = rec]
    BY <1>3 DEF Goes
  <2>3. \A r \in Slots : serving'[r] = IF r = t THEN rec ELSE serving[r]
    BY <2>2 DEF AuthTypeOK
  <2>4. ReadingsAreCurrent'
    BY <1>2, <1>3, <2>3
  <2>. QED BY <2>1, <2>4
<1>4. CASE Arrive(t)
  BY <1>3, <1>4 DEF Arrive, Entrance, Unserved
<1>5. CASE LookupUser(t)
  BY <1>3, <1>5 DEF LookupUser, Unserved
<1>6. CASE ReadUser(t)
  BY <1>3, <1>6 DEF ReadUser, Unserved
<1>7. CASE LookupTenant(t)
  BY <1>3, <1>7 DEF LookupTenant, Unserved
<1>8. CASE ReadTenant(t)
  BY <1>3, <1>8 DEF ReadTenant, Unserved
<1>9. ASSUME NEW k \in {"user", "tenant"}, Fill(t, k)
      PROVE  EntriesAreCurrent' /\ ReadingsAreCurrent'
  <2>1. EntriesAreCurrent'
    BY <1>2, <1>9 DEF Fill
  <2>2. PICK rec : /\ serving' = [serving EXCEPT ![t] = rec]
                   /\ \/ rec.pc = "tenant"
                      \/ /\ rec.pc = "fill" /\ rec.role = serving[t].role
                         /\ rec.status = serving[t].status /\ rec.fill \subseteq serving[t].fill
    <3>1. CASE serving[t].fill = {k}
      <4>1. serving' = [serving EXCEPT ![t] = [Unserved EXCEPT !.pc = "tenant"]]
        BY <1>9, <3>1 DEF Fill, Goes
      <4>2. [Unserved EXCEPT !.pc = "tenant"].pc = "tenant"
        BY DEF Unserved
      <4>. QED BY <4>1, <4>2
    <3>2. CASE serving[t].fill # {k}
      <4>1. PICK rec : /\ serving' = [serving EXCEPT ![t] = rec]
                       /\ rec = [serving[t] EXCEPT !.fill = @ \ {k}]
        BY <1>9, <3>2 DEF Fill, Goes
      <4>2. serving[t].pc = "fill" /\ serving[t] \in Readings
        BY <1>1, <1>9 DEF Fill
      <4>3. /\ rec.pc = "fill" /\ rec.role = serving[t].role
            /\ rec.status = serving[t].status /\ rec.fill = serving[t].fill \ {k}
        BY <4>1, <4>2 DEF Readings
      <4>. QED BY <4>1, <4>3
    <3>. QED BY <3>1, <3>2
  <2>3. \A r \in Slots : serving'[r] = IF r = t THEN rec ELSE serving[r]
    BY <2>2 DEF AuthTypeOK
  <2>4. ReadingsAreCurrent'
    BY <1>2, <1>9, <2>2, <2>3 DEF Fill
  <2>. QED BY <2>1, <2>4
<1>10. CASE KeepTenant(t)
  <2>1. EntriesAreCurrent'
    BY <1>2, <1>10 DEF KeepTenant
  <2>2. serving' = [serving EXCEPT ![t] = [Unserved EXCEPT !.pc = "ok"]]
    BY <1>10 DEF KeepTenant, Goes
  <2>3. \A r \in Slots : r # t => serving'[r] = serving[r]
    BY <2>2 DEF AuthTypeOK
  <2>4. serving'[t].pc = "ok"
    BY <2>2 DEF AuthTypeOK, Unserved
  <2>5. ReadingsAreCurrent'
    BY <1>2, <2>3, <2>4
  <2>. QED BY <2>1, <2>5
<1>. QED BY <1>4, <1>5, <1>6, <1>7, <1>8, <1>9, <1>10 DEF Serve

\* Whatever the number of requests and of changes, a change is the only thing that
\* makes a cached context, or what a guard has read for one, stale
\* (jwt-auth.guard.ts, tenant.guard.ts): deletions that fail, entries that expire and
\* guards that put back what they read do not.
THEOREM CurrentIsKept == GuardSpec => CurrentStaysCurrent
<1>. DEFINE Current == EntriesAreCurrent /\ ReadingsAreCurrent
            Kept == Current /\ UNCHANGED <<user, tenant>> => Current'
<1>1. GuardInv /\ [GuardNext]_authVars => [Kept]_authVars
  <2>. SUFFICES ASSUME GuardInv, [GuardNext]_authVars, Current, UNCHANGED <<user, tenant>>
                PROVE  Current'
    OBVIOUS
  <2>. USE DEF EntriesAreCurrent, ReadingsAreCurrent, WrittenAfterDeletion, LetsIn
  <2>1. CASE Administration
    <3>1. /\ serving' = serving
          /\ userEntry' \in {NoEntry, userEntry} /\ tenantEntry' \in {NoEntry, tenantEntry}
      BY <2>1 DEF Administration, UpdateUser, DeleteUser, UpdateTenant, ReactivateTenant,
                  DeleteTenant, Edits, Clear, entries
    <3>. QED BY <3>1
  <2>2. CASE ExpireUser \/ ExpireTenant
    BY <2>2 DEF ExpireUser, ExpireTenant
  <2>3. CASE UNCHANGED authVars
    BY <2>3 DEF authVars, entries
  <2>4. ASSUME NEW t \in Slots, Arrive(t) \/ Serve(t)
        PROVE  Current'
    BY <2>4, GuardsKeepCurrent DEF GuardInv
  <2>. QED BY <2>1, <2>2, <2>3, <2>4 DEF GuardNext
<1>. QED BY <1>1, GuardAlways, PTL DEF GuardSpec, CurrentStaysCurrent

---------------------------------------------------------------------------
(* The sessions.                                                           *)

CallPc == {"idle", "sent", "refresh", "rotate", "store", "denied"}

CallTypeOK == call \in [Slots -> [pc : CallPc, retry : BOOLEAN]]

\* A token is refused only if the row has no hash or the account is barred.  Both
\* are the doing of somebody, but for one case: nobody has logged in yet.
NotLoggedIn == ~browser /\ \A t \in Slots : call[t].pc = "idle"

SessionInv ==
  /\ CallTypeOK
  /\ user.status # "ACTIVE" => revoked
  /\ hash \/ revoked \/ NotLoggedIn
  /\ \A t \in Slots : call[t].pc = "denied" => revoked

LEMMA SessionsBegin == Init => SessionInv
BY DEF Init, AuthInit, SessionInit, SessionInv, CallTypeOK, CallPc, NoCall, NotLoggedIn

\* The guards and Redis do not touch the session, nor the account's row.
LEMMA GuardsLeaveSessions ==
  ASSUME NEW t \in Slots, Serve(t)
  PROVE  user' = user
BY DEF Serve, LookupUser, ReadUser, Fill, LookupTenant, ReadTenant, KeepTenant, rows

\* The administration writes the account, and the history with it.
LEMMA AdministrationKeeps ==
  ASSUME SessionInv, Administration, revoked' = (revoked \/ user'.status # "ACTIVE"),
         UNCHANGED <<hash, resetLink, browser, call>>
  PROVE  SessionInv'
<1>1. revoked => revoked'
  OBVIOUS
<1>. QED BY <1>1 DEF SessionInv, CallTypeOK, NotLoggedIn

\* Login, sign-out, and what revokes the session.
LEMMA SessionsKeep ==
  ASSUME SessionInv,
         \/ Login \/ SignOut
         \/ Logout \/ ChangePassword \/ ForgotPassword \/ LinkExpires \/ ResetPassword
  PROVE  SessionInv'
BY DEF SessionInv, CallTypeOK, NotLoggedIn, Login, SignOut, Logout, ChangePassword,
       ForgotPassword, LinkExpires, ResetPassword, Revokes, authVars, rows

\* What the steps of a call do to it.
LEMMA CallMoves ==
  ASSUME CallTypeOK, NEW t \in Slots, NEW pc \in CallPc,
         call' \in {[call EXCEPT ![t].pc = pc], [call EXCEPT ![t] = NoCall]}
  PROVE  /\ CallTypeOK'
         /\ pc # "denied" => \A r \in Slots : call'[r].pc = "denied" => call[r].pc = "denied"
<1>1. CASE call' = [call EXCEPT ![t].pc = pc]
  <2>1. PICK c : c = [call[t] EXCEPT !.pc = pc]
    OBVIOUS
  <2>2. c \in [pc : CallPc, retry : BOOLEAN] /\ c.pc = pc
    BY <2>1 DEF CallTypeOK
  <2>3. call' = [call EXCEPT ![t] = c]
    BY <1>1, <2>1
  <2>. QED BY <2>2, <2>3 DEF CallTypeOK
<1>2. CASE call' = [call EXCEPT ![t] = NoCall]
  BY <1>2 DEF NoCall, CallTypeOK, CallPc
<1>. QED BY <1>1, <1>2

\* Each step of a call.
LEMMA CallsKeep ==
  ASSUME SessionInv, NEW t \in Slots, Send(t) \/ Proceeds(t)
  PROVE  SessionInv'
<1>. USE DEF SessionInv
<1>1. CASE Send(t)
  BY <1>1 DEF Send, CallTypeOK, CallPc, NotLoggedIn, rows
<1>2. CASE Serve(t) /\ UNCHANGED sessionVars
  BY <1>2, GuardsLeaveSessions DEF CallTypeOK, NotLoggedIn, sessionVars
<1>3. CASE Answered(t)
  BY <1>3 DEF Answered, CallTypeOK, CallPc, NotLoggedIn, NoCall, rows
<1>4. CASE RefreshRead(t)
  <2>1. hash \/ revoked
    BY <1>4 DEF RefreshRead, NotLoggedIn
  <2>2. user' = user /\ hash' = hash /\ revoked' = revoked
    BY <1>4 DEF RefreshRead, authVars, rows
  <2>3. PICK pc \in {"rotate", "denied"} :
          /\ call' \in {[call EXCEPT ![t].pc = pc], [call EXCEPT ![t] = NoCall]}
          /\ pc = "denied" => revoked
    BY <1>4, <2>1 DEF RefreshRead
  <2>4. CallTypeOK' /\ \A r \in Slots : call'[r].pc = "denied" => revoked
    BY <2>3, CallMoves DEF CallPc
  <2>. QED BY <2>1, <2>2, <2>4
<1>5. CASE Rotate(t)
  <2>1. CallTypeOK' /\ \A r \in Slots : call'[r].pc = "denied" => call[r].pc = "denied"
    BY <1>5, CallMoves DEF Rotate, CallPc
  <2>2. user' = user /\ hash' /\ revoked' = revoked
    BY <1>5 DEF Rotate, authVars, rows
  <2>. QED BY <2>1, <2>2
<1>6. CASE Store(t)
  <2>1. hash \/ revoked
    BY <1>6 DEF Store, NotLoggedIn
  <2>2. CallTypeOK' /\ \A r \in Slots : call'[r].pc = "denied" => call[r].pc = "denied"
    BY <1>6, CallMoves DEF Store, CallPc
  <2>3. user' = user /\ hash' = hash /\ revoked' = revoked
    BY <1>6 DEF Store, rows
  <2>. QED BY <2>1, <2>2, <2>3
<1>7. CASE Denied(t)
  BY <1>7 DEF Denied, CallTypeOK, CallPc, NotLoggedIn, NoCall, authVars, rows
<1>. QED BY <1>1, <1>2, <1>3, <1>4, <1>5, <1>6, <1>7 DEF Proceeds

LEMMA SessionStep == SessionInv /\ [Next]_vars => SessionInv'
<1>. SUFFICES ASSUME SessionInv, [Next]_vars PROVE SessionInv'
  OBVIOUS
<1>1. CASE (ExpireUser \/ ExpireTenant) /\ UNCHANGED sessionVars
  BY <1>1 DEF ExpireUser, ExpireTenant, sessionVars, rows, SessionInv, CallTypeOK, NotLoggedIn
<1>2. CASE UNCHANGED vars
  BY <1>2 DEF vars, authVars, rows, sessionVars, SessionInv, CallTypeOK, NotLoggedIn
<1>. QED BY <1>1, <1>2, AdministrationKeeps, SessionsKeep, CallsKeep DEF Next

LEMMA SessionAlways == Spec => []SessionInv
BY SessionsBegin, SessionStep, PTL DEF Spec

\* Only a denial makes a call take the tokens away.
LEMMA DenialEndsSession ==
  ASSUME SessionInv, [Next]_vars, browser, ~browser', call' # call
  PROVE  revoked
<1>1. ASSUME NEW t \in Slots, Send(t) \/ Proceeds(t)
      PROVE  revoked
  <2>1. Denied(t)
    BY <1>1 DEF Send, Proceeds, Answered, RefreshRead, Rotate, Store, sessionVars
  <2>. QED BY <2>1 DEF Denied, SessionInv
<1>. QED
  BY <1>1 DEF Next, Login, SignOut, Logout, ChangePassword, ForgotPassword, LinkExpires,
              ResetPassword, Revokes, sessionVars, vars

\* Whoever loses his session without leaving lost it because it was revoked or his
\* account barred (auth.service.ts, api-client.ts): no race of refreshes, none of
\* which checks that its token is the last, ends it.
THEOREM RefreshSignsNobodyOut == Spec => SessionSurvives
<1>1. SessionInv /\ [Next]_vars => [browser /\ ~browser' /\ call' # call => revoked]_vars
  BY DenialEndsSession
<1>2. SessionInv /\ SessionInv' /\ [Next]_vars =>
        [browser /\ ~browser' /\ call' # call => revoked]_vars
  BY <1>1
<1>. QED BY <1>2, SessionAlways, PTL DEF Spec, SessionSurvives

===========================================================================
