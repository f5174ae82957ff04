------------------------------ MODULE Sessions ------------------------------
(***************************************************************************)
(* Sessions: login, the rotation of refresh tokens, and what revokes them  *)
(* (auth.service.ts), with the browser that keeps the tokens for all of    *)
(* its tabs (api-client.ts).  A call that is answered 401 refreshes the    *)
(* tokens and is sent again, once; several calls may do so together.       *)
(*                                                                         *)
(* A refresh token is good as long as the account's row has a hash: bcrypt *)
(* reads 72 characters, which all tokens of one account share, so that the *)
(* ones that were replaced still match.  Its seven days are longer than a  *)
(* behaviour; whether an access token has expired when it arrives is left  *)
(* open.  The network may lose the answer of a refresh.                    *)
(***************************************************************************)
EXTENDS AuthContext

VARIABLES
  hash,      \* whether there is a refreshTokenHash
  resetLink, \* passwordResetToken: whether a link is out, and not expired
  browser,   \* whether the browser has tokens, for all of its tabs
  call,      \* call[t]: how far a call of tab t is
  revoked    \* history: the session was ended by somebody, the account barred

sessionVars == <<hash, resetLink, browser, call, revoked>>
vars == <<authVars, sessionVars>>

NoCall == [pc |-> "idle", retry |-> FALSE]

SessionTypeOK ==
  /\ AuthTypeOK
  /\ hash \in BOOLEAN
  /\ resetLink \in BOOLEAN
  /\ browser \in BOOLEAN
  /\ call \in [Slots -> [pc : {"idle", "sent", "refresh", "rotate", "store", "denied"},
                         retry : BOOLEAN]]
  /\ revoked \in BOOLEAN

SessionInit ==
  /\ hash = FALSE
  /\ resetLink = FALSE
  /\ browser = FALSE
  /\ call = [t \in Slots |-> NoCall]
  /\ revoked = FALSE

---------------------------------------------------------------------------
(* Those who make and end sessions.                                        *)

\* The tenant is not looked at.
Login ==
  /\ ~browser
  /\ user.status = "ACTIVE"
  /\ hash' = TRUE
  /\ browser' = TRUE
  /\ UNCHANGED <<authVars, resetLink, call, revoked>>

\* The front end forgets its tokens without telling the server.
SignOut ==
  /\ browser
  /\ browser' = FALSE
  /\ UNCHANGED <<authVars, hash, resetLink, call, revoked>>

Revokes ==
  /\ hash' = FALSE
  /\ revoked' = TRUE
  /\ UNCHANGED <<authVars, browser, call>>

\* From any client of the account.
Logout == hash /\ resetLink' = resetLink /\ Revokes

ChangePassword == user.status = "ACTIVE" /\ hash /\ resetLink' = FALSE /\ Revokes

ForgotPassword ==
  /\ user.status = "ACTIVE"
  /\ resetLink' = TRUE
  /\ UNCHANGED <<authVars, hash, browser, call, revoked>>

LinkExpires ==
  /\ resetLink
  /\ resetLink' = FALSE
  /\ UNCHANGED <<authVars, hash, browser, call, revoked>>

ResetPassword == user.status = "ACTIVE" /\ resetLink /\ resetLink' = FALSE /\ Revokes

---------------------------------------------------------------------------
(* A call of tab t.                                                        *)

\* The guard verifies the token before anything else.
Sent(t) ==
  \E pc \in {Entrance(t), "401"} :
    serving' = [serving EXCEPT ![t] = [Unserved EXCEPT !.pc = pc]]

Send(t) ==
  /\ call[t].pc = "idle"
  /\ browser
  /\ call' = [call EXCEPT ![t] = [pc |-> "sent", retry |-> TRUE]]
  /\ browser' = browser
  /\ Sent(t)
  /\ UNCHANGED <<rows, entries, hash, resetLink, revoked>>

\* Mutant: the call that is sent again may refresh again.
RetriesAgain(t) == TRUE

Retries(t) == call[t].retry

\* apiRequest: on a 401, refresh, if there is a token and it was not done yet.
Answered(t) ==
  /\ call[t].pc = "sent"
  /\ serving[t].pc \in Answers
  /\ call' = [call EXCEPT ![t] =
       IF serving[t].pc = "401" /\ Retries(t) /\ browser
       THEN [pc |-> "refresh", retry |-> FALSE]
       ELSE NoCall]
  /\ serving' = [serving EXCEPT ![t] = Unserved]
  /\ UNCHANGED <<rows, entries, hash, resetLink, browser, revoked>>

\* Mutant: a refresh that is refused for whatever reason is a denial.
RefreshReadOrDeny(t) ==
  /\ call[t].pc = "refresh"
  /\ \/ call' = [call EXCEPT ![t].pc =
                     IF user.status = "ACTIVE" /\ hash THEN "rotate" ELSE "denied"]
     \/ call' = [call EXCEPT ![t].pc = "denied"]
  /\ UNCHANGED <<authVars, hash, resetLink, browser, revoked>>

\* refresh: the account and the token are checked; or there are too many
\* refreshes (429), and the call fails.
RefreshRead(t) ==
  /\ call[t].pc = "refresh"
  /\ \/ call' = [call EXCEPT ![t].pc =
                     IF user.status = "ACTIVE" /\ hash THEN "rotate" ELSE "denied"]
     \/ call' = [call EXCEPT ![t] = NoCall]
  /\ UNCHANGED <<authVars, hash, resetLink, browser, revoked>>

\* The new hash is written whatever happened to the old one since.
Rotate(t) ==
  /\ call[t].pc = "rotate"
  /\ hash' = TRUE
  /\ call' = [call EXCEPT ![t].pc = "store"]
  /\ UNCHANGED <<authVars, resetLink, browser, revoked>>

\* The tokens are kept and the call is sent again; or they never arrive.
Store(t) ==
  /\ call[t].pc = "store"
  /\ \/ /\ browser' = TRUE
        /\ call' = [call EXCEPT ![t].pc = "sent"]
        /\ Sent(t)
     \/ call' = [call EXCEPT ![t] = NoCall] /\ UNCHANGED <<browser, serving>>
  /\ UNCHANGED <<rows, entries, hash, resetLink, revoked>>

\* 401 or 403: the browser forgets its tokens, whichever they are by now.
Denied(t) ==
  /\ call[t].pc = "denied"
  /\ browser' = FALSE
  /\ call' = [call EXCEPT ![t] = NoCall]
  /\ UNCHANGED <<authVars, hash, resetLink, revoked>>

Proceeds(t) ==
  \/ Serve(t) /\ UNCHANGED sessionVars
  \/ Answered(t)
  \/ RefreshRead(t)
  \/ Rotate(t)
  \/ Store(t)
  \/ Denied(t)

---------------------------------------------------------------------------

Init == AuthInit /\ SessionInit

Next ==
  \/ /\ Administration
     /\ revoked' = (revoked \/ user'.status # "ACTIVE")
     /\ UNCHANGED <<hash, resetLink, browser, call>>
  \/ (ExpireUser \/ ExpireTenant) /\ UNCHANGED sessionVars
  \/ Login \/ SignOut
  \/ Logout \/ ChangePassword \/ ForgotPassword \/ LinkExpires \/ ResetPassword
  \/ \E t \in Slots : Send(t) \/ Proceeds(t)

\* What has been received is served, what has been answered is read; entries have
\* a term (EX, at least five seconds).  Nobody is obliged to do anything else.
Spec ==
  /\ Init
  /\ [][Next]_vars
  /\ \A t \in Slots : WF_vars(Proceeds(t))
  /\ WF_vars(ExpireUser /\ UNCHANGED sessionVars)
  /\ WF_vars(ExpireTenant /\ UNCHANGED sessionVars)

---------------------------------------------------------------------------

\* Every call comes to an end, whatever the tokens do meanwhile.
CallsSettle == \A t \in Slots : call[t].pc # "idle" ~> call[t].pc = "idle"

\* Calls that refresh the tokens together, one too many, or without ever hearing
\* of it, sign nobody out: the browser loses its session when its user leaves, or
\* when the session was revoked or the account barred.
SessionSurvives ==
  [][browser /\ ~browser' /\ call' # call => revoked]_vars

===========================================================================
