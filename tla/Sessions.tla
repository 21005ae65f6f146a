------------------------------ MODULE Sessions ------------------------------
(***************************************************************************)
(* The account of one email address and its refresh tokens: signup, login, *)
(* the callback of Google, refresh, logout, verification, password reset   *)
(* and the switch of the administrators.                                   *)
(*                                                                         *)
(* Requests overlap.  Each reads the row of users, and its UPDATE writes   *)
(* the columns that differ from what it has read.  A request that fails    *)
(* leaves nothing, except a callback of Google whose error is answered     *)
(* with a redirect: what it has flushed is committed.                      *)
(***************************************************************************)
EXTENDS Naturals, FiniteSets

CONSTANTS Requests,     \* requests under way at one time
          Tokens,       \* refresh tokens
          MaxResets     \* bound: password resets asked for

ASSUME SessionsAssumption ==
  /\ "none" \notin Tokens
  /\ MaxResets \in Nat

VARIABLES
  users,         \* the row of the address
  provisioned,   \* free plans, with workspace and credits, of the address
  tokens,        \* user_sessions.revoked by refresh token
  request,       \* the requests under way
  resets,        \* password resets asked for
  opened,        \* history: sessions opened by signup, login and Google
  bare,          \* history: the account was committed without provisioning
  overlaps       \* history: refreshes, of a token another request held already

history == <<opened, bare, overlaps>>
vars    == <<users, provisioned, tokens, request, resets, history>>

Columns == {"there", "active", "google", "verified", "verify", "reset", "password"}

\* google: google_id is set and auth_provider is GOOGLE; verify: a token of
\* verification is stored; reset: number of the reset whose token is stored;
\* password: 0 for none, 1 for that of the signup, else that of a reset.
NoRow == [there |-> FALSE, active |-> TRUE, google |-> FALSE, verified |-> FALSE,
          verify |-> FALSE, reset |-> 0, password |-> 0]

\* second: another request held the token when this one found it.
IdleRequest == [op |-> "none", read |-> NoRow, new |-> NoRow, token |-> "none", second |-> FALSE]

Init ==
  /\ users = NoRow /\ provisioned = 0
  /\ tokens = [t \in Tokens |-> "unused"]
  /\ request = [h \in Requests |-> IdleRequest]
  /\ resets = 0 /\ opened = 0 /\ bare = FALSE /\ overlaps = 0

----------------------------------------------------------------------------
(***************************************************************************)
(* What a request reads, and the row it means to write                     *)
(***************************************************************************)
Begin(h, op, new, token) ==
  /\ request[h] = IdleRequest
  /\ request' = [request EXCEPT ![h] =
       [op |-> op, read |-> users, new |-> new, token |-> token,
        second |-> \E g \in Requests : token # "none" /\ request[g].token = token]]
  /\ UNCHANGED <<users, provisioned, tokens, history>>

Signup(h) ==
  /\ ~users.there
  /\ Begin(h, "open", [NoRow EXCEPT !.there = TRUE, !.verify = TRUE, !.password = 1], "none")
  /\ UNCHANGED resets

\* The account is found by the id of Google or by the address, and linked.
GoogleCallback(h) ==
  /\ Begin(h, "google", [users EXCEPT !.there = TRUE, !.google = TRUE, !.verified = TRUE], "none")
  /\ UNCHANGED resets

Login(h) ==
  /\ users.there /\ users.active /\ users.password # 0
  /\ Begin(h, "open", users, "none")
  /\ UNCHANGED resets

VerifyEmail(h) ==
  /\ users.there /\ users.verify
  /\ Begin(h, "update", [users EXCEPT !.verified = TRUE, !.verify = FALSE], "none")
  /\ UNCHANGED resets

\* An account of Google gets no reset.
ForgotPassword(h) ==
  /\ users.there /\ ~users.google
  /\ resets < MaxResets
  /\ resets' = resets + 1
  /\ Begin(h, "update", [users EXCEPT !.reset = resets + 1], "none")

\* Fault: the account is made one of EMAIL again with its new password.
ResetPassword_AsEmail(h) ==
  /\ users.there /\ users.reset # 0
  /\ Begin(h, "update", [users EXCEPT !.password = users.reset + 1, !.reset = 0,
                                      !.google = FALSE], "none")
  /\ UNCHANGED resets

ResetPassword(h) ==
  /\ users.there /\ users.reset # 0
  /\ Begin(h, "update", [users EXCEPT !.password = users.reset + 1, !.reset = 0], "none")
  /\ UNCHANGED resets

ToggleUserActive(h, active) ==
  /\ users.there
  /\ Begin(h, "update", [users EXCEPT !.active = active], "none")
  /\ UNCHANGED resets

\* Fault: revoked tokens are found as well.
Exchangeable_Revoked(t) == tokens[t] \in {"valid", "revoked"}

Exchangeable(t) == tokens[t] = "valid"

RefreshTokens(h, t) ==
  /\ Exchangeable(t)
  /\ Begin(h, "refresh", users, t)
  /\ UNCHANGED resets

Logout(h, t) ==
  /\ tokens[t] # "unused"
  /\ Begin(h, "logout", users, t)
  /\ UNCHANGED resets

----------------------------------------------------------------------------
(***************************************************************************)
(* Commit and rollback                                                     *)
(***************************************************************************)
\* The UPDATE of the columns that differ from what was read.
Written(r) == [c \in Columns |-> IF r.new[c] = r.read[c] THEN users[c] ELSE r.new[c]]

\* The request inserts the row, and provisions the account.
Creates(r) == r.new.there /\ ~r.read.there

\* Fault: the address is not unique.
Refused_Never(r) == FALSE

\* The INSERT of a row that another request has inserted meanwhile.
Refused(r) == users.there /\ Creates(r)

\* The token of the new session, when the request opens one.
Fresh(r) == IF r.op \in {"open", "google", "refresh"}
              THEN {t \in Tokens : tokens[t] = "unused"}
              ELSE {"none"}

Commit(h) ==
  LET r == request[h] IN
    /\ r # IdleRequest /\ ~Refused(r)
    /\ users' = Written(r)
    /\ provisioned' = IF Creates(r) THEN provisioned + 1 ELSE provisioned
    /\ \E fresh \in Fresh(r) :
         tokens' = [t \in Tokens |-> IF t = r.token THEN "revoked"
                                     ELSE IF t = fresh THEN "valid" ELSE tokens[t]]
    /\ opened' = IF r.op \in {"open", "google"} THEN opened + 1 ELSE opened
    /\ overlaps' = IF r.op = "refresh" /\ r.second THEN overlaps + 1 ELSE overlaps
    /\ request' = [request EXCEPT ![h] = IdleRequest]
    /\ UNCHANGED <<resets, bare>>

\* provision_free_plan finds no free plan and raises, after the row is flushed.
\* The endpoint swallows the error, and get_db commits the row alone: nothing is
\* provisioned and no session is opened.
CommitUnprovisioned(h) ==
  LET r == request[h] IN
    /\ r.op = "google" /\ Creates(r) /\ ~Refused(r)
    /\ users' = Written(r)
    /\ bare' = TRUE
    /\ request' = [request EXCEPT ![h] = IdleRequest]
    /\ UNCHANGED <<provisioned, tokens, resets, opened, overlaps>>

\* The commit or a flush is refused, the error reaches get_db, or nothing has
\* been flushed yet.
RollBack(h) ==
  /\ request[h] # IdleRequest
  /\ request' = [request EXCEPT ![h] = IdleRequest]
  /\ UNCHANGED <<users, provisioned, tokens, resets, history>>

\* expires_at passes; refresh does not find the session any more.
Expire(t) ==
  /\ tokens[t] = "valid"
  /\ tokens' = [tokens EXCEPT ![t] = "expired"]
  /\ UNCHANGED <<users, provisioned, request, resets, history>>

----------------------------------------------------------------------------
Handle(h) ==
  \/ Signup(h) \/ GoogleCallback(h) \/ Login(h)
  \/ VerifyEmail(h) \/ ForgotPassword(h) \/ ResetPassword(h)
  \/ \E active \in BOOLEAN : ToggleUserActive(h, active)
  \/ \E t \in Tokens : RefreshTokens(h, t) \/ Logout(h, t)
  \/ Commit(h)
  \/ CommitUnprovisioned(h)
  \/ RollBack(h)

Next ==
  \/ \E h \in Requests : Handle(h)
  \/ \E t \in Tokens : Expire(t)

Spec == Init /\ [][Next]_vars

----------------------------------------------------------------------------
(***************************************************************************)
(* Properties                                                              *)
(***************************************************************************)
\* An account has one free plan, with workspace and credits, although signup and
\* Google may create it at the same time, and there is none without account.
\* The exception is the account that a callback has committed although its
\* provisioning raised: it has none, and no later request makes up for it.
ProvisionedOnce == provisioned = (IF users.there /\ ~bare THEN 1 ELSE 0)

\* Sessions are not multiplied: there are no more valid refresh tokens than
\* sessions opened, and refreshes that overlapped another use of their token.
SessionsBounded ==
  Cardinality({t \in Tokens : tokens[t] = "valid"}) <= opened + overlaps

\* An account linked to Google stays linked, and a verified address verified,
\* whatever requests that have read the row before write after.
LinkKept ==
  [][/\ users.google => users'.google
     /\ users.verified => users'.verified]_vars

----------------------------------------------------------------------------
(***************************************************************************)
(* What the documentation says and the code does not do                    *)
(***************************************************************************)
\* billing.py:119, "Create freemium subscription for a new user.": an account
\* comes with its free plan.
FreePlanCreated == users.there => provisioned = 1
=============================================================================
