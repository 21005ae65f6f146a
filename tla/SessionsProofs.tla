---------------------------- MODULE SessionsProofs ----------------------------
(***************************************************************************)
(* What overlapping requests on an account cannot do, for every number of  *)
(* requests, tokens and resets.                                            *)
(***************************************************************************)
EXTENDS Sessions, FiniteSetTheorems, TLAPS

----------------------------------------------------------------------------
(***************************************************************************)
(* The invariant: types, and what a request has read and means to write    *)
(***************************************************************************)
Row == [there : BOOLEAN, active : BOOLEAN, google : BOOLEAN, verified : BOOLEAN,
        verify : BOOLEAN, reset : Nat, password : Nat]

Operation == [op : {"none", "open", "google", "update", "refresh", "logout"},
              read : Row, new : Row, token : Tokens \cup {"none"}, second : BOOLEAN]

TypeOK ==
  /\ users \in Row
  /\ provisioned \in Nat
  /\ tokens \in [Tokens -> {"unused", "valid", "revoked", "expired"}]
  /\ request \in [Requests -> Operation]
  /\ resets \in Nat
  /\ opened \in Nat
  /\ bare \in BOOLEAN
  /\ overlaps \in Nat

\* A request writes a row that is there, or nothing; it takes nothing back that
\* it has read, and an account that it has read is there still.
Forward(r) ==
  /\ r.new.there \/ r.new = r.read
  /\ r.read.there => r.new.there /\ users.there
  /\ r.read.google => r.new.google
  /\ r.read.verified => r.new.verified

RowsForward ==
  /\ \A h \in Requests : Forward(request[h])
  /\ users.google \/ users.verified => users.there
  /\ bare => users.there

LEMMA NoRowTyped == NoRow \in Row /\ IdleRequest \in Operation
BY DEF NoRow, Row, IdleRequest, Operation

LEMMA IdleForward ==
  /\ IdleRequest.op = "none" /\ IdleRequest.new = IdleRequest.read
  /\ ~IdleRequest.read.there /\ ~IdleRequest.read.google /\ ~IdleRequest.read.verified
  /\ ~NoRow.there /\ ~NoRow.google /\ ~NoRow.verified
BY DEF IdleRequest, NoRow

LEMMA WrittenRow ==
  ASSUME NEW r \in Operation, users \in Row
  PROVE  /\ Written(r) \in Row
         /\ Written(r).there = IF r.new.there = r.read.there THEN users.there ELSE r.new.there
         /\ Written(r).google =
              IF r.new.google = r.read.google THEN users.google ELSE r.new.google
         /\ Written(r).verified =
              IF r.new.verified = r.read.verified THEN users.verified ELSE r.new.verified
<1>1. r.read \in Row /\ r.new \in Row
  BY DEF Operation
<1> QED
  BY <1>1 DEF Written, Columns, Row

\* What the first step of a request makes of a row that it may find.
LEMMA BeginTyped ==
  ASSUME TypeOK, NEW h \in Requests, NEW op \in {"open", "google", "update", "refresh", "logout"},
         NEW new \in Row, NEW token \in Tokens \cup {"none"}, Begin(h, op, new, token)
  PROVE  /\ request' \in [Requests -> Operation]
         /\ request[h] = IdleRequest
         /\ request'[h].read = users /\ request'[h].new = new
         /\ request'[h].op = op /\ request'[h].token = token
         /\ \A g \in Requests : g # h => request'[g] = request[g]
         /\ users' = users /\ provisioned' = provisioned /\ tokens' = tokens
         /\ opened' = opened /\ bare' = bare /\ overlaps' = overlaps
<1> DEFINE second == \E g \in Requests : token # "none" /\ request[g].token = token
           r == [op |-> op, read |-> users, new |-> new, token |-> token, second |-> second]
<1>1. second \in BOOLEAN
  OBVIOUS
<1>2. request' = [request EXCEPT ![h] = r] /\ request[h] = IdleRequest
  BY DEF Begin
<1>3. UNCHANGED <<users, provisioned, tokens, opened, bare, overlaps>>
  BY DEF Begin, history
<1> HIDE DEF second
<1>4. r \in Operation
  BY <1>1 DEF TypeOK, Operation
<1>5. r.op = op /\ r.read = users /\ r.new = new /\ r.token = token
  OBVIOUS
<1> HIDE DEF r
<1>6. /\ request'[h] = r
      /\ \A g \in Requests : g # h => request'[g] = request[g]
      /\ request' \in [Requests -> Operation]
  BY <1>2, <1>4 DEF TypeOK
<1> QED
  BY <1>2, <1>3, <1>5, <1>6

\* A request that is first has found no other with its token.
LEMMA BeginSecond ==
  ASSUME TypeOK, NEW h \in Requests, NEW op, NEW new, NEW token \in Tokens,
         Begin(h, op, new, token), ~request'[h].second
  PROVE  \A g \in Requests : request[g].token # token
BY SessionsAssumption DEF Begin, TypeOK

\* The first steps of the requests: every one begins with a row that is there,
\* or that it leaves alone, and keeps the link and the verification.
Start(h) ==
  \/ Signup(h) \/ GoogleCallback(h) \/ Login(h)
  \/ VerifyEmail(h) \/ ForgotPassword(h) \/ ResetPassword(h)
  \/ \E active \in BOOLEAN : ToggleUserActive(h, active)
  \/ \E t \in Tokens : RefreshTokens(h, t) \/ Logout(h, t)

LEMMA Starts ==
  ASSUME TypeOK, users.google \/ users.verified => users.there, NEW h \in Requests, Start(h)
  PROVE  \E op \in {"open", "google", "update", "refresh", "logout"}, new \in Row,
            token \in Tokens \cup {"none"} :
           /\ Begin(h, op, new, token)
           /\ resets' \in Nat
           /\ new.there \/ new = users
           /\ users.there => new.there
           /\ users.google => new.google
           /\ users.verified => new.verified
           /\ op = "refresh" => token \in Tokens /\ tokens[token] = "valid"
<1> DEFINE P(op, new, token) ==
           /\ Begin(h, op, new, token)
           /\ resets' \in Nat
           /\ new.there \/ new = users
           /\ users.there => new.there
           /\ users.google => new.google
           /\ users.verified => new.verified
           /\ op = "refresh" => token \in Tokens /\ tokens[token] = "valid"
<1>0. users \in Row /\ resets \in Nat
  BY DEF TypeOK
<1>1. CASE Signup(h)
  <2> DEFINE new == [NoRow EXCEPT !.there = TRUE, !.verify = TRUE, !.password = 1]
  <2>1. new \in Row /\ new.there
    BY DEF NoRow, Row
  <2>2. P("open", new, "none")
    BY <1>0, <1>1, <2>1 DEF Signup, Row
  <2> QED
    BY <2>1, <2>2
<1>2. CASE GoogleCallback(h)
  <2> DEFINE new == [users EXCEPT !.there = TRUE, !.google = TRUE, !.verified = TRUE]
  <2>1. new \in Row /\ new.there /\ new.google /\ new.verified
    BY <1>0 DEF Row
  <2>2. P("google", new, "none")
    BY <1>0, <1>2, <2>1 DEF GoogleCallback
  <2> QED
    BY <2>1, <2>2
<1>3. CASE Login(h)
  <2>1. P("open", users, "none")
    BY <1>0, <1>3 DEF Login
  <2> QED
    BY <1>0, <2>1
<1>4. CASE VerifyEmail(h)
  <2> DEFINE new == [users EXCEPT !.verified = TRUE, !.verify = FALSE]
  <2>1. /\ new \in Row /\ new.there = users.there /\ new.google = users.google
        /\ new.verified
    BY <1>0 DEF Row
  <2>2. P("update", new, "none")
    BY <1>0, <1>4, <2>1 DEF VerifyEmail
  <2> QED
    BY <2>1, <2>2
<1>5. CASE ForgotPassword(h)
  <2> DEFINE new == [users EXCEPT !.reset = resets + 1]
  <2>1. /\ new \in Row /\ new.there = users.there /\ new.google = users.google
        /\ new.verified = users.verified
    BY <1>0 DEF Row
  <2>2. P("update", new, "none")
    BY <1>0, <1>5, <2>1 DEF ForgotPassword
  <2> QED
    BY <2>1, <2>2
<1>6. CASE ResetPassword(h)
  <2> DEFINE n   == users.reset + 1
             new == [users EXCEPT !.password = n, !.reset = 0]
  <2>0. n \in Nat
    BY <1>0 DEF Row
  <2> HIDE DEF n
  <2>1. /\ new \in Row /\ new.there = users.there /\ new.google = users.google
        /\ new.verified = users.verified
    BY <1>0, <2>0 DEF Row
  <2>2. P("update", new, "none")
    BY <1>0, <1>6, <2>1 DEF ResetPassword, n
  <2> QED
    BY <2>1, <2>2
<1>7. ASSUME NEW active \in BOOLEAN, ToggleUserActive(h, active)
      PROVE  \E op \in {"open", "google", "update", "refresh", "logout"}, new \in Row,
                token \in Tokens \cup {"none"} : P(op, new, token)
  <2> DEFINE new == [users EXCEPT !.active = active]
  <2>1. /\ new \in Row /\ new.there = users.there /\ new.google = users.google
        /\ new.verified = users.verified
    BY <1>0 DEF Row
  <2>2. P("update", new, "none")
    BY <1>0, <1>7, <2>1 DEF ToggleUserActive
  <2> QED
    BY <2>1, <2>2
<1>8. ASSUME NEW t \in Tokens, RefreshTokens(h, t)
      PROVE  P("refresh", users, t)
  BY <1>0, <1>8 DEF RefreshTokens, Exchangeable
<1>9. ASSUME NEW t \in Tokens, Logout(h, t)
      PROVE  P("logout", users, t)
  BY <1>0, <1>9 DEF Logout
<1> QED
  BY <1>0, <1>1, <1>2, <1>3, <1>4, <1>5, <1>6, <1>7, <1>8, <1>9 DEF Start

\* The other steps of a request: it is over.
LEMMA Ends ==
  ASSUME TypeOK, NEW h \in Requests, Commit(h) \/ CommitUnprovisioned(h) \/ RollBack(h)
  PROVE  /\ request' \in [Requests -> Operation]
         /\ request'[h] = IdleRequest
         /\ \A g \in Requests : g # h => request'[g] = request[g]
         /\ resets' = resets
BY NoRowTyped DEF Commit, CommitUnprovisioned, RollBack, TypeOK

LEMMA TypeStep ==
  ASSUME TypeOK, RowsForward, [Next]_vars
  PROVE  TypeOK'
<1>1. ASSUME NEW h \in Requests, Start(h) PROVE TypeOK'
  <2>1. PICK op \in {"open", "google", "update", "refresh", "logout"}, new \in Row,
             token \in Tokens \cup {"none"} :
               Begin(h, op, new, token) /\ resets' \in Nat
    BY <1>1, Starts DEF RowsForward
  <2> QED
    BY <2>1, BeginTyped DEF TypeOK
<1>2. ASSUME NEW h \in Requests, Commit(h) PROVE TypeOK'
  <2>1. request[h] \in Operation /\ users \in Row
    BY DEF TypeOK
  <2>2. users' \in Row
    BY <1>2, <2>1, WrittenRow DEF Commit
  <2>3. tokens' \in [Tokens -> {"unused", "valid", "revoked", "expired"}]
    BY <1>2 DEF Commit, TypeOK
  <2>4. provisioned' \in Nat /\ opened' \in Nat /\ overlaps' \in Nat /\ bare' \in BOOLEAN
    BY <1>2 DEF Commit, TypeOK
  <2> QED
    BY <1>2, <2>2, <2>3, <2>4, Ends DEF TypeOK
<1>3. ASSUME NEW h \in Requests, RollBack(h) PROVE TypeOK'
  BY <1>3, Ends DEF RollBack, TypeOK, history
<1>4. ASSUME NEW h \in Requests, CommitUnprovisioned(h) PROVE TypeOK'
  <2>1. request[h] \in Operation /\ users \in Row
    BY DEF TypeOK
  <2>2. users' \in Row
    BY <1>4, <2>1, WrittenRow DEF CommitUnprovisioned
  <2> QED
    BY <1>4, <2>2, Ends DEF CommitUnprovisioned, TypeOK
<1>5. ASSUME NEW t \in Tokens, Expire(t) PROVE TypeOK'
  BY <1>5 DEF Expire, TypeOK, history
<1>6. CASE UNCHANGED vars
  BY <1>6 DEF vars, history, TypeOK
<1> QED
  BY <1>1, <1>2, <1>3, <1>4, <1>5, <1>6 DEF Next, Handle, Start

LEMMA RowsStep ==
  ASSUME TypeOK, RowsForward, [Next]_vars
  PROVE  /\ RowsForward'
         /\ users.there => users'.there
         /\ users.google => users'.google
         /\ users.verified => users'.verified
<1>0. users \in Row /\ request \in [Requests -> Operation]
  BY DEF TypeOK
<1>1. ASSUME UNCHANGED <<users, bare>>,
             \A h \in Requests : request'[h] = request[h] \/ request'[h] = IdleRequest
      PROVE  RowsForward'
  <2>1. ASSUME NEW h \in Requests PROVE Forward(request[h])'
    BY <1>1, IdleForward DEF RowsForward, Forward
  <2> QED
    BY <1>1, <2>1 DEF RowsForward
<1>2. ASSUME NEW h \in Requests, Start(h) PROVE RowsForward' /\ UNCHANGED users
  <2>1. PICK op \in {"open", "google", "update", "refresh", "logout"}, new \in Row,
             token \in Tokens \cup {"none"} :
               /\ Begin(h, op, new, token)
               /\ new.there \/ new = users
               /\ users.there => new.there
               /\ users.google => new.google
               /\ users.verified => new.verified
    BY <1>2, Starts DEF RowsForward
  <2>2. request'[h].read = users /\ request'[h].new = new /\ users' = users /\ bare' = bare
    BY <2>1, BeginTyped
  <2>3. \A g \in Requests : g # h => request'[g] = request[g]
    BY <2>1, BeginTyped
  <2>4. ASSUME NEW g \in Requests PROVE Forward(request[g])'
    <3>1. CASE g = h
      BY <2>1, <2>2, <3>1 DEF Forward
    <3>2. CASE g # h
      BY <2>2, <2>3, <3>2 DEF RowsForward, Forward
    <3> QED
      BY <3>1, <3>2
  <2> QED
    BY <2>2, <2>4 DEF RowsForward
<1>3. ASSUME NEW h \in Requests, Commit(h) \/ CommitUnprovisioned(h)
      PROVE  /\ RowsForward'
             /\ users.there => users'.there
             /\ users.google => users'.google
             /\ users.verified => users'.verified
  <2> DEFINE r == request[h]
  <2>1. r \in Operation /\ r.read \in Row /\ r.new \in Row /\ Forward(r)
    BY <1>0 DEF Operation, RowsForward
  <2>2. users' = Written(r) /\ (bare' # bare => r.new.there /\ ~r.read.there)
    BY <1>3 DEF Commit, CommitUnprovisioned, Creates
  <2> HIDE DEF r
  <2>3. /\ users'.there = IF r.new.there = r.read.there THEN users.there ELSE r.new.there
        /\ users'.google = IF r.new.google = r.read.google THEN users.google ELSE r.new.google
        /\ users'.verified =
             IF r.new.verified = r.read.verified THEN users.verified ELSE r.new.verified
    BY <1>0, <2>1, <2>2, WrittenRow
  <2>4. /\ users.there => users'.there
        /\ users.google => users'.google
        /\ users.verified => users'.verified
    BY <1>0, <2>1, <2>3 DEF Forward, Row
  <2>5. users'.google \/ users'.verified => users'.there
    BY <1>0, <2>1, <2>3, <2>4 DEF Forward, Row, RowsForward
  <2>6. bare' => users'.there
    BY <1>0, <2>1, <2>2, <2>3, <2>4 DEF Row, RowsForward
  <2>7. \A g \in Requests : Forward(request[g])'
    <3>1. \A g \in Requests : request'[g] = request[g] \/ request'[g] = IdleRequest
      BY <1>3, Ends
    <3>2. ASSUME NEW g \in Requests PROVE Forward(request[g])'
      BY <2>4, <3>1, IdleForward DEF RowsForward, Forward
    <3> QED
      BY <3>2
  <2> QED
    BY <2>4, <2>5, <2>6, <2>7 DEF RowsForward
<1>4. ASSUME NEW h \in Requests, RollBack(h) PROVE RowsForward' /\ UNCHANGED users
  BY <1>1, <1>4, Ends DEF RollBack, history
<1>5. ASSUME (\E t \in Tokens : Expire(t)) \/ UNCHANGED vars
      PROVE  RowsForward' /\ UNCHANGED users
  BY <1>1, <1>5 DEF Expire, vars, history
<1> QED
  BY <1>2, <1>3, <1>4, <1>5 DEF Next, Handle, Start

LEMMA InvHolds == Spec => [](TypeOK /\ RowsForward)
<1>1. Init => TypeOK /\ RowsForward
  <2> SUFFICES ASSUME Init PROVE TypeOK /\ RowsForward
    OBVIOUS
  <2>1. TypeOK
    BY NoRowTyped DEF Init, TypeOK
  <2>2. RowsForward
    BY IdleForward DEF Init, RowsForward, Forward
  <2> QED
    BY <2>1, <2>2
<1> QED
  BY <1>1, TypeStep, RowsStep, PTL DEF Spec

\* Every variable of the account keeps its type.
THEOREM TypeCorrect == Spec => []TypeOK
BY InvHolds, PTL

----------------------------------------------------------------------------
(***************************************************************************)
(* LinkKept                                                                *)
(***************************************************************************)
\* An UPDATE writes the columns that its request has changed, and no request
\* takes back a link or a verification that it has read.
THEOREM LinkKeptHolds == Spec => LinkKept
<1>1. TypeOK /\ RowsForward /\ [Next]_vars =>
        [/\ users.google => users'.google
         /\ users.verified => users'.verified]_vars
  BY RowsStep
<1> QED
  BY <1>1, InvHolds, PTL DEF Spec, LinkKept

----------------------------------------------------------------------------
(***************************************************************************)
(* ProvisionedOnce                                                         *)
(***************************************************************************)
\* Only a commit that inserts the row provisions, or leaves the account bare, and
\* the unique address lets one such commit pass; there is no account before it.
THEOREM ProvisionedOnceHolds == Spec => []ProvisionedOnce
<1>1. Init => ProvisionedOnce
  BY DEF Init, ProvisionedOnce, NoRow
<1>2. TypeOK /\ RowsForward /\ ProvisionedOnce /\ [Next]_vars => ProvisionedOnce'
  <2> SUFFICES ASSUME TypeOK, RowsForward, ProvisionedOnce, [Next]_vars
               PROVE  ProvisionedOnce'
    OBVIOUS
  <2>1. ASSUME NEW h \in Requests, Start(h) PROVE UNCHANGED <<users, provisioned, bare>>
    <3>1. PICK op \in {"open", "google", "update", "refresh", "logout"}, new \in Row,
               token \in Tokens \cup {"none"} : Begin(h, op, new, token)
      BY <2>1, Starts DEF RowsForward
    <3> QED
      BY <3>1, BeginTyped
  <2>2. ASSUME NEW h \in Requests, Commit(h) PROVE ProvisionedOnce'
    <3> DEFINE r == request[h]
    <3>1. r \in Operation /\ r.read \in Row /\ r.new \in Row /\ users \in Row /\ Forward(r)
      BY DEF TypeOK, Operation, RowsForward
    <3>2. /\ users' = Written(r) /\ ~(users.there /\ ~r.read.there /\ r.new.there)
          /\ provisioned' = IF r.new.there /\ ~r.read.there THEN provisioned + 1
                            ELSE provisioned
          /\ bare' = bare
      BY <2>2 DEF Commit, Refused, Creates
    <3> HIDE DEF r
    <3>3. users'.there = IF r.new.there = r.read.there THEN users.there ELSE r.new.there
      BY <3>1, <3>2, WrittenRow
    <3> QED
      BY <3>1, <3>2, <3>3 DEF ProvisionedOnce, Forward, Row, RowsForward
  <2>4. ASSUME NEW h \in Requests, CommitUnprovisioned(h) PROVE ProvisionedOnce'
    <3>1. ~users.there /\ bare' /\ provisioned' = provisioned
      BY <2>4 DEF CommitUnprovisioned, Refused
    <3> QED
      BY <3>1 DEF ProvisionedOnce
  <2>3. ASSUME \/ \E h \in Requests : RollBack(h)
               \/ \E t \in Tokens : Expire(t)
               \/ UNCHANGED vars
        PROVE  UNCHANGED <<users, provisioned, bare>>
    BY <2>3 DEF RollBack, Expire, vars, history
  <2> QED
    BY <2>1, <2>2, <2>3, <2>4 DEF Next, Handle, Start, ProvisionedOnce
<1> QED
  BY <1>1, <1>2, InvHolds, PTL DEF Spec

----------------------------------------------------------------------------
(***************************************************************************)
(* SessionsBounded                                                         *)
(***************************************************************************)
\* Request h is refreshing t, and found no other request that held t.
First(h, t) == request[h].op = "refresh" /\ request[h].token = t /\ ~request[h].second

\* The tokens that are valid, or that a first refresh has found valid.
Live == {t \in Tokens : tokens[t] = "valid" \/ \E h \in Requests : First(h, t)}

\* A token has one first refresh at a time: its commit takes the token out of
\* Live for the one it opens, whatever has become of the token meanwhile, and
\* every other commit that opens one is counted.
TokensOwed ==
  /\ \A h \in Requests : request[h].op = "refresh" => request[h].token \in Tokens
  /\ \A g, h \in Requests, t \in Tokens : First(g, t) /\ First(h, t) => g = h
  /\ IsFiniteSet(Live)
  /\ Cardinality(Live) <= opened + overlaps

LEMMA LiveShrinks ==
  ASSUME TypeOK, TokensOwed, Live' \subseteq Live, opened' + overlaps' >= opened + overlaps,
         opened' + overlaps' \in Nat
  PROVE  IsFiniteSet(Live') /\ Cardinality(Live') <= opened' + overlaps'
<1>1. /\ IsFiniteSet(Live') /\ Cardinality(Live') <= Cardinality(Live)
      /\ Cardinality(Live) \in Nat /\ Cardinality(Live') \in Nat
  BY FS_Subset, FS_CardinalityType DEF TokensOwed
<1> QED
  BY <1>1 DEF TokensOwed, TypeOK

LEMMA LiveGrows ==
  ASSUME TypeOK, TokensOwed, NEW t, Live' \subseteq Live \cup {t},
         opened' + overlaps' = opened + overlaps + 1
  PROVE  IsFiniteSet(Live') /\ Cardinality(Live') <= opened' + overlaps'
<1>0. IsFiniteSet(Live) /\ Cardinality(Live) \in Nat
  BY FS_CardinalityType DEF TokensOwed
<1>1. IsFiniteSet(Live \cup {t}) /\ Cardinality(Live \cup {t}) <= Cardinality(Live) + 1
  BY <1>0, FS_AddElement
<1>2. /\ IsFiniteSet(Live') /\ Cardinality(Live') <= Cardinality(Live \cup {t})
      /\ Cardinality(Live \cup {t}) \in Nat /\ Cardinality(Live') \in Nat
  BY <1>1, FS_Subset, FS_CardinalityType
<1> QED
  BY <1>0, <1>1, <1>2 DEF TokensOwed, TypeOK

LEMMA LiveMoves ==
  ASSUME TypeOK, TokensOwed, NEW s \in Live, NEW t, Live' \subseteq (Live \ {s}) \cup {t},
         opened' + overlaps' = opened + overlaps
  PROVE  IsFiniteSet(Live') /\ Cardinality(Live') <= opened' + overlaps'
<1> DEFINE rest == Live \ {s}
<1>1. /\ IsFiniteSet(rest) /\ Cardinality(rest) = Cardinality(Live) - 1
      /\ Cardinality(Live) \in Nat /\ Cardinality(rest) \in Nat
  BY FS_RemoveElement, FS_CardinalityType DEF TokensOwed
<1> HIDE DEF rest
<1>2. IsFiniteSet(rest \cup {t}) /\ Cardinality(rest \cup {t}) <= Cardinality(rest) + 1
  BY <1>1, FS_AddElement
<1>3. Live' \subseteq rest \cup {t}
  BY DEF rest
<1>4. /\ IsFiniteSet(Live') /\ Cardinality(Live') <= Cardinality(rest \cup {t})
      /\ Cardinality(rest \cup {t}) \in Nat /\ Cardinality(Live') \in Nat
  BY <1>2, <1>3, FS_Subset, FS_CardinalityType
<1> QED
  BY <1>1, <1>2, <1>4 DEF TokensOwed, TypeOK

LEMMA TokensStep ==
  ASSUME TypeOK, RowsForward, TokensOwed, [Next]_vars
  PROVE  TokensOwed'
<1>0. /\ tokens \in [Tokens -> {"unused", "valid", "revoked", "expired"}]
      /\ request \in [Requests -> Operation]
      /\ opened \in Nat /\ overlaps \in Nat
  BY DEF TypeOK
\* A step that makes no request a first one keeps the first ones apart.
<1>1. ASSUME \A g \in Requests : request'[g] = request[g] \/ request'[g] = IdleRequest
      PROVE  /\ \A g \in Requests : request'[g].op = "refresh" => request'[g].token \in Tokens
             /\ \A g \in Requests, t \in Tokens : First(g, t)' => First(g, t)
             /\ \A g, h \in Requests, t \in Tokens : First(g, t)' /\ First(h, t)' => g = h
  <2>1. ASSUME NEW g \in Requests, NEW t \in Tokens, First(g, t)' PROVE First(g, t)
    BY <1>1, <2>1, IdleForward DEF First
  <2>2. \A g \in Requests : request'[g].op = "refresh" => request'[g].token \in Tokens
    BY <1>1, IdleForward DEF TokensOwed
  <2>3. \A g, h \in Requests, t \in Tokens : First(g, t)' /\ First(h, t)' => g = h
    BY <2>1 DEF TokensOwed
  <2> QED
    BY <2>1, <2>2, <2>3
<1>2. ASSUME NEW h \in Requests, Start(h) PROVE TokensOwed'
  <2>1. PICK op \in {"open", "google", "update", "refresh", "logout"}, new \in Row,
             token \in Tokens \cup {"none"} :
               /\ Begin(h, op, new, token)
               /\ op = "refresh" => token \in Tokens /\ tokens[token] = "valid"
    BY <1>2, Starts DEF RowsForward
  <2>2. /\ request'[h].op = op /\ request'[h].token = token
        /\ tokens' = tokens /\ opened' = opened /\ overlaps' = overlaps
    BY <2>1, BeginTyped
  <2>3. \A g \in Requests : g # h => request'[g] = request[g]
    BY <2>1, BeginTyped
  <2>4. ASSUME NEW t \in Tokens, First(h, t)'
        PROVE  /\ tokens[t] = "valid"
               /\ \A g \in Requests : request[g].token # t
    <3>1. op = "refresh" /\ token = t
      BY <2>2, <2>4 DEF First
    <3>2. Begin(h, op, new, t) /\ ~request'[h].second
      BY <2>1, <2>4, <3>1 DEF First
    <3> QED
      BY <2>1, <3>1, <3>2, BeginSecond
  <2>5. ASSUME NEW f \in Requests, NEW g \in Requests, NEW t \in Tokens,
               First(f, t)', First(g, t)'
        PROVE  f = g
    <3>1. CASE f = h \/ g = h
      BY <2>3, <2>4, <2>5, <3>1 DEF First
    <3>2. CASE f # h /\ g # h
      BY <2>3, <2>5, <3>2 DEF First, TokensOwed
    <3> QED
      BY <3>1, <3>2
  <2>6. Live' \subseteq Live
    <3> SUFFICES ASSUME NEW t \in Tokens, t \in Live', tokens[t] # "valid" PROVE t \in Live
      BY DEF Live
    <3>1. PICK g \in Requests : First(g, t)'
      BY <2>2 DEF Live
    <3>2. g # h
      BY <2>4, <3>1
    <3> QED
      BY <2>3, <3>1, <3>2 DEF First, Live
  <2>7. \A g \in Requests : request'[g].op = "refresh" => request'[g].token \in Tokens
    BY <2>1, <2>2, <2>3 DEF TokensOwed
  <2>8. IsFiniteSet(Live') /\ Cardinality(Live') <= opened' + overlaps'
    BY <1>0, <2>2, <2>6, LiveShrinks
  <2> QED
    BY <2>5, <2>7, <2>8 DEF TokensOwed
<1>3. ASSUME NEW h \in Requests, Commit(h) PROVE TokensOwed'
  <2> DEFINE r == request[h]
  <2>1. PICK fresh \in Fresh(r) :
          tokens' = [t \in Tokens |-> IF t = r.token THEN "revoked"
                                      ELSE IF t = fresh THEN "valid" ELSE tokens[t]]
    BY <1>3 DEF Commit
  <2>2. /\ opened' = IF r.op \in {"open", "google"} THEN opened + 1 ELSE opened
        /\ overlaps' = IF r.op = "refresh" /\ r.second THEN overlaps + 1 ELSE overlaps
    BY <1>3 DEF Commit
  <2>3. \A g \in Requests : request'[g] = request[g] \/ request'[g] = IdleRequest
    BY <1>3, Ends
  <2>4. request'[h] = IdleRequest /\ \A g \in Requests : g # h => request'[g] = request[g]
    BY <1>3, Ends
  <2>5. Live' \subseteq Live \cup {fresh}
    <3> SUFFICES ASSUME NEW t \in Tokens, t \in Live', t # fresh PROVE t \in Live
      BY DEF Live
    <3>1. tokens'[t] = "valid" => tokens[t] = "valid"
      BY <2>1
    <3> QED
      BY <1>1, <2>3, <3>1 DEF Live
  <2>6. CASE r.op \notin {"open", "google", "refresh"}
    <3>1. fresh \notin Tokens
      BY <2>6, SessionsAssumption DEF Fresh
    <3>2. Live' \subseteq Live
      BY <2>5, <3>1 DEF Live
    <3> QED
      BY <1>0, <1>1, <2>2, <2>3, <2>6, <3>2, LiveShrinks DEF TokensOwed
  <2>7. CASE r.op \in {"open", "google"} \/ (r.op = "refresh" /\ r.second)
    <3>1. opened' + overlaps' = opened + overlaps + 1
      BY <1>0, <2>2, <2>7
    <3> QED
      BY <1>1, <2>3, <2>5, <3>1, LiveGrows DEF TokensOwed
  <2>8. CASE r.op = "refresh" /\ ~r.second
    <3>1. PICK t \in Tokens : t = r.token /\ First(h, t)
      BY <2>8 DEF First, TokensOwed
    <3>2. t \in Live
      BY <3>1 DEF Live
    <3>3. ASSUME NEW g \in Requests PROVE ~First(g, t)'
      <4>1. CASE g = h
        BY <2>4, <4>1, IdleForward DEF First
      <4>2. CASE g # h
        BY <2>4, <3>1, <4>2 DEF First, TokensOwed
      <4> QED
        BY <4>1, <4>2
    <3>4. tokens'[t] # "valid"
      BY <2>1, <3>1
    <3>5. t \notin Live'
      BY <3>3, <3>4 DEF Live
    <3>6. opened' + overlaps' = opened + overlaps
      BY <2>2, <2>8
    <3>7. Live' \subseteq (Live \ {t}) \cup {fresh}
      BY <2>5, <3>5
    <3>8. IsFiniteSet(Live') /\ Cardinality(Live') <= opened' + overlaps'
      BY <3>2, <3>6, <3>7, LiveMoves
    <3> QED
      BY <1>1, <2>3, <3>8 DEF TokensOwed
  <2>9. r.second \in BOOLEAN
    BY <1>0 DEF Operation
  <2> QED
    BY <2>6, <2>7, <2>8, <2>9
<1>4. ASSUME NEW h \in Requests, CommitUnprovisioned(h) \/ RollBack(h) PROVE TokensOwed'
  <2>1. \A g \in Requests : request'[g] = request[g] \/ request'[g] = IdleRequest
    BY <1>4, Ends
  <2>2. tokens' = tokens /\ opened' = opened /\ overlaps' = overlaps
    BY <1>4 DEF CommitUnprovisioned, RollBack, history
  <2>3. Live' \subseteq Live
    BY <1>1, <2>1, <2>2 DEF Live
  <2> QED
    BY <1>0, <1>1, <2>1, <2>2, <2>3, LiveShrinks DEF TokensOwed
<1>5. ASSUME NEW t \in Tokens, Expire(t) PROVE TokensOwed'
  <2>1. request' = request /\ opened' = opened /\ overlaps' = overlaps
    BY <1>5 DEF Expire, history
  <2>2. \A s \in Tokens : tokens'[s] = "valid" => tokens[s] = "valid"
    BY <1>0, <1>5 DEF Expire
  <2>3. Live' \subseteq Live
    BY <1>1, <2>1, <2>2 DEF Live
  <2> QED
    BY <1>0, <1>1, <2>1, <2>3, LiveShrinks DEF TokensOwed
<1>6. CASE UNCHANGED vars
  BY <1>6 DEF vars, history, TokensOwed, Live, First
<1> QED
  BY <1>2, <1>3, <1>4, <1>5, <1>6 DEF Next, Handle, Start

\* There are no more valid refresh tokens than sessions opened, and refreshes
\* that overlapped another use of their token.
THEOREM SessionsBoundedHolds == Spec => []SessionsBounded
<1>1. Init => TokensOwed
  <2> SUFFICES ASSUME Init PROVE TokensOwed
    OBVIOUS
  <2>0. \A h \in Requests : request[h].op # "refresh"
    BY IdleForward DEF Init
  <2>1. \A h \in Requests, t \in Tokens : ~First(h, t)
    BY IdleForward DEF Init, First
  <2>2. Live = {}
    BY <2>1 DEF Init, Live
  <2> QED
    BY <2>0, <2>1, <2>2, FS_EmptySet DEF Init, TokensOwed
<1>2. TypeOK /\ TokensOwed => SessionsBounded
  <2> SUFFICES ASSUME TypeOK, TokensOwed PROVE SessionsBounded
    OBVIOUS
  <2> DEFINE valid == {t \in Tokens : tokens[t] = "valid"}
  <2>1. valid \subseteq Live /\ IsFiniteSet(Live)
    BY DEF Live, TokensOwed
  <2>2. Cardinality(valid) <= Cardinality(Live) /\ IsFiniteSet(valid)
    BY <2>1, FS_Subset
  <2>3. Cardinality(valid) \in Nat /\ Cardinality(Live) \in Nat
    BY <2>1, <2>2, FS_CardinalityType
  <2> QED
    BY <2>2, <2>3 DEF TokensOwed, TypeOK, SessionsBounded
<1> QED
  BY <1>1, <1>2, InvHolds, TokensStep, PTL DEF Spec
=============================================================================
