--------------------------- MODULE WorkspacesProofs ---------------------------
(***************************************************************************)
(* What overlapping requests on a workspace cannot do, for every number of *)
(* users and of requests at a time.                                        *)
(***************************************************************************)
EXTENDS Workspaces, FiniteSetTheorems, TLAPS

----------------------------------------------------------------------------
(***************************************************************************)
(* The invariant: types, and what an open request still knows of its rows  *)
(***************************************************************************)
Request == [op : {"none", "create", "invite", "role", "remove", "transfer", "delete"},
            user : Users \cup {NoOne}, target : Users \cup {NoOne},
            role : WorkspaceRole \cup {"none"},
            seen : WorkspaceRole \cup {"none"}, own : WorkspaceRole \cup {"none"},
            gone : SUBSET Users]

\* A row that an open request has read is there until a removal tells it so.
Sound(r) ==
  r.op # "none" =>
    /\ r.user \in Users /\ r.target \in Users
    /\ r.op = "invite" => r.role # "none"
    /\ r.op = "role" => r.role # "none"
    /\ r.op \in {"role", "transfer"} => r.target \in r.gone \/ member[r.target] # "none"
    /\ r.op = "transfer" => r.own = "none" \/ r.user \in r.gone \/ member[r.user] # "none"

RequestsSound == \A s \in Sessions : Sound(session[s])

Inv == TypeOK /\ RequestsSound

LEMMA InvMeans ==
  ASSUME Inv
  PROVE  /\ owner \in Users \cup {NoOne}
         /\ active \in BOOLEAN /\ (active => owner # NoOne)
         /\ member \in [Users -> WorkspaceRole \cup {"none"}]
         /\ joined \subseteq Members
         /\ session \in [Sessions -> Request]
         /\ \A s \in Sessions : Sound(session[s])
BY DEF Inv, TypeOK, RequestsSound, Request

LEMMA IdleIsRequest == Idle \in Request /\ Idle.op = "none"
BY DEF Idle, Request

\* The rows that a commit leaves untouched, or adds, keep every request sound.
LEMMA SoundStays ==
  ASSUME NEW r, Sound(r), \A u \in Users : member[u] # "none" => member'[u] # "none"
  PROVE  Sound(r)'
BY DEF Sound

LEMMA CloseKeeps ==
  ASSUME Inv, NEW s \in Sessions, Close(s),
         \A u \in Users : member[u] # "none" => member'[u] # "none"
  PROVE  session' \in [Sessions -> Request] /\ RequestsSound'
<1>1. session' \in [Sessions -> Request]
  BY InvMeans, IdleIsRequest DEF Close
<1>2. ASSUME NEW q \in Sessions PROVE Sound(session[q])'
  <2>1. CASE q = s
    <3>1. session'[q] = Idle
      BY InvMeans, <2>1 DEF Close
    <3> QED BY <3>1, IdleIsRequest DEF Sound
  <2>2. CASE q # s
    <3>1. session'[q] = session[q]
      BY InvMeans, <2>2 DEF Close
    <3> QED BY <3>1, InvMeans, SoundStays DEF Sound
  <2> QED BY <2>1, <2>2
<1> QED BY <1>1, <1>2 DEF RequestsSound

LEMMA OpenKeeps ==
  ASSUME Inv, NEW s \in Sessions, NEW op, NEW u \in Users, NEW t \in Users, NEW r,
         Open(s, op, u, t, r),
         op \in {"create", "invite", "role", "remove", "transfer", "delete"},
         r \in WorkspaceRole \cup {"none"},
         op \in {"invite", "role"} => r # "none",
         op \in {"role", "transfer"} => member[t] # "none"
  PROVE  Inv'
<1> DEFINE new == [op |-> op, user |-> u, target |-> t, role |-> r,
                   seen |-> IF op \in {"role", "transfer"} THEN member[t] ELSE "none",
                   own |-> IF op = "transfer" THEN member[u] ELSE "none", gone |-> {}]
<1>1. new \in Request
  BY InvMeans DEF Request
<1>2. session' = [session EXCEPT ![s] = new] /\ UNCHANGED <<owner, active, member, joined>>
  BY DEF Open
<1>3. session' \in [Sessions -> Request]
  BY InvMeans, <1>1, <1>2
<1>4. Sound(new)
  BY DEF Sound
<1> HIDE DEF new
<1>5. ASSUME NEW q \in Sessions PROVE Sound(session[q])'
  <2>1. session'[q] = new \/ session'[q] = session[q]
    BY InvMeans, <1>2
  <2> QED BY <2>1, <1>2, <1>4, InvMeans DEF Sound
<1>6. TypeOK'
  BY InvMeans, <1>2, <1>3 DEF TypeOK, Members, Request
<1> QED BY <1>5, <1>6 DEF Inv, RequestsSound
----------------------------------------------------------------------------
(***************************************************************************)
(* The commits that change member rows                                     *)
(***************************************************************************)
LEMMA RoleWrites ==
  ASSUME Inv, NEW s \in Sessions, CommitRole(s)
  PROVE  /\ member' \in [Users -> WorkspaceRole \cup {"none"}]
         /\ \A u \in Users : member'[u] # "none" <=> member[u] # "none"
<1> DEFINE r == session[s]
           t == r.target
<1>1. /\ r \in Request /\ r.op = "role" /\ t \in Users /\ r.role # "none"
      /\ t \in r.gone \/ member[t] # "none"
      /\ member \in [Users -> WorkspaceRole \cup {"none"}]
  BY InvMeans DEF Sound, CommitRole
<1>2. member' = IF t \in r.gone \/ r.seen = r.role THEN member ELSE [member EXCEPT ![t] = r.role]
  BY DEF CommitRole
<1> QED BY <1>1, <1>2 DEF Request

LEMMA TransferWrites ==
  ASSUME Inv, NEW s \in Sessions, CommitTransfer(s), ~TransferFails(s)
  PROVE  /\ member' \in [Users -> WorkspaceRole \cup {"none"}]
         /\ Members' = Members \cup Joins(s)
         /\ Joins(s) \cap Members = {}
         /\ Joins(s) \subseteq {session[s].user}
<1> DEFINE r == session[s]
<1>1. /\ r \in Request /\ r.op = "transfer" /\ r.target \in Users /\ r.user \in Users
      /\ r.target \in r.gone \/ member[r.target] # "none"
      /\ r.own = "none" \/ r.user \in r.gone \/ member[r.user] # "none"
  BY InvMeans DEF Sound, CommitTransfer
<1>2. member' = HandedOver(s)
  BY DEF CommitTransfer
<1>3. /\ \A u \in Promoted(s) \cup Demoted(s) : u \in Users /\ member[u] # "none"
      /\ Joins(s) \cap Members = {}
      /\ Joins(s) \subseteq {r.user}
  BY <1>1 DEF TransferFails, Promoted, Demoted, Joins
<1>4. member' \in [Users -> WorkspaceRole \cup {"none"}]
  BY <1>2, InvMeans DEF HandedOver, WorkspaceRole
<1>5. ASSUME NEW u \in Users
      PROVE  member'[u] # "none" <=> member[u] # "none" \/ u \in Joins(s)
  <2>1. member'[u] = IF u \in Promoted(s) THEN "OWNER"
                     ELSE IF u \in Demoted(s) \cup Joins(s) THEN "ADMIN" ELSE member[u]
    BY <1>2 DEF HandedOver
  <2> QED BY <2>1, <1>3
<1>6. Joins(s) \subseteq Users
  BY <1>1, <1>3
<1>7. Members' = Members \cup Joins(s)
  BY <1>5, <1>6 DEF Members
<1> QED BY <1>3, <1>4, <1>7

LEMMA RemoveWrites ==
  ASSUME Inv, NEW s \in Sessions, CommitRemove(s), session[s].target \notin session[s].gone
  PROVE  Inv'
<1> DEFINE t == session[s].target
           After(r) == [session[r] EXCEPT !.gone = @ \cup ({t} \cap {session[r].target, session[r].user})]
<1>1. /\ member' = [member EXCEPT ![t] = "none"] /\ joined' = joined \ {t}
      /\ session' = [r \in Sessions |-> IF r = s THEN Idle ELSE After(r)]
      /\ UNCHANGED <<owner, active>>
  BY DEF CommitRemove
<1>2. t \in Users
  BY InvMeans DEF Sound, CommitRemove
<1>3. ASSUME NEW r \in Sessions
      PROVE  session'[r] \in Request /\ Sound(session[r])'
  <2>1. session[r] \in Request /\ Sound(session[r])
    BY InvMeans
  <2>2. CASE r = s
    BY <1>1, <2>2, IdleIsRequest DEF Sound
  <2>3. CASE r # s
    <3>1. session'[r] = After(r)
      BY <1>1, <2>3
    <3>2. /\ session'[r].op = session[r].op /\ session'[r].user = session[r].user
          /\ session'[r].target = session[r].target /\ session'[r].role = session[r].role
          /\ session'[r].own = session[r].own
          /\ session'[r].gone = session[r].gone \cup ({t} \cap {session[r].target, session[r].user})
      BY <2>1, <3>1 DEF Request
    <3>3. session'[r] \in Request
      BY <1>2, <2>1, <3>1 DEF Request
    <3>4. \A u \in Users : member'[u] # "none" <=> member[u] # "none" /\ u # t
      BY <1>1, InvMeans
    <3>5. Sound(session[r])'
      BY <2>1, <3>2, <3>4 DEF Sound
    <3> QED BY <3>3, <3>5
  <2> QED BY <2>2, <2>3
<1>4. session' \in [Sessions -> Request]
  <2>1. \A r \in Sessions : session'[r] \in Request
    BY <1>3
  <2>2. session' = [r \in Sessions |-> session'[r]]
    BY <1>1
  <2> QED BY <2>1, <2>2
<1>5. joined' \subseteq Members' /\ member' \in [Users -> WorkspaceRole \cup {"none"}]
  BY <1>1, InvMeans DEF Members
<1> QED BY <1>1, <1>3, <1>4, <1>5, InvMeans DEF Inv, TypeOK, RequestsSound, Request

LEMMA InvStep == ASSUME Inv, [Next]_vars PROVE Inv'
<1> USE DEF Inv
<1>1. ASSUME NEW s \in Sessions, Begin(s) PROVE Inv'
  <2>1. ASSUME NEW u \in Users, Create(s, u) PROVE Inv'
    BY <2>1, OpenKeeps DEF Create
  <2>2. ASSUME NEW u \in Users, NEW t \in Users, NEW r \in WorkspaceRole, Invite(s, u, t, r) PROVE Inv'
    BY <2>2, OpenKeeps DEF Invite, WorkspaceRole
  <2>3. ASSUME NEW u \in Users, NEW t \in Users, NEW r \in WorkspaceRole, UpdateRole(s, u, t, r) PROVE Inv'
    BY <2>3, OpenKeeps DEF UpdateRole, WorkspaceRole
  <2>4. ASSUME NEW u \in Users, NEW t \in Users, Remove(s, u, t) PROVE Inv'
    BY <2>4, OpenKeeps DEF Remove
  <2>5. ASSUME NEW u \in Users, NEW t \in Users, Transfer(s, u, t) PROVE Inv'
    BY <2>5, OpenKeeps DEF Transfer, WorkspaceRole
  <2>6. ASSUME NEW u \in Users, Delete(s, u) PROVE Inv'
    BY <2>6, OpenKeeps DEF Delete
  <2> QED BY <1>1, <2>1, <2>2, <2>3, <2>4, <2>5, <2>6 DEF Begin
<1>2. ASSUME NEW s \in Sessions, CommitCreate(s) PROVE Inv'
  <2>1. session[s].user \in Users /\ session[s].user # NoOne
    BY <1>2, InvMeans, WorkspacesAssumption DEF CommitCreate, Sound
  <2>2. member' = member /\ joined' = joined /\ Close(s)
    BY <1>2 DEF CommitCreate
  <2>3. session' \in [Sessions -> Request] /\ RequestsSound'
    BY <2>2, CloseKeeps
  <2>4. owner' \in Users \cup {NoOne} /\ active' \in BOOLEAN /\ (active' => owner' # NoOne)
    BY <1>2, <2>1, InvMeans DEF CommitCreate
  <2> QED BY <2>2, <2>3, <2>4, InvMeans DEF TypeOK, Request, Members
<1>3. ASSUME NEW s \in Sessions, CommitInvite(s) PROVE Inv'
  <2> DEFINE r == session[s]
  <2>1. r \in Request /\ r.target \in Users /\ r.role # "none"
    BY <1>3, InvMeans DEF CommitInvite, Sound
  <2>2. /\ member' = IF member[r.target] = "none" THEN [member EXCEPT ![r.target] = r.role] ELSE member
        /\ Close(s) /\ UNCHANGED <<owner, active, joined>>
    BY <1>3 DEF CommitInvite
  <2>3. /\ member' \in [Users -> WorkspaceRole \cup {"none"}]
        /\ \A u \in Users : member[u] # "none" => member'[u] # "none"
    BY <2>1, <2>2, InvMeans DEF Request
  <2>4. session' \in [Sessions -> Request] /\ RequestsSound'
    BY <2>2, <2>3, CloseKeeps
  <2>5. joined' \subseteq Members'
    BY <2>2, <2>3, InvMeans DEF Members
  <2> QED BY <2>2, <2>3, <2>4, <2>5, InvMeans DEF TypeOK, Request
<1>4. ASSUME NEW s \in Sessions, CommitRole(s) PROVE Inv'
  <2>1. Close(s) /\ UNCHANGED <<owner, active, joined>>
    BY <1>4 DEF CommitRole
  <2>2. session' \in [Sessions -> Request] /\ RequestsSound'
    BY <1>4, <2>1, RoleWrites, CloseKeeps
  <2>3. joined' \subseteq Members'
    BY <1>4, <2>1, RoleWrites, InvMeans DEF Members
  <2> QED BY <1>4, <2>1, <2>2, <2>3, RoleWrites, InvMeans DEF TypeOK, Request
<1>5. ASSUME NEW s \in Sessions, CommitRemove(s) PROVE Inv'
  <2>1. CASE session[s].target \in session[s].gone
    <3>1. Close(s) /\ UNCHANGED <<owner, active, member, joined>>
      BY <1>5, <2>1 DEF CommitRemove
    <3>2. session' \in [Sessions -> Request] /\ RequestsSound'
      BY <3>1, CloseKeeps
    <3> QED BY <3>1, <3>2, InvMeans DEF TypeOK, Request, Members
  <2>2. CASE session[s].target \notin session[s].gone
    BY <1>5, <2>2, RemoveWrites
  <2> QED BY <2>1, <2>2
<1>6. ASSUME NEW s \in Sessions, CommitTransfer(s) PROVE Inv'
  <2>0. Close(s) /\ active' = active
    BY <1>6 DEF CommitTransfer
  <2>1. CASE TransferFails(s)
    <3>1. UNCHANGED <<owner, member, joined>>
      BY <1>6, <2>1 DEF CommitTransfer
    <3>2. session' \in [Sessions -> Request] /\ RequestsSound'
      BY <2>0, <3>1, CloseKeeps
    <3> QED BY <2>0, <3>1, <3>2, InvMeans DEF TypeOK, Request, Members
  <2>2. CASE ~TransferFails(s)
    <3>1. owner' = session[s].target /\ joined' = joined \cup Joins(s)
      BY <1>6, <2>2 DEF CommitTransfer
    <3>2. owner' \in Users /\ owner' # NoOne
      BY <1>6, <3>1, InvMeans, WorkspacesAssumption DEF CommitTransfer, Sound
    <3>3. joined' \subseteq Members' /\ member' \in [Users -> WorkspaceRole \cup {"none"}]
      BY <1>6, <2>2, <3>1, TransferWrites, InvMeans
    <3>4. \A u \in Users : member[u] # "none" => member'[u] # "none"
      BY <1>6, <2>2, TransferWrites DEF Members
    <3>5. session' \in [Sessions -> Request] /\ RequestsSound'
      BY <2>0, <3>4, CloseKeeps
    <3> QED BY <2>0, <3>2, <3>3, <3>5, InvMeans DEF TypeOK, Request
  <2> QED BY <2>1, <2>2
<1>7. ASSUME NEW s \in Sessions, CommitDelete(s) PROVE Inv'
  <2>1. active' = FALSE /\ Close(s) /\ UNCHANGED <<owner, member, joined>>
    BY <1>7 DEF CommitDelete
  <2>2. session' \in [Sessions -> Request] /\ RequestsSound'
    BY <2>1, CloseKeeps
  <2> QED BY <2>1, <2>2, InvMeans DEF TypeOK, Request, Members
<1>8. CASE UNCHANGED vars
  BY <1>8 DEF vars, TypeOK, RequestsSound, Sound, Members
<1> QED BY <1>1, <1>2, <1>3, <1>4, <1>5, <1>6, <1>7, <1>8 DEF Next, Commit

THEOREM InvHolds == Spec => []Inv
<1>1. Init => Inv
  <2> SUFFICES ASSUME Init PROVE Inv
    OBVIOUS
  <2>1. session \in [Sessions -> Request] /\ \A s \in Sessions : session[s].op = "none"
    BY IdleIsRequest DEF Init
  <2>2. member \in [Users -> WorkspaceRole \cup {"none"}] /\ joined \subseteq Members
    BY DEF Init
  <2>3. owner = NoOne /\ active = FALSE
    BY DEF Init
  <2> QED BY <2>1, <2>2, <2>3 DEF Inv, TypeOK, RequestsSound, Sound, Request
<1> QED BY <1>1, InvStep, PTL DEF Spec

\* Every variable keeps its type, and an active workspace an owner.
THEOREM TypeCorrect == Spec => []TypeOK
BY InvHolds, PTL DEF Inv
----------------------------------------------------------------------------
(***************************************************************************)
(* Out is out                                                              *)
(***************************************************************************)
LEMMA RowsComeBack ==
  ASSUME Inv, [Next]_vars, NEW u \in Users, member[u] = "none", member'[u] # "none"
  PROVE  \E s \in Sessions :
           \/ session[s].op = "invite" /\ session[s].target = u
           \/ session[s].op = "transfer" /\ session[s].user = u
<1>1. ASSUME UNCHANGED member PROVE FALSE
  BY <1>1
<1>2. ASSUME NEW s \in Sessions, CommitInvite(s)
      PROVE  session[s].op = "invite" /\ session[s].target = u
  BY <1>2, InvMeans DEF CommitInvite
<1>3. ASSUME NEW s \in Sessions, CommitRole(s) PROVE FALSE
  BY <1>3, RoleWrites
<1>4. ASSUME NEW s \in Sessions, CommitRemove(s) PROVE FALSE
  <2>1. CASE session[s].target \in session[s].gone
    BY <1>1, <1>4, <2>1 DEF CommitRemove
  <2>2. CASE session[s].target \notin session[s].gone
    <3>1. member' = [member EXCEPT ![session[s].target] = "none"]
      BY <1>4, <2>2 DEF CommitRemove
    <3> QED BY <3>1, InvMeans
  <2> QED BY <2>1, <2>2
<1>5. ASSUME NEW s \in Sessions, CommitTransfer(s)
      PROVE  session[s].op = "transfer" /\ session[s].user = u
  <2>1. CASE TransferFails(s)
    BY <1>1, <1>5, <2>1 DEF CommitTransfer
  <2>2. CASE ~TransferFails(s)
    <3>1. u \in Members' /\ u \notin Members
      BY DEF Members
    <3>2. u \in Joins(s)
      BY <1>5, <2>2, <3>1, TransferWrites
    <3> QED BY <1>5, <2>2, <3>2, TransferWrites DEF CommitTransfer
  <2> QED BY <2>1, <2>2
<1>6. ASSUME NEW s \in Sessions, Begin(s) PROVE FALSE
  BY <1>1, <1>6 DEF Begin, Create, Invite, UpdateRole, Remove, Transfer, Delete, Open
<1>7. ASSUME NEW s \in Sessions, CommitCreate(s) \/ CommitDelete(s) PROVE FALSE
  BY <1>1, <1>7 DEF CommitCreate, CommitDelete
<1>8. CASE UNCHANGED vars
  BY <1>1, <1>8 DEF vars
<1> QED BY <1>2, <1>3, <1>4, <1>5, <1>6, <1>7, <1>8 DEF Next, Commit

\* No request that has read a workspace before it was deleted brings it back.
LEMMA StaysDeleted ==
  ASSUME [Next]_vars, owner # NoOne, active' PROVE active
<1>1. ASSUME UNCHANGED active PROVE active
  BY <1>1
<1>2. ASSUME NEW s \in Sessions, Begin(s) PROVE active
  BY <1>1, <1>2 DEF Begin, Create, Invite, UpdateRole, Remove, Transfer, Delete, Open
<1>3. ASSUME NEW s \in Sessions, Commit(s) PROVE active
  BY <1>1, <1>3 DEF Commit, CommitCreate, SlugFree, CommitInvite, CommitRole,
                    CommitRemove, CommitTransfer, CommitDelete
<1> QED BY <1>1, <1>2, <1>3 DEF Next, vars

\* A removed member stays out until invited again, or giving the workspace away;
\* a deleted workspace stays deleted.
THEOREM RemovalsLastHolds == Spec => RemovalsLast
<1> DEFINE ComesBack(u) == member[u] = "none" /\ member'[u] # "none" =>
                             \E s \in Sessions :
                                \/ session[s].op = "invite" /\ session[s].target = u
                                \/ session[s].op = "transfer" /\ session[s].user = u
           Restored == owner # NoOne /\ ~active => ~active'
<1>1. Inv /\ [Next]_vars => [(\A u \in Users : ComesBack(u)) /\ Restored]_vars
  BY RowsComeBack, StaysDeleted
<1> QED BY <1>1, InvHolds, PTL DEF Spec, RemovalsLast

----------------------------------------------------------------------------
(***************************************************************************)
(* The limit of members                                                    *)
(***************************************************************************)
LEMMA Finite ==
  ASSUME Inv
  PROVE  /\ IsFiniteSet(Members \ joined) /\ IsFiniteSet(Inviting) /\ IsFiniteSet(Members)
         /\ Cardinality(Members \ joined) \in Nat /\ Cardinality(Inviting) \in Nat
         /\ Cardinality(Members \ joined) <= Cardinality(Members) /\ Cardinality(Members) \in Nat
         /\ Cardinality(Inviting) <= Cardinality(Sessions) /\ Cardinality(Sessions) \in Nat
<1>1. IsFiniteSet(Members)
  BY WorkspacesAssumption, FS_Subset DEF Members
<1>2. IsFiniteSet(Inviting) /\ Cardinality(Inviting) <= Cardinality(Sessions)
  BY WorkspacesAssumption, FS_Subset DEF Inviting
<1>3. IsFiniteSet(Members \ joined) /\ Cardinality(Members \ joined) <= Cardinality(Members)
  BY <1>1, FS_Subset
<1> QED BY <1>1, <1>2, <1>3, FS_CardinalityType, WorkspacesAssumption

\* A step after which the set of members outside joined, and the requests that
\* invite, are among those of before.
LEMMA Shrinks ==
  ASSUME Inv, InvitesBounded,
         (Members \ joined)' \subseteq Members \ joined, Inviting' \subseteq Inviting
  PROVE  InvitesBounded'
<1>1. Cardinality((Members \ joined)') <= Cardinality(Members \ joined)
  BY Finite, FS_Subset
<1>2. Cardinality(Inviting') <= Cardinality(Inviting)
  BY Finite, FS_Subset
<1>3. /\ Cardinality((Members \ joined)') \in Nat /\ Cardinality(Inviting') \in Nat
      /\ Cardinality(Members \ joined) \in Nat /\ Cardinality(Inviting) \in Nat
      /\ Cardinality(Sessions) \in Nat
  <2>1. IsFiniteSet(Members \ joined) /\ IsFiniteSet(Inviting)
    BY Finite
  <2>2. IsFiniteSet((Members \ joined)') /\ IsFiniteSet(Inviting')
    BY <2>1, FS_Subset
  <2> QED BY <2>1, <2>2, Finite, FS_CardinalityType
<1>4. Cardinality((Members \ joined)') + Cardinality(Inviting') <= MaxMembers + Cardinality(Sessions) - 1
  BY <1>1, <1>2, <1>3, WorkspacesAssumption DEF InvitesBounded
<1> QED BY <1>4 DEF InvitesBounded
\* A request that has not ended yet invites, or not, as before.
LEMMA InvitingFew ==
  ASSUME Inv, NEW s \in Sessions, NEW r, session' = [session EXCEPT ![s] = r], r.op # "invite"
  PROVE  Inviting' = Inviting \ {s}
<1>1. \A q \in Sessions : session'[q] = IF q = s THEN r ELSE session[q]
  BY InvMeans
<1> QED BY <1>1 DEF Inviting

LEMMA InviteCounts ==
  ASSUME Inv, Inv', NEW s \in Sessions, NEW u \in Users, NEW t \in Users,
         NEW r \in WorkspaceRole, Invite(s, u, t, r)
  PROVE  InvitesBounded'
<1>1. Cardinality(Members) < MaxMembers /\ UNCHANGED <<member, joined>>
  BY DEF Invite, Open
<1>2. (Members \ joined)' = Members \ joined
  BY <1>1 DEF Members
<1>3. Inviting' \subseteq Sessions
  BY DEF Inviting
<1>4. IsFiniteSet(Inviting') /\ Cardinality(Inviting') <= Cardinality(Sessions)
  BY <1>3, FS_Subset, WorkspacesAssumption
<1>5. Cardinality(Inviting') \in Nat
  BY <1>4, FS_CardinalityType
<1>6. Cardinality((Members \ joined)') <= MaxMembers - 1
  BY <1>1, <1>2, Finite, WorkspacesAssumption
<1>7. Cardinality((Members \ joined)') \in Nat /\ Cardinality(Sessions) \in Nat
  BY <1>2, Finite
<1>8. Cardinality((Members \ joined)') + Cardinality(Inviting') <= MaxMembers + Cardinality(Sessions) - 1
  BY <1>4, <1>5, <1>6, <1>7, WorkspacesAssumption
<1> QED BY <1>8 DEF InvitesBounded

LEMMA OneMore ==
  ASSUME NEW S, IsFiniteSet(S), NEW x
  PROVE  IsFiniteSet(S \cup {x}) /\ Cardinality(S \cup {x}) <= Cardinality(S) + 1
<1>1. /\ IsFiniteSet(S \cup {x})
      /\ Cardinality(S \cup {x}) = IF x \in S THEN Cardinality(S) ELSE Cardinality(S) + 1
  BY FS_AddElement
<1>2. Cardinality(S) \in Nat
  BY FS_CardinalityType
<1> QED BY <1>1, <1>2

LEMMA CommitInviteCounts ==
  ASSUME Inv, InvitesBounded, NEW s \in Sessions, CommitInvite(s)
  PROVE  InvitesBounded'
<1> DEFINE t == session[s].target
           Before == Members \ joined
<1>1. /\ member' = IF member[t] = "none" THEN [member EXCEPT ![t] = session[s].role] ELSE member
      /\ joined' = joined /\ s \in Inviting /\ session' = [session EXCEPT ![s] = Idle]
  BY DEF CommitInvite, Close, Inviting
<1>2. Inviting' = Inviting \ {s}
  BY <1>1, InvitingFew, IdleIsRequest
<1>3. (Members \ joined)' \subseteq Before \cup {t}
  BY <1>1, InvMeans DEF Members
<1>4. IsFiniteSet(Before) /\ IsFiniteSet(Inviting) /\ Cardinality(Before) \in Nat
      /\ Cardinality(Inviting) \in Nat /\ Cardinality(Sessions) \in Nat
  BY Finite
<1>5. Cardinality(Inviting') = Cardinality(Inviting) - 1
  BY <1>1, <1>2, <1>4, FS_RemoveElement
<1>6. IsFiniteSet(Before \cup {t}) /\ Cardinality(Before \cup {t}) <= Cardinality(Before) + 1
  BY <1>4, OneMore
<1>7. /\ Cardinality((Members \ joined)') <= Cardinality(Before \cup {t})
      /\ IsFiniteSet((Members \ joined)')
  BY <1>3, <1>6, FS_Subset
<1>8. Cardinality((Members \ joined)') \in Nat /\ Cardinality(Before \cup {t}) \in Nat
  BY <1>6, <1>7, FS_CardinalityType
<1>9. Cardinality(Before) + Cardinality(Inviting) <= MaxMembers + Cardinality(Sessions) - 1
  BY DEF InvitesBounded
<1> HIDE DEF Before
<1>10. Cardinality((Members \ joined)') + Cardinality(Inviting') <= MaxMembers + Cardinality(Sessions) - 1
  BY <1>4, <1>5, <1>6, <1>7, <1>8, <1>9, WorkspacesAssumption
<1> QED BY <1>10 DEF InvitesBounded

LEMMA StepBounded == ASSUME Inv, Inv', InvitesBounded, [Next]_vars PROVE InvitesBounded'
<1>0. ASSUME NEW s \in Sessions, Close(s) PROVE Inviting' \subseteq Inviting
  BY <1>0, InvitingFew, IdleIsRequest DEF Close
<1>1. ASSUME UNCHANGED <<member, joined>>, Inviting' \subseteq Inviting PROVE InvitesBounded'
  <2>1. (Members \ joined)' = Members \ joined
    BY <1>1 DEF Members
  <2> QED BY <1>1, <2>1, Shrinks
<1>2. ASSUME NEW s \in Sessions, NEW op, op # "invite",
             NEW u, NEW t, NEW r, Open(s, op, u, t, r)
      PROVE  InvitesBounded'
  <2> DEFINE new == [op |-> op, user |-> u, target |-> t, role |-> r,
                     seen |-> IF op \in {"role", "transfer"} THEN member[t] ELSE "none",
                     own |-> IF op = "transfer" THEN member[u] ELSE "none", gone |-> {}]
  <2>1. session' = [session EXCEPT ![s] = new] /\ UNCHANGED <<member, joined>>
    BY <1>2 DEF Open
  <2>2. new.op # "invite"
    BY <1>2
  <2> HIDE DEF new
  <2>3. Inviting' = Inviting \ {s}
    BY <2>1, <2>2, InvitingFew
  <2> QED BY <1>1, <2>1, <2>3
<1>3. ASSUME NEW s \in Sessions, Begin(s) PROVE InvitesBounded'
  BY <1>2, <1>3, InviteCounts DEF Begin, Create, UpdateRole, Remove, Transfer, Delete
<1>4. ASSUME NEW s \in Sessions, CommitCreate(s) \/ CommitDelete(s) PROVE InvitesBounded'
  BY <1>0, <1>1, <1>4 DEF CommitCreate, CommitDelete
<1>5. ASSUME NEW s \in Sessions, CommitRole(s) PROVE InvitesBounded'
  <2>1. (Members \ joined)' = Members \ joined
    BY <1>5, RoleWrites DEF CommitRole, Members
  <2> QED BY <1>0, <1>5, <2>1, Shrinks DEF CommitRole
<1>6. ASSUME NEW s \in Sessions, CommitRemove(s) PROVE InvitesBounded'
  <2> DEFINE t == session[s].target
  <2>1. CASE t \in session[s].gone
    BY <1>0, <1>1, <1>6, <2>1 DEF CommitRemove
  <2>2. CASE t \notin session[s].gone
    <3>1. /\ member' = [member EXCEPT ![t] = "none"] /\ joined' = joined \ {t}
          /\ session' = [r \in Sessions |->
               IF r = s THEN Idle
               ELSE [session[r] EXCEPT !.gone = @ \cup ({t} \cap {session[r].target, session[r].user})]]
      BY <1>6, <2>2 DEF CommitRemove
    <3>2. (Members \ joined)' \subseteq Members \ joined
      BY <3>1, InvMeans DEF Members
    <3>3. ASSUME NEW r \in Sessions, session'[r].op = "invite" PROVE session[r].op = "invite"
      BY <3>1, <3>3, IdleIsRequest, InvMeans DEF Request
    <3>4. Inviting' \subseteq Inviting
      BY <3>3 DEF Inviting
    <3> QED BY <3>2, <3>4, Shrinks
  <2> QED BY <2>1, <2>2
<1>7. ASSUME NEW s \in Sessions, CommitTransfer(s) PROVE InvitesBounded'
  <2>0. Close(s)
    BY <1>7 DEF CommitTransfer
  <2>1. CASE TransferFails(s)
    BY <1>0, <1>1, <1>7, <2>0, <2>1 DEF CommitTransfer
  <2>2. CASE ~TransferFails(s)
    <3>1. Members' = Members \cup Joins(s) /\ joined' = joined \cup Joins(s)
      BY <1>7, <2>2, TransferWrites DEF CommitTransfer
    <3>2. (Members \ joined)' \subseteq Members \ joined
      BY <3>1
    <3> QED BY <1>0, <2>0, <3>2, Shrinks
  <2> QED BY <2>1, <2>2
<1>8. CASE UNCHANGED vars
  BY <1>1, <1>8 DEF vars, Inviting
<1> QED BY <1>3, <1>4, <1>5, <1>6, <1>7, <1>8, CommitInviteCounts DEF Next, Commit

\* Invitations that overlap exceed the limit of the plan by no more than there
\* are requests at a time, less one.
THEOREM InvitesBoundedHolds == Spec => []InvitesBounded
<1>1. Init => InvitesBounded
  <2> SUFFICES ASSUME Init PROVE InvitesBounded
    OBVIOUS
  <2>1. Members \ joined = {} /\ Inviting = {}
    BY IdleIsRequest DEF Init, Members, Inviting
  <2>2. Cardinality(Sessions) \in Nat /\ Cardinality(Sessions) # 0
    BY WorkspacesAssumption, FS_CardinalityType, FS_EmptySet
  <2>3. Cardinality(Members \ joined) = 0 /\ Cardinality(Inviting) = 0
    BY <2>1, FS_EmptySet
  <2> QED BY <2>2, <2>3, WorkspacesAssumption DEF InvitesBounded
<1>2. Inv /\ Inv' /\ InvitesBounded /\ [Next]_vars => InvitesBounded'
  BY StepBounded
<1> QED BY <1>1, <1>2, InvHolds, PTL DEF Spec
=============================================================================
