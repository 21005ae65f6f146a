------------------------------ MODULE Workspaces ------------------------------
(***************************************************************************)
(* One workspace, known by its slug: its owner_id, its member rows, and    *)
(* the requests that create it, change its members, hand it over and       *)
(* delete it, when they overlap.                                           *)
(*                                                                         *)
(* A request resolves the role of its user and reads its rows in one step, *)
(* and commits in another.  What it commits are the columns it changes:    *)
(* the UPDATE of a row that was deleted since fails, and so does an INSERT *)
(* that meets a UNIQUE constraint; the whole request is rolled back then.  *)
(* The DELETE of a row that is gone is only warned about.                  *)
(***************************************************************************)
EXTENDS Naturals, FiniteSets

CONSTANTS Users, NoOne,
          Sessions,      \* requests that are served at a time
          MaxMembers     \* members that the largest of the plans involved allows

ASSUME WorkspacesAssumption ==
  /\ NoOne \notin Users
  /\ IsFiniteSet(Users)
  /\ IsFiniteSet(Sessions) /\ Sessions # {}
  /\ MaxMembers \in Nat

VARIABLES
  owner,      \* owner_id, NoOne before the workspace is created
  active,     \* is_active
  member,     \* role of each user's member row, "none" without one
  joined,     \* history: the users whose row a transfer has inserted
  session     \* the requests

vars == <<owner, active, member, joined, session>>

\* CREATOR stands for REVIEWER and VIEWER too: below ADMIN, the requests of
\* this module treat them alike.
WorkspaceRole == {"CREATOR", "ADMIN", "OWNER"}

\* Of a request: seen and own are the roles it has read, of its target and, for a
\* transfer, of its user; gone are those of the two whose row was deleted since.
Idle == [op |-> "none", user |-> NoOne, target |-> NoOne, role |-> "none",
         seen |-> "none", own |-> "none", gone |-> {}]

Init ==
  /\ owner = NoOne
  /\ active = FALSE
  /\ member = [u \in Users |-> "none"]
  /\ joined = {}
  /\ session = [s \in Sessions |-> Idle]

----------------------------------------------------------------------------
(***************************************************************************)
(* Reads                                                                   *)
(***************************************************************************)
Members == {u \in Users : member[u] # "none"}

\* _resolve_workspace: owner_id comes before the member row.
Resolve(u) == IF u = owner THEN "OWNER" ELSE member[u]

IsAdmin(u) == active /\ Resolve(u) \in {"ADMIN", "OWNER"}
IsOwner(u) == active /\ u = owner

\* Request s of user u has read what it needs.
Open(s, op, u, t, r) ==
  /\ session[s].op = "none"
  /\ session' = [session EXCEPT ![s] =
       [op |-> op, user |-> u, target |-> t, role |-> r,
        seen |-> IF op \in {"role", "transfer"} THEN member[t] ELSE "none",
        own |-> IF op = "transfer" THEN member[u] ELSE "none", gone |-> {}]]
  /\ UNCHANGED <<owner, active, member, joined>>

\* The slug is free; how many workspaces the user has is left to the plan.
Create(s, u) == owner = NoOne /\ Open(s, "create", u, u, "none")

\* Fault: the limit of the plan is not checked.
Invite_Unlimited(s, u, t, r) ==
  /\ IsAdmin(u)
  /\ member[t] = "none"
  /\ Open(s, "invite", u, t, r)

Invite(s, u, t, r) ==
  /\ IsAdmin(u)
  /\ Cardinality(Members) < MaxMembers
  /\ member[t] = "none"
  /\ Open(s, "invite", u, t, r)

UpdateRole(s, u, t, r) ==
  /\ IsAdmin(u)
  /\ member[t] # "none"
  /\ r # "OWNER"
  /\ Open(s, "role", u, t, r)

Remove(s, u, t) ==
  /\ IsAdmin(u)
  /\ t # u
  /\ member[t] # "none"
  /\ Open(s, "remove", u, t, "none")

Transfer(s, u, t) ==
  /\ IsOwner(u)
  /\ member[t] # "none"
  /\ Open(s, "transfer", u, t, "OWNER")

Delete(s, u) == IsOwner(u) /\ Open(s, "delete", u, u, "none")

----------------------------------------------------------------------------
(***************************************************************************)
(* Commits                                                                 *)
(***************************************************************************)
Close(s) == session' = [session EXCEPT ![s] = Idle]

\* slug is unique, whether its workspace is active or deleted.
SlugFree == owner = NoOne

CommitCreate(s) ==
  /\ session[s].op = "create"
  /\ IF SlugFree
       THEN owner' = session[s].user /\ active' = TRUE
       ELSE UNCHANGED <<owner, active>>
  /\ Close(s)
  /\ UNCHANGED <<member, joined>>

CommitInvite(s) ==
  LET t == session[s].target IN
  /\ session[s].op = "invite"
  /\ member' = IF member[t] = "none" THEN [member EXCEPT ![t] = session[s].role] ELSE member
  /\ Close(s)
  /\ UNCHANGED <<owner, active, joined>>

\* Fault: the role of a member that was removed is written all the same.
CommitRole_Upsert(s) ==
  /\ session[s].op = "role"
  /\ member' = [member EXCEPT ![session[s].target] = session[s].role]
  /\ Close(s)
  /\ UNCHANGED <<owner, active, joined>>

CommitRole(s) ==
  LET t == session[s].target IN
  /\ session[s].op = "role"
  /\ member' = IF t \in session[s].gone \/ session[s].seen = session[s].role
               THEN member
               ELSE [member EXCEPT ![t] = session[s].role]
  /\ Close(s)
  /\ UNCHANGED <<owner, active, joined>>

\* The row goes, for every request that has read it too.
CommitRemove(s) ==
  LET t == session[s].target IN
  /\ session[s].op = "remove"
  /\ IF t \in session[s].gone
       THEN Close(s) /\ UNCHANGED <<member, joined>>
       ELSE /\ member' = [member EXCEPT ![t] = "none"]
            /\ joined' = joined \ {t}
            /\ session' = [r \in Sessions |->
                 IF r = s THEN Idle
                 ELSE [session[r] EXCEPT !.gone =
                         @ \cup ({t} \cap {session[r].target, session[r].user})]]
  /\ UNCHANGED <<owner, active>>

\* The rows of members that a transfer updates: its target becomes OWNER, its
\* user ADMIN, where they are not that already.
Promoted(s) == {u \in {session[s].target} \ {session[s].user} : session[s].seen # "OWNER"}
Demoted(s)  == {u \in {session[s].user} : session[s].own \notin {"none", "ADMIN"}}

\* The user who has no row yet gets one.
Joins(s) == {u \in {session[s].user} : session[s].own = "none"}

TransferFails(s) ==
  \/ (Promoted(s) \cup Demoted(s)) \cap session[s].gone # {}
  \/ Joins(s) \cap Members # {}

HandedOver(s) ==
  [u \in Users |-> IF u \in Promoted(s) THEN "OWNER"
                   ELSE IF u \in Demoted(s) \cup Joins(s) THEN "ADMIN" ELSE member[u]]

CommitTransfer(s) ==
  /\ session[s].op = "transfer"
  /\ IF TransferFails(s)
       THEN UNCHANGED <<owner, member, joined>>
       ELSE /\ owner' = session[s].target
            /\ member' = HandedOver(s)
            /\ joined' = joined \cup Joins(s)
  /\ Close(s)
  /\ UNCHANGED active

\* Fault: the workspace loses its owner, and stays active.
CommitDelete_Ownerless(s) ==
  /\ session[s].op = "delete"
  /\ owner' = NoOne
  /\ Close(s)
  /\ UNCHANGED <<active, member, joined>>

CommitDelete(s) ==
  /\ session[s].op = "delete"
  /\ active' = FALSE
  /\ Close(s)
  /\ UNCHANGED <<owner, member, joined>>

----------------------------------------------------------------------------
Begin(s) ==
  \E u \in Users :
     \/ Create(s, u)
     \/ \E t \in Users, r \in WorkspaceRole : Invite(s, u, t, r)
     \/ \E t \in Users, r \in WorkspaceRole : UpdateRole(s, u, t, r)
     \/ \E t \in Users : Remove(s, u, t)
     \/ \E t \in Users : Transfer(s, u, t)
     \/ Delete(s, u)

Commit(s) ==
  \/ CommitCreate(s)
  \/ CommitInvite(s)
  \/ CommitRole(s)
  \/ CommitRemove(s)
  \/ CommitTransfer(s)
  \/ CommitDelete(s)

Next == \E s \in Sessions : Begin(s) \/ Commit(s)

Spec == Init /\ [][Next]_vars

----------------------------------------------------------------------------
(***************************************************************************)
(* Properties                                                              *)
(***************************************************************************)
\* Every variable keeps its type, and an active workspace has an owner
\* (models/content.py: Workspace, WorkspaceMember).
TypeOK ==
  /\ owner \in Users \cup {NoOne}
  /\ active \in BOOLEAN /\ (active => owner # NoOne)
  /\ member \in [Users -> WorkspaceRole \cup {"none"}]
  /\ joined \subseteq Members
  /\ session \in [Sessions ->
       [op : {"none", "create", "invite", "role", "remove", "transfer", "delete"},
        user : Users \cup {NoOne}, target : Users \cup {NoOne},
        role : WorkspaceRole \cup {"none"},
        seen : WorkspaceRole \cup {"none"}, own : WorkspaceRole \cup {"none"},
        gone : SUBSET Users]]

Inviting == {s \in Sessions : session[s].op = "invite"}

\* The plan's limit is counted before the INSERT, so invitations that overlap
\* exceed it, by as many as are open but one and no more, whatever else happens
\* in between; only a transfer adds a member without any limit (invite_member).
InvitesBounded ==
  Cardinality(Members \ joined) + Cardinality(Inviting)
     <= MaxMembers + Cardinality(Sessions) - 1

\* Whoever is removed stays out until invited again: no change of role that was
\* under way brings the row back, and a transfer only that of the user who gives
\* the workspace away (remove_member, update_member_role).  And a workspace that
\* was deleted is never active again: requests that have read it before may still
\* commit a change of its members and its owner, not of is_active
\* (delete_workspace).
RemovalsLast ==
  [][/\ \A u \in Users : member[u] = "none" /\ member'[u] # "none" =>
          \E s \in Sessions :
             \/ session[s].op = "invite" /\ session[s].target = u
             \/ session[s].op = "transfer" /\ session[s].user = u
     /\ owner # NoOne /\ ~active => ~active']_vars
=============================================================================
