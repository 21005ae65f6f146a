---------------------------- MODULE Publication ----------------------------
(***************************************************************************)
(* What scheduler and publisher promise about the posts of the schedule: a *)
(* post carries the content it was scheduled with, once and for all; users *)
(* put it on the schedule or take it off; every other change of it is an   *)
(* attempt, which adds one entry to its log and counts no more attempts    *)
(* than the log has; and no step changes two posts.                        *)
(*                                                                         *)
(* ContentLifecycle, where a handler commits before the next one begins,   *)
(* implements it with PUBLISHED as a status that no post leaves;           *)
(* PublishPipeline, where transactions overlap, without one.               *)
(***************************************************************************)
EXTENDS Naturals

CONSTANTS Posts,
          Settled,       \* statuses that a post does not leave any more
          MaxRetries

VARIABLES
  posts,     \* status, content and attempts of each post
  logged     \* entries of its log, by outcome

vars == <<posts, logged>>

Init ==
  /\ posts = [p \in Posts |-> [status |-> "NONE", content |-> 0, attempts |-> 0]]
  /\ logged = [p \in Posts |-> [ok |-> 0, failed |-> 0]]

Open(p)    == posts[p].status \notin {"NONE"} \cup Settled
Entries(p) == logged[p].ok + logged[p].failed

Schedule(p) ==
  LET content == posts'[p].content IN
    /\ posts[p].status = "NONE"
    /\ content # 0
    /\ UNCHANGED logged
    /\ posts' = [posts EXCEPT ![p] =
                   [status |-> "SCHEDULED", content |-> content, attempts |-> 0]]

\* A user reschedules the post or takes it off the schedule.
Move(p) ==
  LET status == posts'[p].status IN
    /\ Open(p)
    /\ status \in {"SCHEDULED", "UNSCHEDULED"} \ {posts[p].status}
    /\ UNCHANGED logged
    /\ posts' = [posts EXCEPT ![p].status = status]

Attempt(p, status) ==
  /\ Open(p)
  /\ \E attempts \in 1 .. Entries(p) + 1 :
       /\ status = "SCHEDULED" => attempts < MaxRetries
       /\ posts' = [posts EXCEPT ![p].status = status, ![p].attempts = attempts]

Succeed(p) ==
  /\ logged' = [logged EXCEPT ![p].ok = @ + 1]
  /\ Attempt(p, "PUBLISHED")

\* The post stays on the schedule while it has retries left.
Fail(p) ==
  /\ logged' = [logged EXCEPT ![p].failed = @ + 1]
  /\ Attempt(p, "SCHEDULED") \/ Attempt(p, "FAILED")

Next == \E p \in Posts : Schedule(p) \/ Move(p) \/ Succeed(p) \/ Fail(p)

Spec == Init /\ [][Next]_vars
=============================================================================
