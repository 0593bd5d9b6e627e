--------------------------- MODULE MCPublication ---------------------------
EXTENDS Publication
CONSTANTS a, b, c1

(* Two clients, and the next version of the first. *)
a1 == [id |-> a, version |-> 1]
a2 == [id |-> a, version |-> 2]
b1 == [id |-> b, version |-> 1]
MCSubject == {a1, a2, b1}

(* Two clients; a client repeated; and the next version of a client.       *)
MCRequests ==
  {[subjects |-> {a1, b1}, repetitions |-> 1, mode |-> "github_actions"],
   [subjects |-> {a1}, repetitions |-> 2, mode |-> "local"],
   [subjects |-> {a2}, repetitions |-> 1, mode |-> "github_actions"]}

MCRepeated == {[subjects |-> {a1}, repetitions |-> 2, mode |-> "github_actions"]}

(* A policy that approves everything, and one that has withdrawn a review  *)
(* and no longer requires redaction.                                       *)
MCPolicies ==
  {[active |-> TRUE, target |-> "github_releases", approved |-> {a1, a2, b1},
    redaction_required |-> TRUE],
   [active |-> TRUE, target |-> "github_releases", approved |-> {a1, a2},
    redaction_required |-> FALSE]}
=============================================================================
