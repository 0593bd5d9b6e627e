---------------------------- MODULE EptEvidence ----------------------------
(***************************************************************************)
(* The verdicts of adapters/ept.py while evidence arrives.  A run holds    *)
(* one gateway state and is asked for one check; each poll may bring one   *)
(* contact more, its own or (a mixed-up answer) another probe's.  What the *)
(* adapter would report now is Result(check, observations); the other      *)
(* checks of a suite are adjudicated on the same evidence.                 *)
(***************************************************************************)
EXTENDS EptAdjudication, FiniteSets

CONSTANTS
  Probe,        \* probe ids a contact may name
  Vector,       \* canary vectors
  Contact,      \* the contacts a gateway may answer with
  GatewayState, \* the states it may report
  MaxContacts   \* bound: contacts of one run

ASSUME EvidenceAssumption ==
  /\ Contact \subseteq [probe : Probe, vector : Vector, channel : Channels,
                        origin : Origins, identifies : BOOLEAN, referrer : Referrers]
  /\ \A s \in GatewayState : s.probe \in Probe
  /\ MaxContacts \in Nat

VARIABLES check, state, open, observations

vars == <<check, state, open, observations>>

Result(c, obs) == adjudicate_check(c, state, obs, open)

TypeOK ==
  /\ check \in Checks
  /\ state \in GatewayState
  /\ open \in BOOLEAN
  /\ observations \in SUBSET Contact

Init ==
  /\ check \in Checks
  /\ state \in GatewayState
  /\ open \in BOOLEAN
  /\ observations = {}

(* A later poll finds one contact more. *)
Arrive(o) ==
  /\ Cardinality(observations) < MaxContacts
  /\ observations' = observations \cup {o}
  /\ UNCHANGED <<check, state, open>>

Next == \E o \in Contact : Arrive(o)

Spec == Init /\ [][Next]_vars

-----------------------------------------------------------------------------
(***************************************************************************)
(* A claim about the client (pass, fail or partial) is made only from a    *)
(* sound measurement: delivery confirmed, every watcher healthy, the open  *)
(* asserted unless the check is about its absence, the Referer captured    *)
(* where its absence counts, and no contact of another probe              *)
(* (ept.py:342, ept.py:548).                                               *)
(***************************************************************************)
ScoredOnlyWhenSound ==
  Result(check, observations).status \in {"pass", "fail", "partial"} =>
    /\ state.delivered_at # Undelivered
    /\ state.watchers_healthy
    /\ open \/ check = "background-fetch"
    /\ check = "referrer-disclosure" => state.referer_captured
    /\ \A o \in observations : o.probe = state.probe

(***************************************************************************)
(* Contacts of a provider, or of nobody in particular, can neither make    *)
(* nor hide a disclosure: a check fails on its evidence exactly when it    *)
(* fails on the client's part of it (ept.py:343, "provider prefetch can    *)
(* never be reported as a client disclosure").                             *)
(***************************************************************************)
OnlyClientsDisclose ==
  (\A o \in observations : o.probe = state.probe) =>
    \/ /\ Result(check, observations).status = "fail"
       /\ Result(check, Client(observations)).status = "fail"
    \/ /\ Result(check, observations).status # "fail"
       /\ Result(check, Client(observations)).status # "fail"

(***************************************************************************)
(* A disclosure stands: no later contact turns it into a clean, partial or *)
(* inconclusive verdict.  Only a contact of another probe can, and that is *)
(* an error.  A poll that has seen one need not wait for more.             *)
(***************************************************************************)
DisclosureStands ==
  [][Result(check, observations).status = "fail" =>
       \/ Result(check, observations').status = "fail"
       \/ /\ Result(check, observations').status = "error"
          /\ Foreign(state, observations') # {}]_vars

(***************************************************************************)
(* The checks of a suite do not contradict each other: when the evidence   *)
(* shows no remote content at all, no narrower check of the same message   *)
(* reports a disclosure from it.                                           *)
(***************************************************************************)
CleanRunAgrees ==
  Result("remote-content", observations).status = "pass" =>
    Result(check, observations).status # "fail"
=============================================================================
