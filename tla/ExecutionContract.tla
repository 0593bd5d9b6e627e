------------------------- MODULE ExecutionContract -------------------------
(***************************************************************************)
(* What an execution directory promises to whoever reads it (aggregation,  *)
(* a later `pt-bench finalize`): each planned check gets one verdict, once;*)
(* a manifest is published only over a verdict for every check and says    *)
(* what they say; and the only way back is to throw files away.            *)
(***************************************************************************)
CONSTANTS
  Check,   \* the checks of the plan
  Status,  \* result statuses
  Nothing

VARIABLES
  verdict,   \* the final result of each check, or Nothing
  published  \* the statuses the manifest lists, or Nothing

vars == <<verdict, published>>

Init ==
  /\ verdict = [c \in Check |-> Nothing]
  /\ published = Nothing

Settle(c, s) ==
  /\ verdict[c] = Nothing
  /\ verdict' = [verdict EXCEPT ![c] = s]
  /\ UNCHANGED published

Publish ==
  /\ \A c \in Check : verdict[c] # Nothing
  /\ published' = verdict
  /\ UNCHANGED verdict

Discard ==
  \/ /\ \E c \in Check : verdict' = [verdict EXCEPT ![c] = Nothing]
     /\ UNCHANGED published
  \/ /\ published' = Nothing
     /\ UNCHANGED verdict

Next ==
  \/ \E c \in Check, s \in Status : Settle(c, s)
  \/ Publish
  \/ Discard

Spec == Init /\ [][Next]_vars
=============================================================================
