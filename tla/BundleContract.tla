--------------------------- MODULE BundleContract ---------------------------
(***************************************************************************)
(* What aggregation promises to whoever reads a run bundle (roll-up,       *)
(* report, publication).  A bundle is made in one step, out of all the     *)
(* executions that have a manifest: none of those is dropped, altered or   *)
(* counted twice, each is a sealed execution of the bundle's plan, and the *)
(* bundle is complete exactly when every planned position was measured.    *)
(* No bundle is made of two executions that would share their files.  What *)
(* can be loaded later is that bundle or nothing: it may be damaged, and   *)
(* restored, until it is discarded.  An execution killed before it had a   *)
(* manifest is nothing to aggregation, until it is finalized.              *)
(***************************************************************************)
EXTENDS Naturals

CONSTANT
  Nothing

VARIABLES
  plan,     \* the run plan
  ready,    \* the executions with a manifest
  made,     \* {the bundle the last aggregation made}, or {} when it was discarded
  offered   \* the bundle a reader can load, or Nothing

vars == <<plan, ready, made, offered>>

Init == plan = Nothing /\ ready = {} /\ made = {} /\ offered = Nothing

(* A new plan, measured below the same root as the one before or a new one.*)
Replan ==
  /\ plan' # plan
  /\ ready' \in {ready, {}}
  /\ UNCHANGED <<made, offered>>

(* One execution ends or is finalized, perhaps in place of another. *)
Measure ==
  /\ \A e, f \in ready' \ ready : e = f
  /\ \A e, f \in ready \ ready' : e = f
  /\ UNCHANGED <<plan, made, offered>>

Position(e) == <<e.subject, e.repetition>>
Place(e) == <<e.subject.id, e.repetition>>
Planned == plan.subjects \X (1..plan.repetitions)

Bundle ==
  [plan |-> plan,
   verdicts |-> [e \in ready |-> e.verdict],
   complete |-> {Position(e) : e \in ready} = Planned]

Make ==
  /\ ready # {}
  /\ \A e \in ready : e.sealed /\ e.plan = plan.id /\ Position(e) \in Planned
  /\ \A e, f \in ready : Place(e) = Place(f) => e = f
  /\ made' = {Bundle} /\ offered' = Bundle
  /\ UNCHANGED <<plan, ready>>

(* Its files are damaged, or restored. *)
Touch ==
  /\ offered' \in made \cup {Nothing}
  /\ UNCHANGED <<plan, ready, made>>

Discard ==
  /\ made' = {} /\ offered' = Nothing
  /\ UNCHANGED <<plan, ready>>

Next == Replan \/ Measure \/ Make \/ Touch \/ Discard

Spec == Init /\ [][Next]_vars
=============================================================================
