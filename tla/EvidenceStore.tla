--------------------------- MODULE EvidenceStore ---------------------------
(***************************************************************************)
(* What the gateway promises whoever leaves evidence with it or measures   *)
(* against it: a store in which a probe appears once, for a window, gains  *)
(* contacts one by one and all of them checked within the window, and      *)
(* never gives back what it has.  A collector is told that its contact is  *)
(* recorded only when it is, with its vector.  The whole store may be      *)
(* lost; an id from before never names a probe again.                      *)
(***************************************************************************)
EXTENDS Naturals, Sequences

CONSTANT
  Nothing  \* the delivery time of a message nobody has reported delivered

VARIABLES
  now,
  drawn,   \* every id a probe has had
  kept,    \* the probes there are, with what is known of each
  told     \* the contacts whose collectors were told they are recorded

vars == <<now, drawn, kept, told>>

Empty == [p \in {} |-> Nothing]

Init == now = 0 /\ drawn = {} /\ kept = Empty /\ told = {}

Wait ==
  /\ now' >= now
  /\ UNCHANGED <<drawn, kept, told>>

(* A fresh probe, whose window is yet to close. *)
Open(p) ==
  /\ p \notin drawn
  /\ drawn' = drawn \cup {p}
  /\ DOMAIN kept' = DOMAIN kept \cup {p}
  /\ \A q \in DOMAIN kept : kept'[q] = kept[q]
  /\ kept'[p].expires >= now
  /\ kept'[p] = [expires |-> kept'[p].expires, delivered |-> Nothing, vectors |-> {},
                 contacts |-> << >>]
  /\ UNCHANGED <<now, told>>

Deliver(p) ==
  /\ kept' = [kept EXCEPT ![p].delivered = kept'[p].delivered]
  /\ kept'[p].delivered # Nothing
  /\ UNCHANGED <<now, drawn, told>>

Offer(p) ==
  /\ kept' = [kept EXCEPT ![p].vectors = kept'[p].vectors]
  /\ kept[p].vectors \subseteq kept'[p].vectors
  /\ UNCHANGED <<now, drawn, told>>

(* The contact may have been checked a while ago, but in the window. *)
Keep(p) ==
  /\ kept'[p].contacts # << >>
  /\ LET o == kept'[p].contacts[Len(kept'[p].contacts)]
     IN  /\ o.probe = p
         /\ o.checked <= kept[p].expires
         /\ o.checked <= o.observed_at /\ o.observed_at <= now
         /\ kept' = [kept EXCEPT ![p].contacts = Append(@, o)]
  /\ UNCHANGED <<now, drawn, told>>

Tell(p) ==
  /\ \E i \in DOMAIN kept[p].contacts :
       LET o == kept[p].contacts[i]
       IN  /\ told' = told \cup {o}
           /\ kept' = [kept EXCEPT ![p].vectors = @ \cup {o.payload.vector}]
  /\ UNCHANGED <<now, drawn>>

Lose ==
  /\ kept' = Empty
  /\ UNCHANGED <<now, drawn, told>>

Next ==
  \/ Wait \/ Lose
  \/ \E p \in drawn' : Open(p)
  \/ \E p \in DOMAIN kept \cap DOMAIN kept' : Deliver(p) \/ Offer(p) \/ Keep(p) \/ Tell(p)

Spec == Init /\ [][Next]_vars
=============================================================================
