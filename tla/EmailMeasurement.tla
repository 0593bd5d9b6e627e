-------------------------- MODULE EmailMeasurement --------------------------
(***************************************************************************)
(* The email lane: EptGatewayAdapter.execute_check (adapters/ept.py)       *)
(* measuring a mail client through the canary gateway, while the mail path *)
(* delivers, the client and the provider contact the canary, the watchers  *)
(* come and go, the harness opens the message and the gateway may restart. *)
(*                                                                         *)
(* Each run is one execute_check and is also the gateway thread that       *)
(* serves its GET requests; the other threads serve the collectors.        *)
(***************************************************************************)
EXTENDS CanaryGateway

CONSTANTS
  Run,         \* executions of a check, each with a worker thread of its own
  Planned,     \* what the runs may be asked for: see plan
  Timeout,     \* check.timeout_seconds
  ThirdParty,  \* the gateway has third-party canary hosts configured
  MIME_PART_VECTORS, LIST_UNSUBSCRIBE_VECTORS, BACKGROUND_VECTORS

ASSUME EmailAssumption ==
  /\ Run \subseteq Thread
  /\ Timeout \in Nat
  /\ ThirdParty \in BOOLEAN
  /\ \A p \in Planned : p.mailbox \in BOOLEAN /\ p.observer \in BOOLEAN

INSTANCE EptAdjudication WITH Undelivered <- None

VARIABLES
  pc,        \* where in execute_check each run is
  plan,      \* its check and lane, whether its slot has a mailbox and it has an
             \* open_observer
  probe,     \* created.probe_id
  state,     \* the `state` of execute_check
  polled,    \* what await_observations uses of its own `state`
  deadline,  \* await_observations' deadline
  wake,      \* when the sleep of the poll ends
  read,      \* the contacts the gateway last answered get_observations with
  opened,    \* runs whose message the harness has opened in the client
  seen,      \* history: runs whose message was open when `read` was read
  outcome    \* the AdapterOutcome, or the exception

adapter == <<pc, plan, probe, state, polled, deadline, wake, read, seen, outcome>>
allvars == <<vars, adapter, opened>>

(* A GET of the state, as the gateway answers it. *)
Reply == [probe : Probe, delivered_at : Time \cup {None}, cutoff : Int,
          watchers_healthy : BOOLEAN, exercised : SUBSET Vector]

(* What a webmail run may lack; its refusals have codes of their own. *)
Lacking == {"unavailable", "no-recipe", "no-credentials"}

MeasurementTypeOK ==
  /\ TypeOK
  /\ pc \in [Run -> {"start", "state", "poll", "contacts", "late", "sleep", "refresh", "read",
                    "done", "deliver", "pause", "open", "browse"}]
  /\ plan \in [Run -> Planned]
  /\ probe \in [Run -> Probe \cup {None}]
  /\ state \in [Run -> Reply \cup {None}]
  /\ polled \in [Run -> [delivered_at : Time \cup {None}, watchers_healthy : BOOLEAN]
                       \cup {None}]
  /\ deadline \in [Run -> Time]
  /\ wake \in [Run -> Time]
  /\ read \in [Run -> SUBSET Observation]
  /\ opened \in SUBSET Run
  /\ seen \in SUBSET Run
  /\ outcome \in [Run -> {None} \cup [status : {"pass", "fail", "partial", "inconclusive",
                                                "unsupported", "error"},
                                      reason : Adjudication \cup Lacking]]

MeasurementInit ==
  /\ Init
  /\ pc = [r \in Run |-> "start"]
  /\ plan \in [Run -> Planned]
  /\ probe = [r \in Run |-> None]
  /\ state = [r \in Run |-> None]
  /\ polled = [r \in Run |-> None]
  /\ deadline = [r \in Run |-> 0]
  /\ wake = [r \in Run |-> 0]
  /\ read = [r \in Run |-> {}]
  /\ opened = {}
  /\ seen = {}
  /\ outcome = [r \in Run |-> None]

Goto(r, next) == pc' = [pc EXCEPT ![r] = next]

End(r, result) ==
  /\ Goto(r, "done")
  /\ outcome' = [outcome EXCEPT ![r] = result]

-----------------------------------------------------------------------------
(***************************************************************************)
(* The check is refused before the gateway is asked for anything.          *)
(***************************************************************************)
Refuse(r) ==
  /\ pc[r] = "start"
  /\ \/ /\ plan[r].check \notin Checks
        /\ End(r, Verdict("unsupported", "unsupported-check"))
     \/ /\ plan[r].check \in Checks /\ ~plan[r].mailbox
        /\ End(r, AdapterError)
  /\ UNCHANGED <<vars, plan, probe, state, polled, deadline, wake, read, seen, opened>>

(* create_test.  The clock bound leaves room for the whole window. *)
CreateProbe(r) ==
  /\ pc[r] = "start"
  /\ plan[r].check \in Checks /\ plan[r].mailbox
  /\ clock + Window <= MaxTime
  /\ \E p \in Probe : /\ CreateTest(p)
                      /\ probe' = [probe EXCEPT ![r] = p]
  /\ Goto(r, "state")
  /\ UNCHANGED <<plan, state, polled, deadline, wake, read, seen, opened, outcome>>

(* create_test fails: before the gateway had it, or with only the answer   *)
(* lost, and then the probe exists and no run knows of it.                 *)
TestFails(r) ==
  /\ pc[r] = "start"
  /\ End(r, AdapterError)
  /\ \/ UNCHANGED vars
     \/ clock + Window <= MaxTime /\ \E p \in Probe : CreateTest(p)
  /\ UNCHANGED <<plan, probe, state, polled, deadline, wake, read, seen, opened>>

CreateFails(r) == plan[r].check \in Checks /\ plan[r].mailbox /\ TestFails(r)

(* get_state: the gateway's side of the request. *)
GetState(r) ==
  /\ pc[r] \in {"state", "refresh", "deliver"}
  /\ StateBegin(r, probe[r]) \/ StateEnd(r)
  /\ UNCHANGED <<adapter, opened>>

Progress(s) == [delivered_at |-> s.delivered_at, watchers_healthy |-> s.watchers_healthy]

ReplyOf(r) ==
  [probe |-> call[r].probe, delivered_at |-> call[r].delivered_at,
   cutoff |-> call[r].cutoff, watchers_healthy |-> call[r].watchers_healthy,
   exercised |-> call[r].exercised]

(* The first state arrives and await_observations begins. *)
ReceiveState(r) ==
  /\ pc[r] = "state" /\ call[r].pc = "state"
  /\ state' = [state EXCEPT ![r] = ReplyOf(r)]
  /\ polled' = [polled EXCEPT ![r] = Progress(ReplyOf(r))]
  /\ LET expires == window_expires_at[probe[r]]
         limit == clock + Timeout
     IN  deadline' = [deadline EXCEPT ![r] = IF expires < limit THEN expires ELSE limit]
  /\ Goto(r, "poll")
  /\ Return(r)
  /\ UNCHANGED <<plan, probe, wake, read, seen, opened, outcome>>

Settled(s) == s.delivered_at # None /\ s.watchers_healthy

(* Mutant: a contact loses its probe and its times on the way. *)
PollPayloads(r) ==
  /\ pc[r] = "poll"
  /\ probe[r] \in allocated
  /\ read' = [read EXCEPT ![r] = {o.payload : o \in ToSet(observations[probe[r]])}]
  /\ seen' = IF r \in opened THEN seen \cup {r} ELSE seen \ {r}
  /\ Goto(r, "contacts")
  /\ UNCHANGED <<vars, plan, probe, state, polled, deadline, wake, opened, outcome>>

(* get_observations: the gateway's side of the request. *)
Poll(r) ==
  /\ pc[r] = "poll"
  /\ probe[r] \in allocated
  /\ read' = [read EXCEPT ![r] = ToSet(observations[probe[r]])]
  /\ seen' = IF r \in opened THEN seen \cup {r} ELSE seen \ {r}
  /\ Goto(r, "contacts")
  /\ UNCHANGED <<vars, plan, probe, state, polled, deadline, wake, opened, outcome>>

(* The answer arrives, and the test that ends the poll. *)
ReceiveContacts(r) ==
  /\ pc[r] = "contacts"
  /\ Goto(r, IF read[r] # {} \/ Settled(polled[r]) THEN "read" ELSE "late")
  /\ UNCHANGED <<vars, plan, probe, state, polled, deadline, wake, read, seen, opened,
                 outcome>>

(* Mutant: the deadline does not end the poll. *)
CheckDeadlineNever(r) ==
  /\ pc[r] = "late"
  /\ Goto(r, "sleep")
  /\ wake' = [wake EXCEPT ![r] = clock + 1]
  /\ UNCHANGED <<vars, plan, probe, state, polled, deadline, read, seen, opened, outcome>>

CheckDeadline(r) ==
  /\ pc[r] = "late"
  /\ \/ /\ clock >= deadline[r]
        /\ Goto(r, "read")
        /\ UNCHANGED wake
     \/ /\ clock < deadline[r]
        /\ Goto(r, "sleep")
        /\ wake' = [wake EXCEPT ![r] = clock + 1]
  /\ UNCHANGED <<vars, plan, probe, state, polled, deadline, read, seen, opened, outcome>>

Wake(r) ==
  /\ pc[r] = "sleep" /\ clock >= wake[r]
  /\ Goto(r, "refresh")
  /\ UNCHANGED <<vars, plan, probe, state, polled, deadline, wake, read, seen, opened,
                 outcome>>

(* The poll's own copy of the state follows the gateway's; execute_check's does not. *)
ReceiveRefresh(r) ==
  /\ pc[r] = "refresh" /\ call[r].pc = "state"
  /\ polled' = [polled EXCEPT ![r] = Progress(ReplyOf(r))]
  /\ Goto(r, "poll")
  /\ Return(r)
  /\ UNCHANGED <<plan, probe, state, deadline, wake, read, seen, opened, outcome>>

(***************************************************************************)
(* The open_observer is asked, then the evidence is adjudicated.           *)
(***************************************************************************)
Evidence(r) ==
  {[probe |-> o.probe, vector |-> o.payload.vector, channel |-> o.payload.channel,
    origin |-> o.payload.origin, identifies |-> o.payload.identifies,
    referrer |-> o.payload.referrer] : o \in read[r]}

Held(r) ==
  [probe |-> probe[r], delivered_at |-> state[r].delivered_at,
   watchers_healthy |-> state[r].watchers_healthy,
   referer_captured |-> TRUE, third_party |-> ThirdParty]

Conclude(r) ==
  /\ pc[r] = "read"
  /\ LET open == plan[r].observer /\ r \in opened
     IN  End(r, IF MissingVectors(plan[r].check, state[r].exercised) # {}
                THEN Inconclusive("vector-not-exercised")
                ELSE adjudicate_check(plan[r].check, Held(r), Evidence(r), open))
  /\ UNCHANGED <<vars, plan, probe, state, polled, deadline, wake, read, seen, opened>>

(* The open_observer raises. *)
ObserverFails(r) ==
  /\ pc[r] = "read" /\ plan[r].observer
  /\ End(r, AdapterError)
  /\ UNCHANGED <<vars, plan, probe, state, polled, deadline, wake, read, seen, opened>>

(***************************************************************************)
(* Any request may fail (HTTPStatusError, a timeout, a lost connection):   *)
(* the exception leaves execute_check.  After a gateway restart the probe  *)
(* is unknown and every request for it does fail.                          *)
(***************************************************************************)
RequestFails(r) ==
  /\ pc[r] \in {"state", "poll", "contacts", "refresh", "deliver"}
  /\ End(r, AdapterError)
  /\ call' = [call EXCEPT ![r] = Idle]
  /\ UNCHANGED <<clock, issued, store, watching, acknowledged, restarts,
                 plan, probe, state, polled, deadline, wake, read, seen, opened>>

UnknownTest(r) ==
  /\ \/ pc[r] = "poll" /\ probe[r] \notin allocated
     \/ pc[r] \in {"state", "refresh", "deliver"} /\ call[r].pc = "answered"
  /\ RequestFails(r)

AdapterStep(r) ==
  \/ Refuse(r) \/ CreateProbe(r) \/ GetState(r) \/ ReceiveState(r) \/ Poll(r)
  \/ ReceiveContacts(r) \/ CheckDeadline(r) \/ Wake(r) \/ ReceiveRefresh(r) \/ Conclude(r) \/ UnknownTest(r)

(* The harness drives the client to the message; only an observer can tell. *)
OpenMessage(r) ==
  /\ probe[r] # None /\ plan[r].observer /\ pc[r] # "done"
  /\ opened' = opened \cup {r}
  /\ UNCHANGED <<vars, adapter>>

AllDone == \A r \in Run : pc[r] = "done"

(* Bound: nothing is followed beyond the end of the last run. *)
Elsewhere ==
  /\ ~AllDone
  /\ \/ Surroundings
     \/ \E t \in Thread \ Run : RecordStep(t) \/ Return(t)
  /\ UNCHANGED <<adapter, opened>>

MeasurementNext ==
  \/ Elsewhere
  \/ \E r \in Run : AdapterStep(r) \/ OpenMessage(r)
  \/ \E r \in Run : CreateFails(r) \/ RequestFails(r) \/ ObserverFails(r)
  \/ AllDone /\ UNCHANGED allvars

(* Time passes, and a running execution gets its turns of the event loop. *)
Fairness ==
  /\ WF_allvars(Tick /\ UNCHANGED <<adapter, opened>>)
  /\ \A r \in Run : WF_allvars(AdapterStep(r))

MeasurementSpec == MeasurementInit /\ [][MeasurementNext]_allvars /\ Fairness

-----------------------------------------------------------------------------
(***************************************************************************)
(* A run that claims a clean client held a confirmed delivery and a window *)
(* every required watcher vouched for, had the open asserted (unless the   *)
(* check is about not opening; an email run's open by its open_observer)   *)
(* and was offered every vector the check needs (ept.py:342, "a broken     *)
(* probe can never be reported as clean client behaviour").                *)
(***************************************************************************)
CleanIsEarned ==
  \A r \in Run :
    (outcome[r] # None /\ outcome[r].status = "pass") =>
      /\ probe[r] \in issued
      /\ state[r].delivered_at # None
      /\ \A w \in Required : lastUp[w] # None /\ lastUp[w] >= state[r].cutoff
      /\ plan[r].check # "background-fetch" =>
           r \in opened /\ (plan[r].lane = "email" => plan[r].observer)
      /\ REQUIRED_EXERCISED[plan[r].check] \subseteq state[r].exercised

(***************************************************************************)
(* A run that reports a disclosure has a client-attributed contact of its  *)
(* own probe, admitted while that probe's window was open and stored       *)
(* before the run ended; a contact of another probe never scores.          *)
(***************************************************************************)
DisclosureIsOwn ==
  \A r \in Run :
    (outcome[r] # None /\ outcome[r].status = "fail") =>
      \E o \in read[r] :
        /\ o.probe = probe[r] /\ o.payload.origin = "client"
        /\ o.observed_at <= clock
        /\ probe[r] \in allocated => o.checked <= window_expires_at[probe[r]]

(***************************************************************************)
(* The poll loop ends: every execution that has begun reaches a verdict or *)
(* an error, whatever the gateway, the watchers and the mail path do.      *)
(***************************************************************************)
RunEnds == \A r \in Run : (pc[r] # "start") ~> (pc[r] = "done")

(***************************************************************************)
(* ept.py:1028: "Polling stops early once the message is open", "because   *)
(* past that point an empty set is already the answer".  The contacts a    *)
(* clean verdict rests on were read with the message open.                 *)
(***************************************************************************)
CleanWasReadOpen ==
  \A r \in Run :
    (outcome[r] # None /\ outcome[r].status = "pass"
       /\ plan[r].check # "background-fetch") => r \in seen
=============================================================================
