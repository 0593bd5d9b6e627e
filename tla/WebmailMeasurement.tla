------------------------- MODULE WebmailMeasurement -------------------------
(***************************************************************************)
(* The webmail lane beside the email lane: WebmailPlaywrightAdapter        *)
(* (adapters/webmail_playwright.py) measures a webmail product through the *)
(* same canary gateway.  It waits for the delivery, drives a browser to    *)
(* the message, and only then polls for contacts with the email adapter's  *)
(* await_observations and adjudicates with its adjudicate.                 *)
(*                                                                         *)
(* plan[r].lane is "email" for a run of the email adapter; for a webmail   *)
(* run it says what the adapter lacks, or "ready".  What only the browser  *)
(* can tell, an open, needs no open_observer.                              *)
(***************************************************************************)
EXTENDS EmailMeasurement

ASSUME LanesAssumption == \A p \in Planned : p.lane \in {"email", "ready"} \cup Lacking

VARIABLES
  browser,  \* runs with a browser session that is open
  shown     \* runs whose open_message answered True (open_asserted)

lanes == <<browser, shown>>
lanevars == <<allvars, lanes>>

Webmail(r) == plan[r].lane # "email"

LanesTypeOK ==
  /\ MeasurementTypeOK
  /\ \A r \in Run : plan[r].lane \in {"email", "ready"} \cup Lacking
  /\ browser \in SUBSET Run
  /\ shown \in SUBSET Run

LanesInit == MeasurementInit /\ browser = {} /\ shown = {}

-----------------------------------------------------------------------------
(* The refusals, before the gateway is asked for anything. *)
RefuseWebmail(r) ==
  /\ pc[r] = "start" /\ Webmail(r)
  /\ \/ /\ plan[r].check # "remote-content"
        /\ End(r, Verdict("unsupported", "unsupported-check"))
     \/ /\ plan[r].check = "remote-content" /\ plan[r].lane \in Lacking
        /\ End(r, Inconclusive(plan[r].lane))
  /\ UNCHANGED <<vars, plan, probe, state, polled, deadline, wake, read, seen, opened, lanes>>

Sooner(expires, limit) == IF expires < limit THEN expires ELSE limit

(* create_test, and the deadline of _await_delivery. *)
CreateWebmailProbe(r) ==
  /\ pc[r] = "start" /\ plan[r].lane = "ready" /\ plan[r].check = "remote-content"
  /\ clock + Window <= MaxTime
  /\ \E p \in Probe : CreateTest(p) /\ probe' = [probe EXCEPT ![r] = p]
  /\ deadline' = [deadline EXCEPT ![r] = Sooner(clock + Window, clock + Timeout)]
  /\ Goto(r, "deliver")
  /\ UNCHANGED <<plan, state, polled, wake, read, seen, opened, outcome, lanes>>

CreateWebmailFails(r) ==
  /\ plan[r].lane = "ready" /\ plan[r].check = "remote-content"
  /\ TestFails(r)
  /\ UNCHANGED lanes

(* One turn of _await_delivery, which returns the last state either way. *)
ReceiveDelivery(r) ==
  /\ pc[r] = "deliver" /\ call[r].pc = "state"
  /\ state' = [state EXCEPT ![r] = ReplyOf(r)]
  /\ IF ReplyOf(r).delivered_at # None \/ clock >= deadline[r]
     THEN Goto(r, "open") /\ UNCHANGED wake
     ELSE Goto(r, "pause") /\ wake' = [wake EXCEPT ![r] = clock + 1]
  /\ Return(r)
  /\ UNCHANGED <<plan, probe, polled, deadline, read, seen, opened, outcome, lanes>>

Resume(r) ==
  /\ pc[r] = "pause" /\ clock >= wake[r]
  /\ Goto(r, "deliver")
  /\ UNCHANGED <<vars, plan, probe, state, polled, deadline, wake, read, seen, opened,
                 outcome, lanes>>

(* await_observations begins with the state _await_delivery returned. *)
BeginPoll(r) ==
  /\ polled' = [polled EXCEPT ![r] = Progress(state[r])]
  /\ deadline' = [deadline EXCEPT
                    ![r] = Sooner(window_expires_at[probe[r]], clock + Timeout)]
  /\ Goto(r, "poll")

(* Mutant: the message is opened, delivered or not. *)
StartBrowserAnyway(r) ==
  /\ pc[r] = "open"
  /\ browser' = browser \cup {r}
  /\ Goto(r, "browse")
  /\ UNCHANGED <<vars, plan, probe, state, polled, deadline, wake, read, seen, opened,
                 outcome, shown>>

(* A session is made for a delivered message only. *)
StartBrowser(r) ==
  /\ pc[r] = "open" /\ state[r].delivered_at # None
  /\ browser' = browser \cup {r}
  /\ Goto(r, "browse")
  /\ UNCHANGED <<vars, plan, probe, state, polled, deadline, wake, read, seen, opened,
                 outcome, shown>>

PollUndelivered(r) ==
  /\ pc[r] = "open" /\ state[r].delivered_at = None
  /\ BeginPoll(r)
  /\ UNCHANGED <<vars, plan, probe, state, wake, read, seen, opened, outcome, lanes>>

(* Mutant: a message whose body did not appear counts as opened. *)
BrowseHopeful(r) ==
  /\ pc[r] = "browse"
  /\ browser' = browser \ {r}
  /\ opened' \in {opened, opened \cup {r}}
  /\ shown' = shown \cup {r}
  /\ BeginPoll(r)
  /\ UNCHANGED <<vars, plan, probe, state, wake, read, seen, outcome>>

(***************************************************************************)
(* _open: log in and open the message.  Either may raise; open_message     *)
(* answers whether the body appeared, and a body that did not appear in    *)
(* time may have been opened all the same.  The session is closed in the   *)
(* finally, where close may raise and leave the browser behind.            *)
(***************************************************************************)
Browse(r) ==
  /\ pc[r] = "browse"
  /\ opened' \in {opened, opened \cup {r}}
  /\ \/ /\ browser' = browser \ {r}
        /\ shown' = IF r \in opened' THEN shown \cup {r} ELSE shown
        /\ BeginPoll(r)
        /\ UNCHANGED outcome
     \/ /\ browser' = browser \ {r}
        /\ r \in opened'
        /\ BeginPoll(r)
        /\ UNCHANGED <<shown, outcome>>
     \/ /\ browser' \in {browser \ {r}, browser}
        /\ End(r, AdapterError)
        /\ UNCHANGED <<shown, polled, deadline>>
  /\ UNCHANGED <<vars, plan, probe, state, wake, read, seen>>

ConcludeWebmail(r) ==
  /\ pc[r] = "read" /\ Webmail(r)
  /\ End(r, adjudicate_check("remote-content", Held(r), Evidence(r), r \in shown))
  /\ UNCHANGED <<vars, plan, probe, state, polled, deadline, wake, read, seen, opened, lanes>>

WebmailStep(r) ==
  \/ RefuseWebmail(r) \/ CreateWebmailProbe(r) \/ ReceiveDelivery(r) \/ Resume(r)
  \/ StartBrowser(r) \/ PollUndelivered(r) \/ Browse(r) \/ ConcludeWebmail(r)

(* What the two adapters share: the requests and the poll. *)
SharedStep(r) ==
  /\ GetState(r) \/ Poll(r) \/ ReceiveContacts(r) \/ CheckDeadline(r) \/ Wake(r)
     \/ ReceiveRefresh(r) \/ UnknownTest(r)
  /\ UNCHANGED lanes

EmailStep(r) ==
  /\ ~Webmail(r)
  /\ Refuse(r) \/ CreateProbe(r) \/ ReceiveState(r) \/ Conclude(r)
  /\ UNCHANGED lanes

LaneFails(r) ==
  \/ RequestFails(r) /\ UNCHANGED lanes
  \/ ~Webmail(r) /\ (CreateFails(r) \/ ObserverFails(r)) /\ UNCHANGED lanes
  \/ CreateWebmailFails(r)

LaneStep(r) == EmailStep(r) \/ WebmailStep(r) \/ SharedStep(r)

LanesNext ==
  \/ \E r \in Run : LaneStep(r) \/ LaneFails(r)
  \/ \E r \in Run : ~Webmail(r) /\ OpenMessage(r) /\ UNCHANGED lanes
  \/ Elsewhere /\ UNCHANGED lanes
  \/ AllDone /\ UNCHANGED lanevars

(* Time passes, and a running execution gets its turns of the event loop. *)
LanesSpec ==
  /\ LanesInit /\ [][LanesNext]_lanevars
  /\ WF_lanevars(Tick /\ UNCHANGED <<adapter, opened, lanes>>)
  /\ \A r \in Run : WF_lanevars(LaneStep(r))

-----------------------------------------------------------------------------
(***************************************************************************)
(* The email adapter may claim a clean client from contacts it read before *)
(* the open; the webmail adapter may not: what a webmail pass rests on was *)
(* read with the message open in the browser.                              *)
(***************************************************************************)
WebmailReadsOpen ==
  \A r \in Run :
    (Webmail(r) /\ outcome[r] # None /\ outcome[r].status = "pass") => r \in seen

(***************************************************************************)
(* A browser types the credentials in only for a message the gateway has   *)
(* confirmed (webmail_playwright.py:277, "The browser is only driven once  *)
(* the canary is actually in the inbox"), and no contact is polled and no  *)
(* verdict given while one is open: a session that outlives its run, its   *)
(* close having raised, leaves an error behind.                            *)
(***************************************************************************)
BrowserIsEarned ==
  \A r \in browser :
    /\ state[r].delivered_at # None
    /\ delivered_at[probe[r]] # None \/ probe[r] \notin allocated
    /\ pc[r] = "browse" \/ outcome[r] = AdapterError
=============================================================================
