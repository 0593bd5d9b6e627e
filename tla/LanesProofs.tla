---------------------------- MODULE LanesProofs ----------------------------
(***************************************************************************)
(* The email and the webmail lane against the canary gateway, for any      *)
(* number of runs, probes, watchers, worker threads and contacts, any      *)
(* window, timeout and grace, and restarts of the gateway at any time.     *)
(***************************************************************************)
EXTENDS WebmailMeasurement, CanaryGatewayProofs

USE DEF vars, store, watching, adapter, allvars, lanes, lanevars

-----------------------------------------------------------------------------
(***************************************************************************)
(* The inductive invariant, run by run.                                    *)
(***************************************************************************)
GatewayInv == TypeOK /\ HealthInv /\ EvidenceInv

(* Where a run holds a state of its probe. *)
Holding == {"poll", "contacts", "late", "sleep", "refresh", "read", "pause", "open", "browse"}

(* A probe that is being measured was drawn, and its id is not drawn again. *)
ProbeInv(r) == pc[r] \notin {"start", "done"} => probe[r] \in issued

AskedInv(r) ==
  /\ pc[r] \notin {"start", "done"} =>
       plan[r].check \in Checks /\ (Webmail(r) => plan[r].check = "remote-content")
  /\ pc[r] \in {"deliver", "pause", "open", "browse"} => Webmail(r)

(* A delivery that was reported is still on record, if the probe is.       *)
Confirmed(p, at) == at # None /\ p \in allocated => delivered_at[p] # None

(* The run's own thread only serves its requests for the state.            *)
CallInv(r) ==
  /\ call[r].pc \in {"idle", "answered", "health", "state"}
  /\ call[r].pc \in {"health", "state"} =>
       pc[r] \in {"state", "refresh", "deliver"} /\ Confirmed(probe[r], call[r].delivered_at)

(* What a state says of the watchers was true and stays so.                *)
Vouched(s) ==
  s.watchers_healthy => \A w \in Required : lastUp[w] # None /\ lastUp[w] >= s.cutoff

HeldInv(r) ==
  pc[r] \in Holding =>
    state[r] \in Reply /\ Vouched(state[r]) /\ Confirmed(probe[r], state[r].delivered_at)

(* The contacts that were read are the run's own and were admitted.        *)
ReadInv(r) ==
  /\ pc[r] = "start" => read[r] = {}
  /\ \A o \in read[r] :
       /\ o.probe = probe[r] /\ probe[r] \in issued
       /\ o.observed_at <= clock
       /\ probe[r] \in allocated => o.checked <= window_expires_at[probe[r]]

(* Past the first read, a message shown in the browser was open then.      *)
OpenInv(r) ==
  r \in shown =>
    r \in opened /\ (pc[r] \in {"contacts", "late", "sleep", "refresh", "read"} => r \in seen)

(* A session is open at its steps, or was left behind by a run that failed.*)
BrowserInv(r) ==
  r \in browser =>
    /\ probe[r] \in issued
    /\ state[r].delivered_at # None /\ Confirmed(probe[r], state[r].delivered_at)
    /\ pc[r] = "browse" \/ (pc[r] = "done" /\ outcome[r] = AdapterError)

(* What a verdict claims: CleanIsEarned, DisclosureIsOwn and               *)
(* WebmailReadsOpen, of one run.                                           *)
CleanRun(r) ==
  (outcome[r] # None /\ outcome[r].status = "pass") =>
    /\ probe[r] \in issued
    /\ state[r] \in Reply /\ state[r].delivered_at # None
    /\ \A w \in Required : lastUp[w] # None /\ lastUp[w] >= state[r].cutoff
    /\ plan[r].check # "background-fetch" =>
         r \in opened /\ (plan[r].lane = "email" => plan[r].observer)
    /\ REQUIRED_EXERCISED[plan[r].check] \subseteq state[r].exercised

DisclosedRun(r) ==
  (outcome[r] # None /\ outcome[r].status = "fail") =>
    \E o \in read[r] : o.payload.origin = "client"

ReadOpenRun(r) ==
  (Webmail(r) /\ outcome[r] # None /\ outcome[r].status = "pass") => r \in seen

VerdictInv(r) ==
  /\ pc[r] # "done" => outcome[r] = None
  /\ CleanRun(r) /\ DisclosedRun(r) /\ ReadOpenRun(r)

RunInv(r) ==
  /\ ProbeInv(r) /\ AskedInv(r) /\ CallInv(r) /\ HeldInv(r) /\ ReadInv(r)
  /\ OpenInv(r) /\ BrowserInv(r) /\ VerdictInv(r)

LanesInv == GatewayInv /\ LanesTypeOK /\ \A r \in Run : RunInv(r)

-----------------------------------------------------------------------------
(***************************************************************************)
(* What the lanes do to the gateway: its own steps, and the end of a       *)
(* request whose client gave up.                                           *)
(***************************************************************************)
Dropped(r) ==
  /\ call' = [call EXCEPT ![r] = Idle]
  /\ UNCHANGED <<clock, issued, store, watching, acknowledged, restarts>>

LEMMA RunThreads == Run \subseteq Thread
  BY EmailAssumption

LEMMA GatewayMoves ==
  ASSUME LanesInv, [LanesNext]_lanevars
  PROVE  [Next]_vars \/ \E r \in Run : Dropped(r)
<1>1. ASSUME NEW r \in Run, RequestFails(r)
      PROVE  Dropped(r)
  BY <1>1 DEF RequestFails, Dropped
<1>2. ASSUME NEW r \in Run, GetState(r)
      PROVE  Next
  <2>1. probe[r] \in Probe
    BY <1>2 DEF GetState, LanesInv, GatewayInv, TypeOK, RunInv, ProbeInv
  <2>. QED  BY <1>2, <2>1, RunThreads DEF GetState, StateStep, Next
<1>3. ASSUME NEW r \in Run,
             ReceiveState(r) \/ ReceiveRefresh(r) \/ ReceiveDelivery(r)
      PROVE  Next
  BY <1>3, RunThreads DEF ReceiveState, ReceiveRefresh, ReceiveDelivery, Next
<1>4. ASSUME NEW r \in Run,
             \/ CreateProbe(r) \/ CreateWebmailProbe(r) \/ CreateFails(r) \/ CreateWebmailFails(r)
      PROVE  [Next]_vars
  BY <1>4
  DEF CreateProbe, CreateWebmailProbe, CreateFails, CreateWebmailFails, TestFails, Next
<1>5. ASSUME NEW r \in Run,
             \/ Refuse(r) \/ Poll(r) \/ ReceiveContacts(r) \/ CheckDeadline(r) \/ Wake(r)
             \/ Conclude(r) \/ ObserverFails(r) \/ RefuseWebmail(r) \/ Resume(r) \/ StartBrowser(r) \/ PollUndelivered(r)
             \/ Browse(r) \/ ConcludeWebmail(r) \/ OpenMessage(r)
      PROVE  UNCHANGED vars
  BY <1>5 DEF Refuse, Poll, ReceiveContacts, CheckDeadline, Wake, Conclude, ObserverFails,
     RefuseWebmail, Resume, StartBrowser, PollUndelivered, Browse, ConcludeWebmail, OpenMessage
<1>6. CASE Elsewhere
  BY <1>6 DEF Elsewhere, Next
<1>7. ASSUME NEW r \in Run, LaneStep(r) \/ LaneFails(r)
      PROVE  [Next]_vars \/ Dropped(r)
  BY <1>1, <1>2, <1>3, <1>4, <1>5, <1>7
  DEF LaneStep, LaneFails, EmailStep, WebmailStep, SharedStep, UnknownTest
<1>8. CASE UNCHANGED lanevars
  BY <1>8
<1>. QED  BY <1>1, <1>5, <1>6, <1>7, <1>8 DEF LanesNext

LEMMA DroppedKeeps ==
  ASSUME GatewayInv, NEW r \in Run, Dropped(r)
  PROVE  GatewayInv'
<1>. USE DEF GatewayInv, Dropped
<1>1. TypeOK'
  BY RunThreads DEF TypeOK, Call
<1>2. HealthInv'
  BY RunThreads DEF HealthInv, BeatsAreVouchedFor, HealthIsVouchedFor, Idle, TypeOK
<1>3. EvidenceInv'
  <2>1. \A u \in Thread : call'[u] = call[u] \/ RequestInv(u)'
    BY RunThreads, NotRecording DEF TypeOK, Idle
  <2>. QED  BY <1>1, <2>1, EvidenceKept DEF TypeOK, Time
<1>. QED  BY <1>1, <1>2, <1>3

LEMMA GatewayStep ==
  ASSUME LanesInv, [LanesNext]_lanevars
  PROVE  GatewayInv'
<1>1. ASSUME [Next]_vars
      PROVE  GatewayInv'
  <2>1. TypeOK'
    BY <1>1, TypeStep DEF LanesInv, GatewayInv
  <2>2. HealthInv'
    BY <1>1, <2>1, HealthStep DEF LanesInv, GatewayInv
  <2>3. EvidenceInv'
    BY <1>1, <2>1, EvidenceInductive DEF LanesInv, GatewayInv
  <2>. QED  BY <2>1, <2>2, <2>3 DEF GatewayInv
<1>. QED  BY <1>1, GatewayMoves, DroppedKeeps DEF LanesInv

(* What never goes back: the clock, the ids, the watchers' instants and,   *)
(* while it exists, a drawn probe's window and delivery.                   *)
Onward ==
  /\ clock' >= clock
  /\ issued \subseteq issued'
  /\ \A w \in Watcher : lastUp[w] # None => lastUp'[w] # None /\ lastUp'[w] >= lastUp[w]
  /\ \A p \in issued : p \in allocated' =>
       /\ p \in allocated
       /\ window_expires_at'[p] = window_expires_at[p]
       /\ delivered_at[p] # None => delivered_at'[p] # None

LEMMA GatewayOnward ==
  ASSUME LanesInv, [LanesNext]_lanevars
  PROVE  Onward
<1>. USE GatewayAssumption DEF LanesInv, GatewayInv, TypeOK, Time
<1>1. ASSUME Next
      PROVE  Onward
  <2>1. \A w \in Watcher : lastUp[w] # None => lastUp'[w] # None /\ lastUp'[w] >= lastUp[w]
    BY <1>1, UpIsKept DEF HealthInv
  <2>2. CASE Tick \/ Restart
    BY <2>1, <2>2 DEF Tick, Restart, Onward
  <2>3. ASSUME NEW p \in Probe, NEW at \in ReportedDelivery, MarkDelivered(p, at)
        PROVE  Onward
    BY <2>1, <2>3 DEF MarkDelivered, Onward
  <2>4. ASSUME NEW p \in Probe, CreateTest(p)
        PROVE  Onward
    BY <2>1, <2>4 DEF CreateTest, Onward
  <2>5. ASSUME UNCHANGED <<clock, issued, allocated, window_expires_at, delivered_at>>
        PROVE  Onward
    BY <2>1, <2>5 DEF Onward
  <2>6. ASSUME NEW w \in Watcher, NEW at \in 0..clock, Heartbeat(w, at)
        PROVE  Onward
    BY <2>5, <2>6 DEF Heartbeat
  <2>7. ASSUME NEW p \in Probe, NEW vectors \in SUBSET Vector, MarkExercised(p, vectors)
        PROVE  Onward
    BY <2>5, <2>7 DEF MarkExercised
  <2>8. ASSUME NEW t \in Thread, RecordStep(t) \/ StateStep(t) \/ Return(t)
        PROVE  Onward
    BY <2>5, <2>8 DEF RecordStep, StateStep, RecordCheck, RecordStamp, RecordAppend, RecordExercise,
       StateBegin, StateEnd, Return
  <2>. QED  BY <1>1, <2>2, <2>3, <2>4, <2>6, <2>7, <2>8 DEF Next, Surroundings
<1>2. ASSUME UNCHANGED vars \/ \E r \in Run : Dropped(r)
      PROVE  Onward
  BY <1>2 DEF Dropped, Onward
<1>. QED  BY <1>1, <1>2, GatewayMoves

-----------------------------------------------------------------------------
(***************************************************************************)
(* A run that stands still: another run, or the surroundings, take a step. *)
(***************************************************************************)
Still(r) ==
  /\ pc'[r] = pc[r] /\ plan'[r] = plan[r] /\ probe'[r] = probe[r] /\ state'[r] = state[r]
  /\ read'[r] = read[r] /\ outcome'[r] = outcome[r]
  /\ (r \in opened => r \in opened') /\ (r \in seen' <=> r \in seen)
  /\ (r \in shown' <=> r \in shown) /\ (r \in browser' <=> r \in browser)
  /\ call'[r] = call[r] \/ call'[r].pc = "idle"

LEMMA OthersStand ==
  ASSUME LanesInv, NEW r \in Run, NEW u \in Run, u # r,
         LaneStep(u) \/ LaneFails(u)
  PROVE  Still(r)
<1>. USE RunThreads DEF LanesInv, GatewayInv, TypeOK, LanesTypeOK, MeasurementTypeOK, Still
<1>1. CASE Refuse(u) /\ UNCHANGED lanes
  BY <1>1 DEF Refuse, Goto, End
<1>2. CASE CreateProbe(u) /\ UNCHANGED lanes
  BY <1>2 DEF CreateProbe, CreateTest, Goto
<1>3. CASE GetState(u) /\ UNCHANGED lanes
  BY <1>3 DEF GetState, StateBegin, StateEnd
<1>4. CASE ReceiveState(u) /\ UNCHANGED lanes
  BY <1>4 DEF ReceiveState, Return, Goto
<1>5. CASE Poll(u) /\ UNCHANGED lanes
  BY <1>5 DEF Poll, Goto
<1>6. CASE CheckDeadline(u) /\ UNCHANGED lanes
  BY <1>6 DEF CheckDeadline, Goto
<1>7. CASE Wake(u) /\ UNCHANGED lanes
  BY <1>7 DEF Wake, Goto
<1>8. CASE ReceiveRefresh(u) /\ UNCHANGED lanes
  BY <1>8 DEF ReceiveRefresh, Return, Goto
<1>9. CASE Conclude(u) /\ UNCHANGED lanes
  BY <1>9 DEF Conclude, End, Goto
<1>10. CASE RequestFails(u) /\ UNCHANGED lanes
  BY <1>10 DEF RequestFails, End, Goto
<1>11. CASE RefuseWebmail(u)
  BY <1>11 DEF RefuseWebmail, End, Goto
<1>12. CASE CreateWebmailProbe(u)
  BY <1>12 DEF CreateWebmailProbe, CreateTest, Goto
<1>13. CASE ReceiveDelivery(u)
  BY <1>13 DEF ReceiveDelivery, Return, Goto
<1>14. CASE Resume(u)
  BY <1>14 DEF Resume, Goto
<1>15. CASE StartBrowser(u)
  BY <1>15 DEF StartBrowser, Goto
<1>16. CASE PollUndelivered(u)
  BY <1>16 DEF PollUndelivered, BeginPoll, Goto
<1>17. CASE Browse(u)
  <2>1. /\ pc'[r] = pc[r] /\ outcome'[r] = outcome[r] /\ (r \in shown' <=> r \in shown)
    BY <1>17 DEF Browse, BeginPoll, End, Goto
  <2>. QED  BY <1>17, <2>1 DEF Browse
<1>18. CASE ConcludeWebmail(u)
  BY <1>18 DEF ConcludeWebmail, End, Goto
<1>19. CASE TestFails(u) /\ UNCHANGED lanes
  BY <1>19 DEF TestFails, CreateTest, End, Goto
<1>20. CASE (ReceiveContacts(u) \/ ObserverFails(u)) /\ UNCHANGED lanes
  BY <1>20 DEF ReceiveContacts, ObserverFails, End, Goto
<1>. QED
  BY <1>1, <1>2, <1>3, <1>4, <1>5, <1>6, <1>7, <1>8, <1>9, <1>10, <1>11, <1>12, <1>13, <1>14, <1>15,
     <1>16, <1>17, <1>18, <1>19, <1>20
  DEF LaneStep, LaneFails, CreateFails, CreateWebmailFails, EmailStep, WebmailStep, SharedStep,
      UnknownTest

LEMMA SurroundingsStand ==
  ASSUME LanesInv, NEW r \in Run,
         \/ Elsewhere /\ UNCHANGED lanes
         \/ UNCHANGED lanevars
         \/ \E u \in Run : OpenMessage(u) /\ UNCHANGED lanes
  PROVE  Still(r)
<1>. USE RunThreads DEF LanesInv, GatewayInv, TypeOK, LanesTypeOK, MeasurementTypeOK, Still
<1>1. ASSUME NEW t \in Thread \ Run, RecordStep(t) \/ Return(t)
      PROVE  call'[r] = call[r]
  BY <1>1 DEF RecordStep, RecordCheck, RecordStamp, RecordAppend, RecordExercise, Return
<1>2. ASSUME Surroundings
      PROVE  call'[r] = call[r] \/ call'[r].pc = "idle"
  BY <1>2 DEF Surroundings, Tick, Restart, Heartbeat, MarkDelivered, MarkExercised, Idle
<1>3. CASE Elsewhere /\ UNCHANGED lanes
  <2>1. UNCHANGED <<adapter, opened, lanes>>
    BY <1>3 DEF Elsewhere
  <2>2. call'[r] = call[r] \/ call'[r].pc = "idle"
    BY <1>1, <1>2, <1>3 DEF Elsewhere
  <2>. QED  BY <2>1, <2>2
<1>4. CASE UNCHANGED lanevars \/ \E u \in Run : OpenMessage(u) /\ UNCHANGED lanes
  BY <1>4 DEF OpenMessage
<1>. QED  BY <1>3, <1>4

(* What a run knows stays true while it stands still.                      *)
LEMMA StillKeeps ==
  ASSUME LanesInv, NEW r \in Run, Still(r), Onward, TypeOK'
  PROVE  RunInv(r)'
<1>. USE DEF LanesInv, RunInv, Still, LanesTypeOK, MeasurementTypeOK
<1>1. ProbeInv(r)' /\ AskedInv(r)'
  BY DEF ProbeInv, AskedInv, Onward, Webmail
<1>2. ASSUME NEW p \in issued, NEW at, Confirmed(p, at)
      PROVE  Confirmed(p, at)'
  BY <1>2 DEF Onward, Confirmed
<1>3. ASSUME NEW s, s.cutoff \in Int, NEW w \in Required, lastUp[w] # None /\ lastUp[w] >= s.cutoff
      PROVE  lastUp'[w] # None /\ lastUp'[w] >= s.cutoff
  <2>1. w \in Watcher /\ lastUp'[w] # None /\ lastUp'[w] >= lastUp[w]
    BY <1>3, GatewayAssumption DEF Onward
  <2>2. lastUp[w] \in Nat /\ lastUp'[w] \in Nat
    BY <1>3, <2>1 DEF GatewayInv, TypeOK, Time
  <2>. QED  BY <1>3, <2>1, <2>2
<1>4. CallInv(r)'
  BY <1>2 DEF CallInv, ProbeInv
<1>5. HeldInv(r)'
  <2>. SUFFICES ASSUME pc[r] \in Holding PROVE HeldInv(r)'
    BY DEF HeldInv
  <2>1. state[r] \in Reply /\ Vouched(state[r]) /\ Confirmed(probe[r], state[r].delivered_at)
    BY DEF HeldInv
  <2>2. probe[r] \in issued
    BY DEF ProbeInv, Holding
  <2>3. Confirmed(probe[r], state[r].delivered_at)'
    BY <1>2, <2>1, <2>2 DEF Confirmed
  <2>4. Vouched(state[r])'
    BY <1>3, <2>1 DEF Vouched, Reply
  <2>. QED  BY <2>1, <2>3, <2>4 DEF HeldInv
<1>6. ReadInv(r)'
  <2>. SUFFICES ASSUME NEW o \in read[r]
                PROVE  /\ o.probe = probe[r] /\ probe[r] \in issued'
                       /\ o.observed_at <= clock'
                       /\ probe[r] \in allocated' => o.checked <= window_expires_at'[probe[r]]
    BY DEF ReadInv
  <2>1. o.observed_at \in Nat
    BY DEF Observation, Time
  <2>2. clock \in Nat /\ clock' \in Nat /\ clock' >= clock
    BY DEF Onward, GatewayInv, TypeOK, Time
  <2>. QED  BY <2>1, <2>2 DEF ReadInv, Onward
<1>7. OpenInv(r)' /\ BrowserInv(r)'
  BY <1>2 DEF OpenInv, BrowserInv, Confirmed, Onward
<1>8. CleanRun(r)'
  BY <1>3 DEF VerdictInv, CleanRun, Onward, Reply
<1>9. VerdictInv(r)'
  BY <1>8 DEF VerdictInv, DisclosedRun, ReadOpenRun, Webmail
<1>. QED  BY <1>1, <1>4, <1>5, <1>6, <1>7, <1>9

-----------------------------------------------------------------------------
(***************************************************************************)
(* What a verdict rests on: _adjudicate_check, for whatever check.         *)
(***************************************************************************)
LEMMA CleanVerdict ==
  ASSUME NEW c, NEW s, NEW obs, NEW open, adjudicate_check(c, s, obs, open).status = "pass"
  PROVE  s.delivered_at # None /\ s.watchers_healthy /\ (open \/ c = "background-fetch")
  BY DEF adjudicate_check, settle_validity, AdapterError, Verdict, Inconclusive

LEMMA DisclosureVerdict ==
  ASSUME NEW c, NEW s, NEW obs, NEW open, adjudicate_check(c, s, obs, open).status = "fail"
  PROVE  \E o \in obs : o.origin = "client"
<1>1. Client(obs) # {}
  BY DEF adjudicate_check, AdapterError, Verdict, Inconclusive, Route, adjudicate,
     adjudicate_dns_prefetch, adjudicate_reader_identification, adjudicate_mime_remote_part,
     adjudicate_list_unsubscribe_fetch, adjudicate_background_fetch,
     adjudicate_referrer_disclosure, ProviderOrUnsettled, Unsettled, Pass, Fail, Partial
<1>. QED  BY <1>1 DEF Client, CLIENT_ATTRIBUTABLE_ORIGINS

Result == [status : {"pass", "fail", "partial", "inconclusive", "unsupported", "error"},
           reason : Adjudication \cup Lacking]

LEMMA VerdictType ==
  ASSUME NEW c, NEW s, NEW obs, NEW open
  PROVE  adjudicate_check(c, s, obs, open) \in Result
<1>. USE DEF Result, Adjudication, Verdict, Pass, Fail, Partial, Inconclusive, AdapterError
<1>1. Route(c, s, obs, open) \in Result
  BY DEF Route, adjudicate, adjudicate_dns_prefetch, adjudicate_reader_identification,
     adjudicate_mime_remote_part, adjudicate_list_unsubscribe_fetch,
     adjudicate_background_fetch, adjudicate_referrer_disclosure, ProviderOrUnsettled, Unsettled
<1>2. settle_validity(c, s, open) # "sound" => Inconclusive(settle_validity(c, s, open)) \in Result
  BY DEF settle_validity
<1>. QED  BY <1>1, <1>2 DEF adjudicate_check

(* A contact in the evidence is one that was read.                         *)
LEMMA EvidenceIsRead ==
  ASSUME NEW r, NEW e \in Evidence(r), e.origin = "client"
  PROVE  \E o \in read[r] : o.payload.origin = "client"
  BY DEF Evidence

-----------------------------------------------------------------------------
(***************************************************************************)
(* A run's own steps.                                                      *)
(***************************************************************************)

(* It ends without a claim about the client.                               *)
LEMMA EndsUnscored ==
  ASSUME LanesInv, NEW r \in Run, Onward, TypeOK',
         NEW result, result.status \notin {"pass", "fail"}, End(r, result),
         r \in browser' => r \in browser /\ result = AdapterError,
         UNCHANGED <<plan, probe, state, read, seen, shown>>,
         r \in opened => r \in opened',
         call'[r].pc \in {"idle", "answered"}
  PROVE  RunInv(r)'
<1>. USE DEF LanesInv, RunInv, LanesTypeOK, MeasurementTypeOK
<1>1. pc'[r] = "done" /\ outcome'[r] = result
  BY DEF End, Goto
<1>2. ProbeInv(r)' /\ AskedInv(r)' /\ CallInv(r)' /\ HeldInv(r)' /\ OpenInv(r)' /\ BrowserInv(r)'
  BY <1>1 DEF ProbeInv, AskedInv, CallInv, HeldInv, OpenInv, BrowserInv, Holding, Confirmed, Onward
<1>3. ReadInv(r)'
  <2>1. \A o \in read[r] : o.observed_at \in Nat
    BY DEF Observation, Time
  <2>2. clock \in Nat /\ clock' \in Nat /\ clock' >= clock
    BY DEF Onward, GatewayInv, TypeOK, Time
  <2>. QED  BY <1>1, <2>1, <2>2 DEF ReadInv, Onward
<1>4. VerdictInv(r)'
  BY <1>1 DEF VerdictInv, CleanRun, DisclosedRun, ReadOpenRun
<1>. QED  BY <1>2, <1>3, <1>4

(* A request of a run that is not asking for the state is not under way.   *)
LEMMA NotAsking ==
  ASSUME LanesInv, NEW r \in Run, pc[r] \notin {"state", "refresh", "deliver"}
  PROVE  call[r].pc \in {"idle", "answered"}
  BY DEF LanesInv, RunInv, CallInv

LEMMA RefuseStep ==
  ASSUME LanesInv, NEW r \in Run, Onward, TypeOK',
         (Refuse(r) /\ UNCHANGED lanes) \/ RefuseWebmail(r)
  PROVE  RunInv(r)'
<1>1. /\ pc[r] = "start" /\ UNCHANGED <<vars, plan, probe, state, read, seen, opened, lanes>>
      /\ \E result : End(r, result) /\ result.status \notin {"pass", "fail"}
  BY DEF Refuse, RefuseWebmail, Verdict, AdapterError, Inconclusive
<1>2. r \notin browser
  BY <1>1 DEF LanesInv, RunInv, BrowserInv
<1>. QED  BY <1>1, <1>2, NotAsking, EndsUnscored

LEMMA FailsStep ==
  ASSUME LanesInv, NEW r \in Run, Onward, TypeOK',
         LaneFails(r) \/ (UnknownTest(r) /\ UNCHANGED lanes)
  PROVE  RunInv(r)'
<1>1. AdapterError.status = "error"
  BY DEF AdapterError, Verdict
<1>2. CASE RequestFails(r) /\ UNCHANGED lanes
  <2>1. call'[r].pc = "idle"
    BY <1>2, RunThreads DEF LanesInv, GatewayInv, TypeOK, RequestFails, Idle
  <2>. QED  BY <1>1, <1>2, <2>1, EndsUnscored DEF RequestFails
<1>3. CASE (TestFails(r) \/ ObserverFails(r)) /\ UNCHANGED lanes
  <2>1. call[r].pc \in {"idle", "answered"} /\ UNCHANGED call
    BY <1>3, NotAsking DEF TestFails, ObserverFails, CreateTest
  <2>. QED  BY <1>1, <1>3, <2>1, EndsUnscored DEF TestFails, ObserverFails
<1>. QED
  BY <1>2, <1>3 DEF LaneFails, UnknownTest, CreateFails, CreateWebmailFails

(* It ends with what its adapter adjudicates.                              *)
LEMMA ConcludeStep ==
  ASSUME LanesInv, NEW r \in Run, Onward, TypeOK',
         (Conclude(r) /\ ~Webmail(r) /\ UNCHANGED lanes) \/ ConcludeWebmail(r)
  PROVE  RunInv(r)'
<1>. USE DEF LanesInv, RunInv, LanesTypeOK, MeasurementTypeOK
<1>. DEFINE open == IF Webmail(r) THEN r \in shown ELSE plan[r].observer /\ r \in opened
            check == IF Webmail(r) THEN "remote-content" ELSE plan[r].check
            verdict == adjudicate_check(check, Held(r), Evidence(r), open)
<1>1. /\ pc[r] = "read" /\ UNCHANGED <<vars, plan, probe, state, read, seen, opened, lanes>>
  BY DEF Conclude, ConcludeWebmail
<1>2. \/ /\ End(r, verdict)
         /\ Webmail(r) \/ MissingVectors(plan[r].check, state[r].exercised) = {}
      \/ End(r, Inconclusive("vector-not-exercised"))
  BY DEF Conclude, ConcludeWebmail
<1>3. check = plan[r].check
  BY <1>1 DEF AskedInv
<1>4. /\ state[r] \in Reply /\ Vouched(state[r]) /\ probe[r] \in issued /\ r \notin browser
      /\ call[r].pc \in {"idle", "answered"}
  BY <1>1, NotAsking DEF HeldInv, Holding, ProbeInv, BrowserInv
<1>5. CASE End(r, Inconclusive("vector-not-exercised"))
  <2>1. Inconclusive("vector-not-exercised").status = "inconclusive"
    BY DEF Inconclusive, Verdict
  <2>. QED  BY <1>1, <1>4, <1>5, <2>1, EndsUnscored
<1>6. CASE /\ End(r, verdict)
           /\ Webmail(r) \/ MissingVectors(plan[r].check, state[r].exercised) = {}
  <2>1. pc'[r] = "done" /\ outcome'[r] = verdict
    BY <1>6 DEF End, Goto
  <2>2. ASSUME verdict.status = "pass"
        PROVE  /\ state[r].delivered_at # None
               /\ \A w \in Required : lastUp[w] # None /\ lastUp[w] >= state[r].cutoff
               /\ plan[r].check # "background-fetch" =>
                    r \in opened /\ (plan[r].lane = "email" => plan[r].observer)
               /\ REQUIRED_EXERCISED[plan[r].check] \subseteq state[r].exercised
               /\ Webmail(r) => r \in seen
    <3>1. /\ Held(r).delivered_at # None /\ Held(r).watchers_healthy
          /\ open \/ check = "background-fetch"
      <4>1. adjudicate_check(check, Held(r), Evidence(r), open).status = "pass"
        BY <2>2
      <4>. HIDE DEF check, open, verdict
      <4>2. Held(r).delivered_at # None /\ Held(r).watchers_healthy
        BY <4>1, CleanVerdict
      <4>3. open \/ check = "background-fetch"
        BY <4>1, CleanVerdict
      <4>. QED  BY <4>2, <4>3
    <3>2. state[r].delivered_at # None /\ state[r].watchers_healthy
      BY <3>1 DEF Held
    <3>3. Webmail(r) => r \in opened /\ r \in seen
      BY <1>1, <3>1 DEF OpenInv
    <3>4. plan[r].check # "background-fetch" =>
            r \in opened /\ (plan[r].lane = "email" => plan[r].observer)
      BY <1>3, <3>1, <3>3 DEF Webmail
    <3>5. REQUIRED_EXERCISED["remote-content"] = {}
      BY DEF REQUIRED_EXERCISED, Checks
    <3>6. REQUIRED_EXERCISED[plan[r].check] \subseteq state[r].exercised
      BY <1>3, <1>6, <3>5 DEF MissingVectors
    <3>. QED  BY <1>4, <3>2, <3>3, <3>4, <3>6 DEF Vouched
  <2>3. ASSUME verdict.status = "fail"
        PROVE  \E o \in read[r] : o.payload.origin = "client"
    BY <2>3, DisclosureVerdict, EvidenceIsRead
  <2>. HIDE DEF verdict, check, open
  <2>4. CleanRun(r)'
    BY <1>1, <1>4, <2>1, <2>2 DEF CleanRun
  <2>5. VerdictInv(r)'
    BY <1>1, <2>1, <2>2, <2>3, <2>4 DEF VerdictInv, DisclosedRun, ReadOpenRun, Webmail
  <2>6. /\ ProbeInv(r)' /\ AskedInv(r)' /\ CallInv(r)' /\ HeldInv(r)' /\ OpenInv(r)'
        /\ BrowserInv(r)'
    BY <1>1, <1>4, <2>1 DEF ProbeInv, AskedInv, CallInv, HeldInv, OpenInv, BrowserInv, Holding
  <2>7. ReadInv(r)'
    BY <1>1, <2>1 DEF ReadInv
  <2>. QED  BY <2>5, <2>6, <2>7
<1>. QED  BY <1>2, <1>5, <1>6

(***************************************************************************)
(* A state as the run receives it: the gateway's answer, what it says of   *)
(* the watchers being true of them.                                        *)
(***************************************************************************)
LEMMA ReplyIsSound ==
  ASSUME LanesInv, NEW r \in Run, call[r].pc = "state"
  PROVE  /\ ReplyOf(r) \in Reply
         /\ Vouched(ReplyOf(r))
         /\ Confirmed(probe[r], ReplyOf(r).delivered_at)
         /\ ReplyOf(r).delivered_at = call[r].delivered_at
<1>1. call[r] \in Call
  BY RunThreads DEF LanesInv, GatewayInv, TypeOK
<1>2. ReplyOf(r) \in Reply
  BY <1>1, CallFields DEF ReplyOf, Reply
<1>3. Vouched(ReplyOf(r))
  BY RunThreads DEF LanesInv, GatewayInv, HealthInv, HealthIsVouchedFor, Vouched, ReplyOf
<1>4. Confirmed(probe[r], ReplyOf(r).delivered_at)
  BY DEF LanesInv, RunInv, CallInv, ReplyOf
<1>. QED  BY <1>2, <1>3, <1>4 DEF ReplyOf

(* It goes on, with the state it holds or with one just received.          *)
LEMMA GoesOn ==
  ASSUME LanesInv, NEW r \in Run, Onward, TypeOK',
         pc[r] \notin {"start", "done"}, pc'[r] \in Holding,
         UNCHANGED <<clock, issued, allocated, window_expires_at, delivered_at, lastUp,
                     plan, probe, outcome>>,
         \/ pc[r] \in Holding /\ state'[r] = state[r]
         \/ call[r].pc = "state" /\ state'[r] = ReplyOf(r),
         call'[r].pc \in {"idle", "answered"}
  PROVE  ProbeInv(r)' /\ CallInv(r)' /\ HeldInv(r)' /\ VerdictInv(r)'
<1>. USE DEF LanesInv, RunInv, LanesTypeOK, MeasurementTypeOK
<1>1. ProbeInv(r)' /\ CallInv(r)'
  BY DEF ProbeInv, CallInv
<1>2. state'[r] \in Reply /\ Vouched(state'[r]) /\ Confirmed(probe[r], state'[r].delivered_at)
  BY ReplyIsSound DEF HeldInv
<1>3. HeldInv(r)'
  BY <1>2 DEF HeldInv, Vouched, Confirmed
<1>4. VerdictInv(r)'
  BY DEF VerdictInv, CleanRun, DisclosedRun, ReadOpenRun, Holding
<1>. QED  BY <1>1, <1>3, <1>4

(* The contacts it holds stay what they are.                               *)
LEMMA ReadKept ==
  ASSUME LanesInv, NEW r \in Run, pc'[r] # "start",
         UNCHANGED <<clock, issued, allocated, window_expires_at, probe, read>>
  PROVE  ReadInv(r)'
  BY DEF LanesInv, RunInv, ReadInv

LEMMA CreateStep ==
  ASSUME LanesInv, NEW r \in Run, Onward, TypeOK',
         (CreateProbe(r) /\ ~Webmail(r) /\ UNCHANGED lanes) \/ CreateWebmailProbe(r)
  PROVE  RunInv(r)'
<1>. USE DEF LanesInv, RunInv, LanesTypeOK, MeasurementTypeOK
<1>1. /\ pc[r] = "start" /\ UNCHANGED <<plan, state, read, seen, opened, outcome, lanes>>
      /\ pc'[r] = IF Webmail(r) THEN "deliver" ELSE "state"
  BY DEF CreateProbe, CreateWebmailProbe, Goto, Webmail
<1>2. PICK p \in Probe : CreateTest(p) /\ probe' = [probe EXCEPT ![r] = p]
  BY DEF CreateProbe, CreateWebmailProbe
<1>3. ProbeInv(r)'
  BY <1>1, <1>2 DEF ProbeInv, CreateTest
<1>4. AskedInv(r)'
  <2>1. plan[r].check \in Checks /\ (Webmail(r) => plan[r].check = "remote-content")
    BY DEF CreateProbe, CreateWebmailProbe, Checks
  <2>. QED  BY <1>1, <2>1 DEF AskedInv, Webmail
<1>5. CallInv(r)'
  BY <1>1, <1>2, NotAsking DEF CallInv, CreateTest
<1>6. HeldInv(r)' /\ ReadInv(r)' /\ OpenInv(r)' /\ BrowserInv(r)'
  BY <1>1 DEF HeldInv, Holding, ReadInv, OpenInv, BrowserInv
<1>7. VerdictInv(r)'
  BY <1>1 DEF VerdictInv, CleanRun, DisclosedRun, ReadOpenRun
<1>. QED  BY <1>3, <1>4, <1>5, <1>6, <1>7

(* The gateway serves its request for the state.                           *)
LEMMA GetStateStep ==
  ASSUME LanesInv, NEW r \in Run, Onward, TypeOK', GetState(r), UNCHANGED lanes
  PROVE  RunInv(r)'
<1>. USE DEF LanesInv, RunInv
<1>1. /\ pc[r] \in {"state", "refresh", "deliver"}
      /\ UNCHANGED <<adapter, opened, lanes, clock, issued, store, lastUp>>
  BY DEF GetState, StateBegin, StateEnd
<1>2. CallInv(r)'
  <2>1. CASE StateBegin(r, probe[r]) /\ probe[r] \in allocated
    <3>1. call'[r].pc = "health" /\ call'[r].delivered_at = delivered_at[probe[r]]
      BY <2>1, RunThreads DEF StateBegin, GatewayInv, TypeOK
    <3>. QED  BY <1>1, <3>1 DEF CallInv, Confirmed
  <2>2. CASE StateBegin(r, probe[r]) /\ probe[r] \notin allocated
    <3>1. call'[r].pc = "answered"
      BY <2>2, RunThreads DEF StateBegin, GatewayInv, TypeOK, Answer
    <3>. QED  BY <3>1 DEF CallInv
  <2>3. CASE StateEnd(r)
    <3>1. call[r].pc = "health" /\ call'[r].pc = "state"
          /\ call'[r].delivered_at = call[r].delivered_at
      BY <2>3, RunThreads DEF StateEnd, GatewayInv, TypeOK
    <3>. QED  BY <1>1, <3>1 DEF CallInv, Confirmed
  <2>. QED  BY <2>1, <2>2, <2>3 DEF GetState
<1>3. /\ ProbeInv(r)' /\ AskedInv(r)' /\ HeldInv(r)' /\ ReadInv(r)' /\ OpenInv(r)'
      /\ BrowserInv(r)'
  BY <1>1 DEF ProbeInv, AskedInv, Webmail, HeldInv, Vouched, Confirmed, ReadInv, OpenInv,
     BrowserInv
<1>4. VerdictInv(r)'
  BY <1>1 DEF VerdictInv, CleanRun, DisclosedRun, ReadOpenRun, Webmail
<1>. QED  BY <1>2, <1>3, <1>4

(* It receives a state.                                                    *)
LEMMA ReceiveStep ==
  ASSUME LanesInv, NEW r \in Run, Onward, TypeOK',
         \/ ReceiveState(r) /\ ~Webmail(r) /\ UNCHANGED lanes
         \/ ReceiveRefresh(r) /\ UNCHANGED lanes
         \/ ReceiveDelivery(r)
  PROVE  RunInv(r)'
<1>. USE DEF LanesInv, RunInv, LanesTypeOK, MeasurementTypeOK
<1>1. /\ pc[r] \in {"state", "refresh", "deliver"} /\ call[r].pc = "state"
      /\ pc'[r] \in {"poll", "open", "pause"} /\ (pc[r] = "deliver" <=> pc'[r] # "poll")
      /\ state'[r] = IF pc[r] = "refresh" THEN state[r] ELSE ReplyOf(r)
      /\ UNCHANGED <<clock, issued, store, lastUp, plan, probe, read, seen, opened, outcome,
                     lanes>>
  BY DEF ReceiveState, ReceiveRefresh, ReceiveDelivery, Return, Goto
<1>2. call'[r].pc = "idle"
  BY RunThreads DEF ReceiveState, ReceiveRefresh, ReceiveDelivery, Return, GatewayInv, TypeOK, Idle
<1>3. ProbeInv(r)' /\ CallInv(r)' /\ HeldInv(r)' /\ VerdictInv(r)'
  BY <1>1, <1>2, GoesOn DEF Holding
<1>4. AskedInv(r)' /\ OpenInv(r)' /\ BrowserInv(r)'
  BY <1>1 DEF AskedInv, Webmail, OpenInv, BrowserInv
<1>5. ReadInv(r)'
  BY <1>1, ReadKept
<1>. QED  BY <1>3, <1>4, <1>5

(* It reads the contacts.                                                  *)
LEMMA PollStep ==
  ASSUME LanesInv, NEW r \in Run, Onward, TypeOK', Poll(r), UNCHANGED lanes
  PROVE  RunInv(r)'
<1>. USE DEF LanesInv, RunInv, LanesTypeOK, MeasurementTypeOK
<1>1. /\ pc[r] = "poll" /\ pc'[r] = "contacts" /\ probe[r] \in allocated
      /\ read'[r] = ToSet(observations[probe[r]])
      /\ r \in opened => r \in seen'
      /\ UNCHANGED <<vars, plan, probe, state, opened, outcome, lanes>>
  BY DEF Poll, Goto
<1>2. ProbeInv(r)' /\ CallInv(r)' /\ HeldInv(r)' /\ VerdictInv(r)'
  BY <1>1, NotAsking, GoesOn DEF Holding
<1>3. AskedInv(r)' /\ OpenInv(r)' /\ BrowserInv(r)'
  BY <1>1 DEF AskedInv, Webmail, OpenInv, BrowserInv
<1>4. ReadInv(r)'
  <2>1. probe[r] \in issued
    BY <1>1 DEF ProbeInv
  <2>2. ASSUME NEW o \in read'[r]
        PROVE  o.probe = probe[r] /\ o.observed_at <= clock /\ o.checked <= window_expires_at[probe[r]]
    <3>1. PICK i \in DOMAIN observations[probe[r]] : o = observations[probe[r]][i]
      BY <1>1, <2>2 DEF ToSet
    <3>. QED  BY <1>1, <3>1 DEF GatewayInv, EvidenceInv, AdmittedInWindow
  <2>. QED  BY <1>1, <2>1, <2>2 DEF ReadInv
<1>. QED  BY <1>2, <1>3, <1>4

(* It waits, or goes to the browser or the poll.                           *)
LEMMA WaitStep ==
  ASSUME LanesInv, NEW r \in Run, Onward, TypeOK',
         \/ (ReceiveContacts(r) \/ CheckDeadline(r) \/ Wake(r)) /\ UNCHANGED lanes
         \/ StartBrowser(r) \/ PollUndelivered(r)
  PROVE  RunInv(r)'
<1>. USE DEF LanesInv, RunInv, LanesTypeOK, MeasurementTypeOK
<1>1. /\ \/ /\ pc[r] \in {"contacts", "late", "sleep"}
            /\ pc'[r] \in {"read", "late", "sleep", "refresh"}
            /\ UNCHANGED browser
         \/ pc[r] = "open" /\ pc'[r] = "poll" /\ UNCHANGED browser
         \/ pc[r] = "open" /\ pc'[r] = "browse" /\ state[r].delivered_at # None
      /\ UNCHANGED <<vars, plan, probe, state, read, seen, opened, outcome, shown>>
  BY DEF ReceiveContacts, CheckDeadline, Wake, StartBrowser, PollUndelivered, BeginPoll, Goto
<1>2. ProbeInv(r)' /\ CallInv(r)' /\ HeldInv(r)' /\ VerdictInv(r)'
  BY <1>1, NotAsking, GoesOn DEF Holding
<1>3. AskedInv(r)' /\ OpenInv(r)'
  BY <1>1 DEF AskedInv, Webmail, OpenInv
<1>4. ReadInv(r)'
  BY <1>1, ReadKept
<1>5. BrowserInv(r)'
  <2>1. ProbeInv(r) /\ HeldInv(r) /\ BrowserInv(r)
    OBVIOUS
  <2>. HIDE DEF LanesInv, RunInv, LanesTypeOK, MeasurementTypeOK
  <2>. QED  BY <1>1, <2>1 DEF ProbeInv, HeldInv, Holding, BrowserInv, Confirmed
<1>. QED  BY <1>2, <1>3, <1>4, <1>5

(* It asks for the delivery again.                                         *)
LEMMA ResumeStep ==
  ASSUME LanesInv, NEW r \in Run, Onward, TypeOK', Resume(r)
  PROVE  RunInv(r)'
<1>. USE DEF LanesInv, RunInv, LanesTypeOK, MeasurementTypeOK
<1>1. /\ pc[r] = "pause" /\ pc'[r] = "deliver"
      /\ UNCHANGED <<vars, plan, probe, state, read, seen, opened, outcome, lanes>>
  BY DEF Resume, Goto
<1>2. ProbeInv(r)' /\ AskedInv(r)' /\ CallInv(r)' /\ HeldInv(r)' /\ OpenInv(r)' /\ BrowserInv(r)'
  BY <1>1, NotAsking DEF ProbeInv, AskedInv, Webmail, CallInv, HeldInv, Holding, OpenInv, BrowserInv
<1>3. ReadInv(r)' /\ VerdictInv(r)'
  BY <1>1, ReadKept DEF VerdictInv, CleanRun, DisclosedRun, ReadOpenRun
<1>. QED  BY <1>2, <1>3

(* It drives the browser, which fails, perhaps staying open, or comes back *)
(* closed.                                                                 *)
LEMMA BrowseStep ==
  ASSUME LanesInv, NEW r \in Run, Onward, TypeOK', Browse(r)
  PROVE  RunInv(r)'
<1>. USE DEF LanesInv, RunInv, LanesTypeOK, MeasurementTypeOK
<1>1. /\ pc[r] = "browse" /\ browser' \subseteq browser /\ opened \subseteq opened'
      /\ UNCHANGED <<vars, plan, probe, state, read, seen>>
  BY DEF Browse
<1>2. CASE End(r, AdapterError) /\ UNCHANGED shown
  <2>1. AdapterError.status = "error"
    BY DEF AdapterError, Verdict
  <2>. QED  BY <1>1, <1>2, <2>1, NotAsking, EndsUnscored
<1>3. CASE /\ BeginPoll(r) /\ r \notin browser' /\ UNCHANGED outcome
           /\ r \in shown' => r \in shown \/ r \in opened'
  <2>1. pc'[r] = "poll"
    BY <1>3 DEF BeginPoll, Goto
  <2>2. ProbeInv(r)' /\ CallInv(r)' /\ HeldInv(r)' /\ VerdictInv(r)'
    BY <1>1, <1>3, <2>1, NotAsking, GoesOn DEF Holding
  <2>3. AskedInv(r)' /\ OpenInv(r)' /\ BrowserInv(r)'
    BY <1>1, <1>3, <2>1 DEF AskedInv, Webmail, OpenInv, BrowserInv
  <2>4. ReadInv(r)'
    BY <1>1, <2>1, ReadKept
  <2>. QED  BY <2>2, <2>3, <2>4
<1>. QED  BY <1>2, <1>3 DEF Browse

-----------------------------------------------------------------------------
(***************************************************************************)
(* Every step leaves every variable typed.                                 *)
(***************************************************************************)
Places == {"start", "state", "poll", "contacts", "late", "sleep", "refresh", "read", "done",
           "deliver", "pause", "open", "browse"}

LEMMA EndType ==
  ASSUME LanesTypeOK, NEW r \in Run, NEW result \in Result, End(r, result)
  PROVE  pc' \in [Run -> Places] /\ outcome' \in [Run -> {None} \cup Result]
<1>1. pc \in [Run -> Places] /\ outcome \in [Run -> {None} \cup Result]
  BY DEF LanesTypeOK, MeasurementTypeOK, Places, Result
<1>2. result \in {None} \cup Result
  OBVIOUS
<1>3. pc' \in [Run -> Places]
  BY <1>1 DEF End, Goto, Places
<1>4. outcome' \in [Run -> {None} \cup Result]
  BY <1>1, <1>2 DEF End
<1>. QED  BY <1>3, <1>4

LEMMA ProgressType ==
  ASSUME NEW s \in Reply
  PROVE  Progress(s) \in [delivered_at : Time \cup {None}, watchers_healthy : BOOLEAN]
  BY DEF Progress, Reply

LEMMA BeginPollType ==
  ASSUME LanesInv, NEW r \in Run, pc[r] \in Holding, BeginPoll(r)
  PROVE  /\ pc' \in [Run -> Places] /\ deadline' \in [Run -> Time]
         /\ polled' \in [Run -> [delivered_at : Time \cup {None}, watchers_healthy : BOOLEAN]
                                \cup {None}]
<1>. USE DEF LanesInv, LanesTypeOK, MeasurementTypeOK, GatewayInv, TypeOK
<1>1. state[r] \in Reply /\ probe[r] \in Probe
  BY DEF RunInv, HeldInv, ProbeInv, Holding
<1>2. pc' \in [Run -> Places]
  BY DEF BeginPoll, Goto, Places
<1>3. deadline' \in [Run -> Time]
  BY <1>1, EmailAssumption DEF BeginPoll, Sooner, Time
<1>4. polled' \in [Run -> [delivered_at : Time \cup {None}, watchers_healthy : BOOLEAN]
                          \cup {None}]
  BY <1>1, ProgressType DEF BeginPoll
<1>. QED  BY <1>2, <1>3, <1>4

LEMMA SleepType ==
  ASSUME LanesTypeOK, TypeOK, NEW r \in Run,
         wake' = wake \/ wake' = [wake EXCEPT ![r] = clock + 1]
  PROVE  wake' \in [Run -> Time]
<1>1. clock + 1 \in Time /\ wake \in [Run -> Time]
  BY DEF LanesTypeOK, MeasurementTypeOK, TypeOK, Time
<1>. HIDE DEF Time
<1>. QED  BY <1>1

LEMMA LanesTypeStep ==
  ASSUME LanesInv, [LanesNext]_lanevars
  PROVE  LanesTypeOK'
<1>. USE DEF LanesTypeOK
<1>1. TypeOK'
  BY GatewayStep DEF GatewayInv
<1>2. LanesTypeOK /\ TypeOK
  BY DEF LanesInv, GatewayInv
<1>3. AdapterError \in Result /\ Inconclusive("vector-not-exercised") \in Result
      /\ Verdict("unsupported", "unsupported-check") \in Result
  BY DEF Result, AdapterError, Inconclusive, Verdict, Adjudication
<1>4. ASSUME NEW r \in Run, NEW result \in Result, End(r, result),
             UNCHANGED <<plan, probe, state, polled, deadline, wake, read, seen, opened, shown>>,
             browser' \in SUBSET Run
      PROVE  LanesTypeOK'
  <2>. HIDE <1>3
  <2>. QED  BY <1>1, <1>2, <1>4, EndType DEF MeasurementTypeOK, Places, Result
<1>5. ASSUME NEW r \in Run, Refuse(r) /\ UNCHANGED lanes
      PROVE  LanesTypeOK'
  BY <1>2, <1>3, <1>4, <1>5 DEF Refuse
<1>6. ASSUME NEW r \in Run, LaneFails(r) \/ (UnknownTest(r) /\ UNCHANGED lanes)
      PROVE  LanesTypeOK'
  BY <1>2, <1>3, <1>4, <1>6
  DEF LaneFails, UnknownTest, RequestFails, CreateFails, CreateWebmailFails, TestFails,
      ObserverFails
<1>7. ASSUME NEW r \in Run, RefuseWebmail(r)
      PROVE  LanesTypeOK'
  <2>1. plan[r].lane \in Lacking => Inconclusive(plan[r].lane) \in Result
    BY DEF Inconclusive, Verdict, Result
  <2>. QED  BY <1>2, <1>3, <1>4, <1>7, <2>1 DEF RefuseWebmail
<1>8. ASSUME NEW r \in Run, (Conclude(r) /\ UNCHANGED lanes) \/ ConcludeWebmail(r)
      PROVE  LanesTypeOK'
  BY <1>2, <1>3, <1>4, <1>8, VerdictType DEF Conclude, ConcludeWebmail
<1>9. ASSUME NEW r \in Run, CreateProbe(r) /\ UNCHANGED lanes
      PROVE  LanesTypeOK'
  BY <1>1, <1>2, <1>9 DEF CreateProbe, Goto, MeasurementTypeOK
<1>10. ASSUME NEW r \in Run, CreateWebmailProbe(r)
       PROVE  LanesTypeOK'
  <2>1. deadline' \in [Run -> Time]
    BY <1>2, <1>10, EmailAssumption, GatewayAssumption
    DEF CreateWebmailProbe, Sooner, MeasurementTypeOK, TypeOK, Time
  <2>. QED  BY <1>1, <1>2, <1>10, <2>1 DEF CreateWebmailProbe, Goto, MeasurementTypeOK
<1>11. ASSUME NEW r \in Run, GetState(r) /\ UNCHANGED lanes
       PROVE  LanesTypeOK'
  BY <1>1, <1>2, <1>11 DEF GetState, MeasurementTypeOK
<1>12. ASSUME NEW r \in Run, ReceiveState(r) /\ UNCHANGED lanes
       PROVE  LanesTypeOK'
  <2>1. ReplyOf(r) \in Reply /\ probe[r] \in Probe
    BY <1>12, ReplyIsSound DEF ReceiveState, LanesInv, GatewayInv, TypeOK, RunInv, ProbeInv
  <2>2. deadline' \in [Run -> Time]
    BY <1>2, <1>12, <2>1, EmailAssumption DEF ReceiveState, MeasurementTypeOK, TypeOK, Time
  <2>3. state' \in [Run -> Reply \cup {None}]
    BY <1>2, <1>12, <2>1 DEF ReceiveState, MeasurementTypeOK
  <2>4. polled' \in [Run -> [delivered_at : Time \cup {None}, watchers_healthy : BOOLEAN]
                            \cup {None}]
    BY <1>2, <1>12, <2>1, ProgressType DEF ReceiveState, MeasurementTypeOK
  <2>. QED  BY <1>1, <1>2, <1>12, <2>2, <2>3, <2>4 DEF ReceiveState, Goto, MeasurementTypeOK
<1>13. ASSUME NEW r \in Run, ReceiveRefresh(r) /\ UNCHANGED lanes
       PROVE  LanesTypeOK'
  <2>1. ReplyOf(r) \in Reply
    BY <1>13, ReplyIsSound DEF ReceiveRefresh
  <2>2. polled' \in [Run -> [delivered_at : Time \cup {None}, watchers_healthy : BOOLEAN]
                            \cup {None}]
    BY <1>2, <1>13, <2>1, ProgressType DEF ReceiveRefresh, MeasurementTypeOK
  <2>. QED  BY <1>1, <1>2, <1>13, <2>2 DEF ReceiveRefresh, Goto, MeasurementTypeOK
<1>14. ASSUME NEW r \in Run, ReceiveDelivery(r)
       PROVE  LanesTypeOK'
  <2>1. ReplyOf(r) \in Reply
    BY <1>14, ReplyIsSound DEF ReceiveDelivery
  <2>2. state' \in [Run -> Reply \cup {None}]
    BY <1>2, <1>14, <2>1 DEF ReceiveDelivery, MeasurementTypeOK
  <2>3. wake' \in [Run -> Time]
    BY <1>2, <1>14, SleepType DEF ReceiveDelivery
  <2>. QED  BY <1>1, <1>2, <1>14, <2>2, <2>3 DEF ReceiveDelivery, Goto, MeasurementTypeOK
<1>15. ASSUME NEW r \in Run, Poll(r) /\ UNCHANGED lanes
       PROVE  LanesTypeOK'
  <2>1. probe[r] \in Probe
    BY <1>15, <1>2 DEF Poll, TypeOK
  <2>2. observations[probe[r]] \in Seq(Observation)
    BY <1>2, <2>1 DEF TypeOK
  <2>3. ToSet(observations[probe[r]]) \subseteq Observation
    BY <2>2 DEF ToSet
  <2>4. read' \in [Run -> SUBSET Observation] /\ seen' \in SUBSET Run
    BY <1>2, <1>15, <2>3 DEF Poll, MeasurementTypeOK
  <2>. QED  BY <1>1, <1>2, <1>15, <2>4 DEF Poll, Goto, MeasurementTypeOK
<1>16. ASSUME NEW r \in Run, (ReceiveContacts(r) \/ CheckDeadline(r)) /\ UNCHANGED lanes
       PROVE  LanesTypeOK'
  <2>1. wake' \in [Run -> Time]
    BY <1>2, <1>16, SleepType DEF ReceiveContacts, CheckDeadline
  <2>. QED
    BY <1>1, <1>2, <1>16, <2>1 DEF ReceiveContacts, CheckDeadline, Goto, MeasurementTypeOK
<1>17. ASSUME NEW r \in Run, (Wake(r) /\ UNCHANGED lanes) \/ Resume(r) \/ StartBrowser(r)
       PROVE  LanesTypeOK'
  BY <1>1, <1>2, <1>17 DEF Wake, Resume, StartBrowser, Goto, MeasurementTypeOK
<1>18. ASSUME NEW r \in Run, PollUndelivered(r)
       PROVE  LanesTypeOK'
  BY <1>1, <1>2, <1>18, BeginPollType DEF PollUndelivered, Holding, Places, MeasurementTypeOK
<1>19. ASSUME NEW r \in Run, Browse(r)
       PROVE  LanesTypeOK'
  <2>1. /\ browser' \in SUBSET Run /\ opened' \in SUBSET Run /\ shown' \in SUBSET Run
        /\ UNCHANGED <<vars, plan, probe, state, wake, read, seen>> /\ pc[r] = "browse"
    BY <1>2, <1>19 DEF Browse, MeasurementTypeOK
  <2>2. CASE BeginPoll(r) /\ UNCHANGED outcome
    BY <1>1, <1>2, <2>1, <2>2, BeginPollType DEF Holding, Places, MeasurementTypeOK
  <2>3. CASE End(r, AdapterError) /\ UNCHANGED <<polled, deadline>>
    BY <1>1, <1>2, <1>3, <2>1, <2>3, EndType DEF MeasurementTypeOK, Places, Result
  <2>. QED  BY <1>19, <2>2, <2>3 DEF Browse
<1>20. ASSUME NEW r \in Run, OpenMessage(r) /\ UNCHANGED lanes
       PROVE  LanesTypeOK'
  BY <1>1, <1>2, <1>20 DEF OpenMessage, MeasurementTypeOK
<1>21. CASE (Elsewhere /\ UNCHANGED lanes) \/ UNCHANGED lanevars
  BY <1>1, <1>2, <1>21 DEF Elsewhere, MeasurementTypeOK
<1>. QED
  BY <1>5, <1>6, <1>7, <1>8, <1>9, <1>10, <1>11, <1>12, <1>13, <1>14, <1>15, <1>16, <1>17, <1>18,
     <1>19, <1>20, <1>21
  DEF LanesNext, LaneStep, EmailStep, WebmailStep, SharedStep

-----------------------------------------------------------------------------
(***************************************************************************)
(* The invariant holds from the start and every step keeps it.             *)
(***************************************************************************)
LEMMA OwnStep ==
  ASSUME LanesInv, NEW r \in Run, Onward, TypeOK',
         LaneStep(r) \/ LaneFails(r)
  PROVE  RunInv(r)'
  BY RefuseStep, FailsStep, ConcludeStep, CreateStep, GetStateStep, ReceiveStep, PollStep,
     WaitStep, ResumeStep, BrowseStep
  DEF LaneStep, EmailStep, WebmailStep, SharedStep

LEMMA LanesInitial == LanesInit => LanesInv
<1>. SUFFICES ASSUME LanesInit PROVE LanesInv
  OBVIOUS
<1>. USE DEF LanesInit, MeasurementInit
<1>1. TypeOK
  BY GatewayAssumption DEF Init, EmptyStore, TypeOK, Time, Call
<1>2. HealthInv
  BY GatewayAssumption DEF Init, EmptyStore, HealthInv, BeatsAreVouchedFor, HealthIsVouchedFor, Idle
<1>3. EvidenceInv
  BY DEF Init, EmptyStore, EvidenceInv, IdsInv, RequestInv, Recording, Idle, AdmittedInWindow,
     AcknowledgedIsStored
<1>4. LanesTypeOK
  <2>1. \A r \in Run : plan[r].lane \in {"email", "ready"} \cup Lacking
    BY LanesAssumption
  <2>. QED  BY <1>1, <2>1 DEF LanesTypeOK, MeasurementTypeOK, Time
<1>5. ASSUME NEW r \in Run
      PROVE  RunInv(r)
  <2>1. call[r].pc = "idle"
    BY RunThreads DEF Init, EmptyStore, Idle
  <2>. QED
    BY <1>5, <2>1 DEF RunInv, ProbeInv, AskedInv, CallInv, HeldInv, Holding, ReadInv, OpenInv,
       BrowserInv, VerdictInv, CleanRun, DisclosedRun, ReadOpenRun
<1>. QED  BY <1>1, <1>2, <1>3, <1>4, <1>5 DEF LanesInv, GatewayInv

LEMMA LanesStep == LanesInv /\ [LanesNext]_lanevars => LanesInv'
<1>. SUFFICES ASSUME LanesInv, [LanesNext]_lanevars PROVE LanesInv'
  OBVIOUS
<1>1. GatewayInv' /\ LanesTypeOK' /\ Onward
  BY GatewayStep, LanesTypeStep, GatewayOnward
<1>2. TypeOK'
  BY <1>1 DEF GatewayInv
<1>3. ASSUME NEW r \in Run
      PROVE  RunInv(r)'
  <2>1. ASSUME NEW u \in Run, LaneStep(u) \/ LaneFails(u)
        PROVE  RunInv(r)'
    <3>1. CASE u = r
      BY <1>1, <1>2, <2>1, <3>1, OwnStep
    <3>2. CASE u # r
      BY <1>1, <1>2, <2>1, <3>2, OthersStand, StillKeeps
    <3>. QED  BY <3>1, <3>2
  <2>2. CASE \/ Elsewhere /\ UNCHANGED lanes
             \/ UNCHANGED lanevars
             \/ \E u \in Run : OpenMessage(u) /\ UNCHANGED lanes
    BY <1>1, <1>2, <2>2, SurroundingsStand, StillKeeps
  <2>. QED  BY <2>1, <2>2 DEF LanesNext
<1>. QED  BY <1>1, <1>3 DEF LanesInv

THEOREM LanesCorrect == LanesSpec => []LanesInv
<1>. QED  BY LanesInitial, LanesStep, PTL DEF LanesSpec

(***************************************************************************)
(* Every variable of the two lanes stays typed.                            *)
(***************************************************************************)
THEOREM LanesTypeCorrect == LanesSpec => []LanesTypeOK
BY LanesCorrect, PTL DEF LanesInv

(***************************************************************************)
(* A clean client is claimed only with a confirmed delivery, a window the  *)
(* watchers really watched, an asserted open and the vectors offered:      *)
(* _adjudicate_check's guards, and what its inputs went through on the way *)
(* from the gateway.                                                       *)
(***************************************************************************)
THEOREM CleanCorrect == LanesSpec => []CleanIsEarned
<1>1. LanesInv => CleanIsEarned
  BY DEF LanesInv, RunInv, VerdictInv, CleanRun, CleanIsEarned
<1>. QED  BY <1>1, LanesCorrect, PTL

(***************************************************************************)
(* A disclosure is reported only on a client's contact of the run's own    *)
(* probe, admitted while that probe's window was open.                     *)
(***************************************************************************)
THEOREM DisclosureCorrect == LanesSpec => []DisclosureIsOwn
<1>1. LanesInv => DisclosureIsOwn
  BY DEF LanesInv, RunInv, VerdictInv, DisclosedRun, ReadInv, DisclosureIsOwn
<1>. QED  BY <1>1, LanesCorrect, PTL

(***************************************************************************)
(* What a webmail pass rests on was read with the message open.            *)
(***************************************************************************)
THEOREM ReadOpenCorrect == LanesSpec => []WebmailReadsOpen
<1>1. LanesInv => WebmailReadsOpen
  BY DEF LanesInv, RunInv, VerdictInv, ReadOpenRun, WebmailReadsOpen
<1>. QED  BY <1>1, LanesCorrect, PTL

(***************************************************************************)
(* A browser is driven only for a delivered message, and one that is left  *)
(* open is left by a run that ended with an error.                         *)
(***************************************************************************)
THEOREM BrowserCorrect == LanesSpec => []BrowserIsEarned
<1>1. LanesInv => BrowserIsEarned
  BY DEF BrowserIsEarned, LanesInv, LanesTypeOK, RunInv, BrowserInv, Confirmed
<1>. QED  BY <1>1, LanesCorrect, PTL
=============================================================================
