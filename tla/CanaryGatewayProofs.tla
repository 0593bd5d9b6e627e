------------------------ MODULE CanaryGatewayProofs ------------------------
(***************************************************************************)
(* The gateway's invariants for any number of probes, watchers, worker     *)
(* threads and contacts, any window, any grace and any run length.         *)
(***************************************************************************)
EXTENDS CanaryGateway, TLAPS

-----------------------------------------------------------------------------
(***************************************************************************)
(* What the progress of a request carries.                                 *)
(***************************************************************************)
LEMMA CallFields ==
  ASSUME NEW c \in Call
  PROVE  /\ c.pc = "stamp" => c.probe \in Probe /\ c.payload \in Payload /\ c.checked \in Time
         /\ c.pc \in Recording => c.observation \in Observation
         /\ c.pc = "health" => /\ c.probe \in Probe
                               /\ c.delivered_at \in Time \cup {None}
                               /\ c.cutoff \in Int
         /\ c.pc = "state" => /\ c.probe \in Probe
                              /\ c.delivered_at \in Time \cup {None}
                              /\ c.cutoff \in Int
                              /\ c.watchers_healthy \in BOOLEAN
                              /\ c.exercised \in SUBSET Vector
         /\ Idle.pc = "idle"
  BY DEF Call, Idle, Recording

(* Every step leaves every variable typed.                                 *)
LEMMA TypeStep == TypeOK /\ [Next]_vars => TypeOK'
<1>. USE GatewayAssumption
<1>. SUFFICES ASSUME TypeOK, [Next]_vars
              PROVE  TypeOK'
  OBVIOUS
<1>. USE DEF TypeOK, Time, store, watching
<1>1. CASE Tick
  BY <1>1 DEF Tick
<1>2. CASE Restart
  BY <1>2 DEF Restart, Call
<1>3. ASSUME NEW w \in Watcher, NEW at \in 0..clock, Heartbeat(w, at)
      PROVE  TypeOK'
  BY <1>3 DEF Heartbeat
<1>4. ASSUME NEW p \in Probe, NEW at \in ReportedDelivery, MarkDelivered(p, at)
      PROVE  TypeOK'
  BY <1>4 DEF MarkDelivered
<1>5. ASSUME NEW p \in Probe, NEW vectors \in SUBSET Vector, MarkExercised(p, vectors)
      PROVE  TypeOK'
  BY <1>5 DEF MarkExercised
<1>6. ASSUME NEW p \in Probe, CreateTest(p)
      PROVE  TypeOK'
  <2>. <<>> \in Seq(Observation)
    OBVIOUS
  <2>. QED  BY <1>6 DEF CreateTest
<1>7. ASSUME NEW t \in Thread, NEW p \in Probe, NEW x \in Payload, RecordCheck(t, p, x)
      PROVE  TypeOK'
  <2>1. /\ Answer(404) \in Call /\ Answer(409) \in Call
        /\ [pc |-> "stamp", probe |-> p, payload |-> x, checked |-> clock] \in Call
    BY DEF Call, Answer
  <2>2. \E c \in Call : call' = [call EXCEPT ![t] = c]
    BY <1>7, <2>1 DEF RecordCheck
  <2>3. call' \in [Thread -> Call]
    BY <2>2
  <2>. QED  BY <1>7, <2>3 DEF RecordCheck
<1>8. ASSUME NEW t \in Thread, RecordStamp(t)
      PROVE  TypeOK'
  <2>. DEFINE o == [probe |-> call[t].probe, payload |-> call[t].payload,
                    checked |-> call[t].checked, observed_at |-> clock]
  <2>1. o \in Observation
    BY <1>8, CallFields DEF RecordStamp, Observation
  <2>2. [pc |-> "append", observation |-> o] \in Call
    BY <2>1 DEF Call, Recording
  <2>. QED  BY <1>8, <2>2 DEF RecordStamp
<1>9. ASSUME NEW t \in Thread, RecordAppend(t)
      PROVE  TypeOK'
  <2>. DEFINE o == call[t].observation
  <2>1. o \in Observation
    BY <1>9, CallFields DEF RecordAppend, Recording
  <2>2. [pc |-> "exercise", observation |-> o] \in Call
    BY <2>1 DEF Call, Recording
  <2>3. Append(observations[o.probe], o) \in Seq(Observation)
    <3>1. o.probe \in Probe
      BY <2>1 DEF Observation
    <3>2. observations[o.probe] \in Seq(Observation)
      BY <3>1
    <3>. QED  BY <2>1, <3>2
  <2>4. observations' = [observations EXCEPT ![o.probe] = Append(observations[o.probe], o)]
    BY <1>9 DEF RecordAppend
  <2>5. observations' \in [Probe -> Seq(Observation)]
    BY <2>1, <2>3, <2>4
  <2>. QED  BY <1>9, <2>2, <2>5 DEF RecordAppend
<1>10. ASSUME NEW t \in Thread, RecordExercise(t)
       PROVE  TypeOK'
  <2>. DEFINE o == call[t].observation
  <2>1. o \in Observation /\ o.payload.vector \in Vector
    BY <1>10, CallFields DEF RecordExercise, Recording, Observation
  <2>2. Answer(201) \in Call
    BY DEF Call, Answer
  <2>. QED  BY <1>10, <2>1, <2>2 DEF RecordExercise
<1>11. ASSUME NEW t \in Thread, NEW p \in Probe, StateBegin(t, p)
       PROVE  TypeOK'
  <2>. /\ Answer(404) \in Call
       /\ [pc |-> "health", probe |-> p, delivered_at |-> delivered_at[p],
           cutoff |-> clock - Grace] \in Call
    BY DEF Call, Answer
  <2>. QED  BY <1>11 DEF StateBegin
<1>12. ASSUME NEW t \in Thread, StateEnd(t)
       PROVE  TypeOK'
  <2>. DEFINE c == call[t]
  <2>1. /\ c.probe \in Probe /\ c.delivered_at \in Nat \cup {None} /\ c.cutoff \in Int
    BY <1>12, CallFields DEF StateEnd
  <2>2. WatchersHealthy(c.cutoff) \in BOOLEAN
    BY DEF WatchersHealthy
  <2>3. [pc |-> "state", probe |-> c.probe, delivered_at |-> c.delivered_at,
         cutoff |-> c.cutoff, watchers_healthy |-> WatchersHealthy(c.cutoff),
         exercised |-> exercised[c.probe]] \in Call
    BY <2>1, <2>2 DEF Call
  <2>. QED  BY <1>12, <2>3 DEF StateEnd
<1>13. ASSUME NEW t \in Thread, Return(t)
       PROVE  TypeOK'
  BY <1>13 DEF Return, Call
<1>14. CASE UNCHANGED vars
  BY <1>14 DEF vars
<1>. QED
  BY <1>1, <1>2, <1>3, <1>4, <1>5, <1>6, <1>7, <1>8, <1>9, <1>10, <1>11, <1>12, <1>13, <1>14
     DEF Next, Surroundings, RecordStep, StateStep

(* Every variable stays typed.                                             *)
THEOREM TypeCorrect == Spec => []TypeOK
<1>1. Init => TypeOK
  BY GatewayAssumption DEF Init, EmptyStore, TypeOK, Time, Call
<1>. QED  BY <1>1, TypeStep, PTL DEF Spec

-----------------------------------------------------------------------------
(***************************************************************************)
(* Watcher health.  A stored beat was sent by a watcher that has been up   *)
(* at or after the beat's time, and an instant a watcher was up stays in   *)
(* its past: that is what makes an answer computed from the beats true of  *)
(* the watchers, and keeps it true after the clock has moved on.           *)
(***************************************************************************)
BeatsAreVouchedFor ==
  \A w \in Watcher :
    /\ lastUp[w] # None => lastUp[w] <= clock
    /\ heartbeats[w] # None => lastUp[w] # None /\ heartbeats[w] <= lastUp[w]

HealthInv == BeatsAreVouchedFor /\ HealthIsVouchedFor

(* No step takes back an instant at which a watcher was up. *)
LEMMA UpIsKept ==
  ASSUME TypeOK, BeatsAreVouchedFor, [Next]_vars
  PROVE  \A w \in Watcher : lastUp[w] # None => lastUp'[w] # None /\ lastUp'[w] >= lastUp[w]
<1>. USE GatewayAssumption
<1>1. CASE Tick
  BY <1>1 DEF Tick, TypeOK, Time, BeatsAreVouchedFor
<1>2. CASE UNCHANGED lastUp
  BY <1>2 DEF TypeOK, Time
<1>. QED
  BY <1>1, <1>2 DEF Next, Surroundings, RecordStep, StateStep, Restart, Heartbeat, MarkDelivered,
     MarkExercised, CreateTest, RecordCheck, RecordStamp, RecordAppend, RecordExercise,
     StateBegin, StateEnd, Return, vars, watching

LEMMA BeatsStayVouchedFor ==
  ASSUME TypeOK, BeatsAreVouchedFor, [Next]_vars
  PROVE  BeatsAreVouchedFor'
<1>. USE GatewayAssumption DEF TypeOK, Time, BeatsAreVouchedFor
<1>1. CASE Tick
  BY <1>1 DEF Tick
<1>2. CASE Restart
  BY <1>2 DEF Restart
<1>3. ASSUME NEW w \in Watcher, NEW at \in 0..clock, Heartbeat(w, at)
      PROVE  BeatsAreVouchedFor'
  BY <1>3 DEF Heartbeat
<1>4. CASE UNCHANGED <<clock, watching>>
  BY <1>4 DEF watching
<1>. QED
  BY <1>1, <1>2, <1>3, <1>4 DEF Next, Surroundings, RecordStep, StateStep, MarkDelivered,
     MarkExercised, CreateTest, RecordCheck, RecordStamp, RecordAppend, RecordExercise,
     StateBegin, StateEnd, Return, vars

(* No step makes an answer vouch for a watcher that was down.              *)
LEMMA HealthStep == TypeOK /\ TypeOK' /\ HealthInv /\ [Next]_vars => HealthInv'
<1>. USE GatewayAssumption
<1>. SUFFICES ASSUME TypeOK, TypeOK', HealthInv, [Next]_vars
              PROVE  HealthIsVouchedFor'
  BY BeatsStayVouchedFor DEF HealthInv
<1>0. \A w \in Watcher : lastUp[w] # None => lastUp'[w] # None /\ lastUp'[w] >= lastUp[w]
  BY UpIsKept DEF HealthInv
<1>. SUFFICES ASSUME NEW u \in Thread, call'[u].pc = "state", call'[u].watchers_healthy,
                     NEW v \in Required
              PROVE  lastUp'[v] # None /\ lastUp'[v] >= call'[u].cutoff
  BY DEF HealthIsVouchedFor
<1>a. v \in Watcher /\ call[u] \in Call /\ call'[u] \in Call /\ call'[u].cutoff \in Int
  BY CallFields DEF TypeOK
<1>b. ASSUME call'[u] = call[u]
      PROVE  lastUp'[v] # None /\ lastUp'[v] >= call'[u].cutoff
  <2>1. lastUp[v] # None /\ lastUp[v] >= call[u].cutoff
    BY <1>b DEF HealthInv, HealthIsVouchedFor
  <2>2. lastUp[v] \in Nat /\ lastUp'[v] \in Nat
    BY <1>0, <1>a, <2>1 DEF TypeOK, Time
  <2>. QED  BY <1>0, <1>a, <1>b, <2>1, <2>2
<1>1. CASE call' = call
  BY <1>b, <1>1
<1>2. CASE Restart
  BY <1>2 DEF Restart, Idle
<1>3. ASSUME NEW t \in Thread, StateEnd(t), t = u
      PROVE  lastUp'[v] # None /\ lastUp'[v] >= call'[u].cutoff
  <2>1. WatchersHealthy(call[u].cutoff) /\ call'[u].cutoff = call[u].cutoff
    BY <1>3 DEF StateEnd, TypeOK
  <2>2. heartbeats[v] # None /\ heartbeats[v] >= call[u].cutoff
    BY <2>1 DEF WatchersHealthy
  <2>3. lastUp[v] # None /\ heartbeats[v] <= lastUp[v]
    BY <1>a, <2>2 DEF HealthInv, BeatsAreVouchedFor
  <2>4. lastUp[v] \in Nat /\ lastUp'[v] \in Nat /\ heartbeats[v] \in Nat
    BY <1>0, <1>a, <2>2, <2>3 DEF TypeOK, Time
  <2>. QED  BY <1>0, <1>a, <2>1, <2>2, <2>3, <2>4
<1>4. ASSUME NEW t \in Thread, t # u, call' = [call EXCEPT ![t] = call'[t]]
      PROVE  lastUp'[v] # None /\ lastUp'[v] >= call'[u].cutoff
  <2>1. call'[u] = call[u]
    BY <1>4 DEF TypeOK
  <2>. QED  BY <1>b, <2>1
<1>5. ASSUME NEW t \in Thread, StateStep(t) \/ RecordStep(t) \/ Return(t)
      PROVE  call' = [call EXCEPT ![t] = call'[t]]
  BY <1>5 DEF StateStep, RecordStep, RecordCheck, RecordStamp, RecordAppend, RecordExercise,
     StateBegin, StateEnd, Return, TypeOK
<1>6. ASSUME NEW t \in Thread, t = u, RecordStep(t) \/ Return(t)
                                    \/ \E p \in Probe : StateBegin(t, p)
      PROVE  FALSE
  <2>1. call'[u].pc # "state"
    BY <1>6 DEF RecordStep, RecordCheck, RecordStamp, RecordAppend, RecordExercise,
       StateBegin, Return, TypeOK, Answer, Idle
  <2>. QED  BY <2>1
<1>7. ASSUME NEW t \in Thread, RecordStep(t) \/ StateStep(t) \/ Return(t)
      PROVE  lastUp'[v] # None /\ lastUp'[v] >= call'[u].cutoff
  BY <1>3, <1>4, <1>5, <1>6, <1>7 DEF StateStep
<1>8. CASE \/ Tick \/ UNCHANGED vars
           \/ \E w \in Watcher, at \in 0..clock : Heartbeat(w, at)
           \/ \E p \in Probe, at \in ReportedDelivery : MarkDelivered(p, at)
           \/ \E p \in Probe, vectors \in SUBSET Vector : MarkExercised(p, vectors)
           \/ \E p \in Probe : CreateTest(p)
  BY <1>1, <1>8 DEF Tick, Heartbeat, MarkDelivered, MarkExercised, CreateTest, vars
<1>. QED  BY <1>2, <1>7, <1>8 DEF Next, Surroundings

(***************************************************************************)
(* An answer that calls the window watched has every required watcher up   *)
(* no earlier than its cutoff.                                             *)
(***************************************************************************)
THEOREM HealthCorrect == Spec => []HealthIsVouchedFor
<1>1. Init => HealthInv
  BY GatewayAssumption DEF Init, EmptyStore, HealthInv, BeatsAreVouchedFor, HealthIsVouchedFor, Idle
<1>. QED  BY <1>1, HealthStep, TypeCorrect, PTL DEF Spec, HealthInv

-----------------------------------------------------------------------------
(***************************************************************************)
(* Evidence.  A request past record's expiry test still names a probe that *)
(* exists (only a restart removes one, and it ends the request) whose      *)
(* window held its reading of the clock; past the append, its observation  *)
(* is stored.  An id is never drawn twice, so creating a test touches no   *)
(* such probe.                                                             *)
(***************************************************************************)
Stored(o) == \E i \in DOMAIN observations[o.probe] : observations[o.probe][i] = o

Admitted(probe, checked) ==
  /\ probe \in allocated
  /\ checked <= window_expires_at[probe]
  /\ checked <= clock

RequestInv(t) ==
  /\ call[t].pc = "stamp" => Admitted(call[t].probe, call[t].checked)
  /\ call[t].pc \in Recording =>
       /\ Admitted(call[t].observation.probe, call[t].observation.checked)
       /\ call[t].observation.checked <= call[t].observation.observed_at
       /\ call[t].observation.observed_at <= clock
  /\ call[t].pc = "exercise" => Stored(call[t].observation)

IdsInv ==
  /\ allocated \subseteq issued
  /\ \A o \in acknowledged : o.probe \in issued

EvidenceInv ==
  /\ IdsInv
  /\ \A t \in Thread : RequestInv(t)
  /\ AdmittedInWindow
  /\ AcknowledgedIsStored

(* What appending leaves in place. *)
LEMMA AppendKeeps ==
  ASSUME NEW S, NEW s \in Seq(S), NEW x \in S
  PROVE  /\ DOMAIN Append(s, x) = 1..(Len(s) + 1)
         /\ DOMAIN s = 1..Len(s)
         /\ \A i \in DOMAIN s : i \in DOMAIN Append(s, x) /\ Append(s, x)[i] = s[i]
         /\ Append(s, x)[Len(s) + 1] = x
  OBVIOUS

(* A step that lets time pass or stands aside keeps the evidence. *)
LEMMA EvidenceKept ==
  ASSUME TypeOK, EvidenceInv, TypeOK',
         clock' >= clock, allocated' = allocated, issued' = issued,
         window_expires_at' = window_expires_at, observations' = observations,
         acknowledged' = acknowledged,
         \A p \in allocated : exercised[p] \subseteq exercised'[p],
         \A u \in Thread : call'[u] = call[u] \/ RequestInv(u)'
  PROVE  EvidenceInv'
<1>. USE DEF EvidenceInv, TypeOK, Time
<1>1. IdsInv'
  BY DEF IdsInv
<1>2. \A u \in Thread : RequestInv(u)'
  <2>. SUFFICES ASSUME NEW u \in Thread, call'[u] = call[u]
                PROVE  RequestInv(u)'
    OBVIOUS
  <2>1. call'[u] = call[u] /\ call[u] \in Call
    OBVIOUS
  <2>2. RequestInv(u)
    OBVIOUS
  <2>3. /\ call[u].pc = "stamp" => call[u].checked \in Nat
        /\ call[u].pc \in Recording => /\ call[u].observation.checked \in Nat
                                       /\ call[u].observation.observed_at \in Nat
    BY <2>1, CallFields DEF Observation
  <2>. QED  BY <2>1, <2>2, <2>3 DEF RequestInv, Admitted, Stored, Recording
<1>3. AdmittedInWindow'
  <2>. SUFFICES ASSUME NEW p \in allocated', NEW i \in DOMAIN observations'[p]
                PROVE  /\ observations'[p][i].probe = p
                       /\ observations'[p][i].checked <= window_expires_at'[p]
                       /\ observations'[p][i].checked <= observations'[p][i].observed_at
                       /\ observations'[p][i].observed_at <= clock'
    BY DEF AdmittedInWindow
  <2>1. observations[p] \in Seq(Observation)
    OBVIOUS
  <2>2. observations[p][i] \in Observation
    BY <2>1
  <2>. QED  BY <2>2 DEF AdmittedInWindow, Observation
<1>4. AcknowledgedIsStored'
  BY DEF AcknowledgedIsStored, Observation
<1>. QED  BY <1>1, <1>2, <1>3, <1>4

(* A request that is not recording has nothing to keep. *)
LEMMA NotRecording ==
  ASSUME NEW t \in Thread, call'[t].pc \notin {"stamp", "append", "exercise"}
  PROVE  RequestInv(t)'
  BY DEF RequestInv, Recording

LEMMA CheckKeepsEvidence ==
  ASSUME TypeOK, TypeOK', EvidenceInv,
         NEW t \in Thread, NEW p \in Probe, NEW x \in Payload, RecordCheck(t, p, x)
  PROVE  EvidenceInv'
<1>1. RequestInv(t)'
  <2>1. CASE p \in allocated /\ clock <= window_expires_at[p]
    <3>1. call'[t] = [pc |-> "stamp", probe |-> p, payload |-> x, checked |-> clock]
      BY <2>1 DEF RecordCheck, TypeOK, Time
    <3>. QED  BY <2>1, <3>1 DEF RecordCheck, store, RequestInv, Admitted, Recording, TypeOK, Time
  <2>2. CASE ~(p \in allocated /\ clock <= window_expires_at[p])
    <3>1. call'[t] \in {Answer(404), Answer(409)}
      BY <2>2 DEF RecordCheck, TypeOK
    <3>. QED  BY <3>1, NotRecording DEF Answer
  <2>. QED  BY <2>1, <2>2
<1>. QED  BY <1>1, EvidenceKept DEF RecordCheck, store, TypeOK, Time

LEMMA StampKeepsEvidence ==
  ASSUME TypeOK, TypeOK', EvidenceInv, NEW t \in Thread, RecordStamp(t)
  PROVE  EvidenceInv'
<1>1. /\ call'[t].pc = "append"
      /\ call'[t].observation.probe = call[t].probe
      /\ call'[t].observation.checked = call[t].checked
      /\ call'[t].observation.observed_at = clock
  BY DEF RecordStamp, TypeOK
<1>2. Admitted(call[t].probe, call[t].checked)
  BY DEF RecordStamp, EvidenceInv, RequestInv
<1>3. call[t].checked \in Nat
  BY CallFields DEF RecordStamp, TypeOK, Time
<1>4. RequestInv(t)'
  BY <1>1, <1>2, <1>3 DEF RecordStamp, store, RequestInv, Admitted, Recording, TypeOK, Time
<1>. QED  BY <1>4, EvidenceKept DEF RecordStamp, store, TypeOK, Time

(* The append: one observation more, for a probe whose window admitted it. *)
LEMMA AppendKeepsEvidence ==
  ASSUME TypeOK, TypeOK', EvidenceInv, NEW t \in Thread, RecordAppend(t)
  PROVE  EvidenceInv'
<1>. USE DEF TypeOK, Time
<1>1. PICK o \in Observation : o = call[t].observation
  BY CallFields DEF RecordAppend, Recording
<1>2. /\ Admitted(o.probe, o.checked)
      /\ o.checked <= o.observed_at /\ o.observed_at <= clock
  BY <1>1 DEF RecordAppend, EvidenceInv, RequestInv, Recording
<1>3. /\ observations' = [observations EXCEPT ![o.probe] = Append(observations[o.probe], o)]
      /\ call' = [call EXCEPT ![t] = [pc |-> "exercise", observation |-> o]]
      /\ UNCHANGED <<clock, issued, allocated, window_expires_at, exercised, acknowledged>>
  BY <1>1 DEF RecordAppend
<1>4. o.probe \in Probe /\ observations[o.probe] \in Seq(Observation)
  BY DEF Observation
<1>5. ASSUME NEW p \in Probe, NEW i \in DOMAIN observations[p]
      PROVE  i \in DOMAIN observations'[p] /\ observations'[p][i] = observations[p][i]
  <2>1. CASE p = o.probe
    BY <1>3, <1>4, <2>1, AppendKeeps
  <2>2. CASE p # o.probe
    BY <1>3, <2>2
  <2>. QED  BY <2>1, <2>2
<1>6. ASSUME NEW q \in Observation, Stored(q)
      PROVE  Stored(q)'
  <2>1. q.probe \in Probe
    BY DEF Observation
  <2>. QED  BY <1>5, <1>6, <2>1 DEF Stored
<1>7. Stored(o)'
  <2>1. /\ Len(observations[o.probe]) + 1 \in DOMAIN observations'[o.probe]
        /\ observations'[o.probe][Len(observations[o.probe]) + 1] = o
    <3>1. observations'[o.probe] = Append(observations[o.probe], o)
      BY <1>3, <1>4
    <3>. QED  BY <1>4, <3>1, AppendKeeps
  <2>. QED  BY <2>1 DEF Stored
<1>8. IdsInv'
  BY <1>3 DEF EvidenceInv, IdsInv
<1>9. ASSUME NEW u \in Thread
      PROVE  RequestInv(u)'
  <2>1. CASE u = t
    <3>1. call'[u] = [pc |-> "exercise", observation |-> o]
      BY <1>3, <2>1
    <3>. QED  BY <1>2, <1>3, <1>7, <3>1 DEF RequestInv, Admitted, Recording
  <2>2. CASE u # t
    <3>1. call'[u] = call[u] /\ call[u] \in Call /\ RequestInv(u)
      BY <1>3, <2>2 DEF EvidenceInv
    <3>2. call[u].pc = "exercise" => call[u].observation \in Observation /\ Stored(call[u].observation)
      BY <3>1, CallFields DEF RequestInv, Recording
    <3>3. call[u].pc = "exercise" => \E q \in Observation : q = call'[u].observation /\ Stored(q)'
      BY <1>6, <3>1, <3>2
    <3>4. call'[u].pc = "exercise" => Stored(call[u].observation)'
      BY <3>1, <3>3 DEF Stored
    <3>. QED  BY <1>3, <3>1, <3>4 DEF RequestInv, Admitted
  <2>. QED  BY <2>1, <2>2
<1>10. AdmittedInWindow'
  <2>. SUFFICES ASSUME NEW p \in allocated, NEW i \in DOMAIN observations'[p]
                PROVE  /\ observations'[p][i].probe = p
                       /\ observations'[p][i].checked <= window_expires_at[p]
                       /\ observations'[p][i].checked <= observations'[p][i].observed_at
                       /\ observations'[p][i].observed_at <= clock
    BY <1>3 DEF AdmittedInWindow
  <2>1. CASE i \in DOMAIN observations[p]
    BY <1>5, <2>1 DEF EvidenceInv, AdmittedInWindow
  <2>2. CASE i \notin DOMAIN observations[p]
    <3>1. p = o.probe /\ observations'[p] = Append(observations[p], o)
      BY <1>3, <1>4, <2>2
    <3>2. i = Len(observations[p]) + 1
      BY <1>4, <2>2, <3>1, AppendKeeps
    <3>3. observations'[p][i] = o
      BY <1>4, <3>1, <3>2, AppendKeeps
    <3>. QED  BY <1>2, <3>1, <3>3 DEF Admitted
  <2>. QED  BY <2>1, <2>2
<1>11. AcknowledgedIsStored'
  <2>1. ASSUME NEW q \in acknowledged, q.probe \in allocated
        PROVE  Stored(q)' /\ q.payload.vector \in exercised'[q.probe]
    <3>1. Stored(q) /\ q.payload.vector \in exercised[q.probe]
      BY <2>1 DEF EvidenceInv, AcknowledgedIsStored, Stored
    <3>. QED  BY <1>3, <1>6, <3>1
  <2>. QED  BY <1>3, <2>1 DEF AcknowledgedIsStored, Stored
<1>. QED  BY <1>8, <1>9, <1>10, <1>11 DEF EvidenceInv

(* The acknowledgement: the stored observation's vector is marked exercised. *)
LEMMA ExerciseKeepsEvidence ==
  ASSUME TypeOK, TypeOK', EvidenceInv, NEW t \in Thread, RecordExercise(t)
  PROVE  EvidenceInv'
<1>. USE DEF TypeOK, Time
<1>1. PICK o \in Observation : o = call[t].observation
  BY CallFields DEF RecordExercise, Recording
<1>2. Admitted(o.probe, o.checked) /\ Stored(o)
  BY <1>1 DEF RecordExercise, EvidenceInv, RequestInv, Recording
<1>3. /\ exercised' = [exercised EXCEPT ![o.probe] = exercised[o.probe] \cup {o.payload.vector}]
      /\ acknowledged' = acknowledged \cup {o}
      /\ call' = [call EXCEPT ![t] = Answer(201)]
      /\ UNCHANGED <<clock, issued, allocated, window_expires_at, observations>>
  BY <1>1 DEF RecordExercise
<1>4. IdsInv'
  BY <1>2, <1>3 DEF EvidenceInv, IdsInv, Admitted
<1>5. ASSUME NEW u \in Thread
      PROVE  RequestInv(u)'
  <2>1. CASE u = t
    BY <1>3, <2>1, NotRecording DEF Answer
  <2>2. CASE u # t
    <3>1. call'[u] = call[u] /\ RequestInv(u)
      BY <1>3, <2>2 DEF EvidenceInv
    <3>. QED  BY <1>3, <3>1 DEF RequestInv, Admitted, Stored
  <2>. QED  BY <2>1, <2>2
<1>6. AdmittedInWindow'
  BY <1>3 DEF EvidenceInv, AdmittedInWindow
<1>7. AcknowledgedIsStored'
  <2>1. o.probe \in Probe /\ \A q \in Observation : q.probe \in Probe
    BY DEF Observation
  <2>2. \A p \in Probe : exercised[p] \subseteq exercised'[p]
    BY <1>3, <2>1
  <2>3. o.payload.vector \in exercised'[o.probe]
    BY <1>3, <2>1
  <2>. QED  BY <1>2, <1>3, <2>1, <2>2, <2>3 DEF EvidenceInv, AcknowledgedIsStored, Stored
<1>. QED  BY <1>4, <1>5, <1>6, <1>7 DEF EvidenceInv

(* A new test starts without contacts under an id nobody has been told of. *)
LEMMA CreateKeepsEvidence ==
  ASSUME TypeOK, TypeOK', EvidenceInv, NEW p \in Probe, CreateTest(p)
  PROVE  EvidenceInv'
<1>. USE DEF TypeOK, Time
<1>1. p \notin allocated /\ \A o \in acknowledged : o.probe # p
  BY DEF CreateTest, EvidenceInv, IdsInv
<1>2. \A q \in Probe \ {p} : /\ observations'[q] = observations[q]
                             /\ exercised'[q] = exercised[q]
                             /\ window_expires_at'[q] = window_expires_at[q]
  BY DEF CreateTest
<1>3. observations'[p] = <<>> /\ UNCHANGED <<clock, call, acknowledged>>
  BY DEF CreateTest
<1>4. IdsInv'
  BY DEF CreateTest, EvidenceInv, IdsInv
<1>5. ASSUME NEW u \in Thread
      PROVE  RequestInv(u)'
  <2>1. call'[u] = call[u] /\ RequestInv(u) /\ allocated \subseteq allocated'
    BY <1>3 DEF CreateTest, EvidenceInv
  <2>. QED  BY <1>1, <1>2, <1>3, <2>1 DEF RequestInv, Admitted, Stored, Recording
<1>6. AdmittedInWindow'
  <2>. SUFFICES ASSUME NEW q \in allocated', NEW i \in DOMAIN observations'[q]
                PROVE  /\ observations'[q][i].probe = q
                       /\ observations'[q][i].checked <= window_expires_at'[q]
                       /\ observations'[q][i].checked <= observations'[q][i].observed_at
                       /\ observations'[q][i].observed_at <= clock'
    BY DEF AdmittedInWindow
  <2>1. CASE q = p
    BY <1>3, <2>1
  <2>2. CASE q # p
    BY <1>2, <1>3, <2>2 DEF CreateTest, EvidenceInv, AdmittedInWindow
  <2>. QED  BY <2>1, <2>2
<1>7. AcknowledgedIsStored'
  BY <1>1, <1>2, <1>3 DEF CreateTest, EvidenceInv, AcknowledgedIsStored, Observation
<1>. QED  BY <1>4, <1>5, <1>6, <1>7 DEF EvidenceInv

LEMMA EvidenceInductive ==
  ASSUME TypeOK, TypeOK', EvidenceInv, [Next]_vars
  PROVE  EvidenceInv'
<1>. USE GatewayAssumption
<1>1. CASE Restart
  BY <1>1 DEF Restart, EvidenceInv, IdsInv, RequestInv, Recording, Idle, AdmittedInWindow,
     AcknowledgedIsStored
<1>2. CASE \/ Tick \/ UNCHANGED vars
           \/ \E w \in Watcher, at \in 0..clock : Heartbeat(w, at)
           \/ \E p \in Probe, at \in ReportedDelivery : MarkDelivered(p, at)
           \/ \E p \in Probe, vectors \in SUBSET Vector : MarkExercised(p, vectors)
  <2>1. /\ clock' >= clock /\ call' = call
        /\ UNCHANGED <<issued, allocated, window_expires_at, observations, acknowledged>>
    BY <1>2 DEF Tick, Heartbeat, MarkDelivered, MarkExercised, vars, store, TypeOK, Time
  <2>2. \A p \in allocated : exercised[p] \subseteq exercised'[p]
    BY <1>2 DEF Tick, Heartbeat, MarkDelivered, MarkExercised, vars, store, TypeOK
  <2>. QED  BY <2>1, <2>2, EvidenceKept
<1>3. ASSUME NEW p \in Probe, CreateTest(p)
      PROVE  EvidenceInv'
  BY <1>3, CreateKeepsEvidence
<1>4. ASSUME NEW t \in Thread, RecordStep(t)
      PROVE  EvidenceInv'
  BY <1>4, CheckKeepsEvidence, StampKeepsEvidence, AppendKeepsEvidence, ExerciseKeepsEvidence
     DEF RecordStep
<1>5. ASSUME NEW t \in Thread, StateStep(t) \/ Return(t)
      PROVE  EvidenceInv'
  <2>1. call'[t].pc \notin {"stamp", "append", "exercise"}
    BY <1>5 DEF StateStep, StateBegin, StateEnd, Return, TypeOK, Answer, Idle
  <2>2. \A u \in Thread \ {t} : call'[u] = call[u]
    BY <1>5 DEF StateStep, StateBegin, StateEnd, Return, TypeOK
  <2>. QED
    BY <1>5, <2>1, <2>2, NotRecording, EvidenceKept DEF StateStep, StateBegin, StateEnd, Return,
       store, TypeOK, Time
<1>. QED  BY <1>1, <1>2, <1>3, <1>4, <1>5 DEF Next, Surroundings

LEMMA EvidenceInvariant == Spec => []EvidenceInv
<1>1. Init => EvidenceInv
  BY DEF Init, EmptyStore, EvidenceInv, IdsInv, RequestInv, Recording, Idle, AdmittedInWindow,
     AcknowledgedIsStored
<1>. QED  BY <1>1, EvidenceInductive, TypeCorrect, PTL DEF Spec

(***************************************************************************)
(* Every kept contact was tested against its own probe's open window.      *)
(***************************************************************************)
THEOREM AdmissionCorrect == Spec => []AdmittedInWindow
BY EvidenceInvariant, PTL DEF EvidenceInv

(***************************************************************************)
(* No acknowledged contact is lost while its probe exists.                 *)
(***************************************************************************)
THEOREM AcknowledgementCorrect == Spec => []AcknowledgedIsStored
BY EvidenceInvariant, PTL DEF EvidenceInv

-----------------------------------------------------------------------------
LEMMA PrefixOfAppend ==
  ASSUME NEW S, NEW s \in Seq(S), NEW x \in S
  PROVE  IsPrefix(s, s) /\ IsPrefix(s, Append(s, x))
<1>1. IsPrefix(s, s)
  BY DEF IsPrefix
<1>2. IsPrefix(s, Append(s, x))
  BY DEF IsPrefix
<1>. QED  BY <1>1, <1>2

(***************************************************************************)
(* While a probe exists its evidence only grows.                           *)
(***************************************************************************)
THEOREM GrowthCorrect == Spec => EvidenceOnlyGrows
<1>. USE GatewayAssumption
<1>. DEFINE Grows(p) ==
       /\ IsPrefix(observations[p], observations'[p])
       /\ exercised[p] \subseteq exercised'[p]
       /\ window_expires_at'[p] = window_expires_at[p]
       /\ delivered_at[p] # None => delivered_at'[p] # None
<1>1. TypeOK /\ EvidenceInv /\ [Next]_vars => [\A p \in allocated \cap allocated' : Grows(p)]_vars
  <2>. SUFFICES ASSUME TypeOK, EvidenceInv, Next, NEW p \in allocated, p \in allocated'
                PROVE  Grows(p)
    OBVIOUS
  <2>. USE DEF TypeOK, Time
  <2>0. /\ p \in Probe /\ p \in issued
        /\ observations[p] \in Seq(Observation)
        /\ IsPrefix(observations[p], observations[p])
    BY DEF EvidenceInv, IdsInv, IsPrefix
  <2>1. CASE Restart
    BY <2>1 DEF Restart
  <2>2. ASSUME NEW q \in Probe, CreateTest(q)
        PROVE  Grows(p)
    BY <2>0, <2>2 DEF CreateTest
  <2>3. ASSUME NEW q \in Probe, NEW at \in ReportedDelivery, MarkDelivered(q, at)
        PROVE  Grows(p)
    BY <2>0, <2>3 DEF MarkDelivered
  <2>4. ASSUME NEW q \in Probe, NEW vectors \in SUBSET Vector, MarkExercised(q, vectors)
        PROVE  Grows(p)
    BY <2>0, <2>4 DEF MarkExercised
  <2>5. ASSUME NEW t \in Thread, RecordExercise(t)
        PROVE  Grows(p)
    BY <2>0, <2>5 DEF RecordExercise
  <2>6. ASSUME NEW t \in Thread, RecordAppend(t)
        PROVE  Grows(p)
    <3>1. PICK o \in Observation : o = call[t].observation
      BY <2>6, CallFields DEF RecordAppend, Recording
    <3>2. observations' = [observations EXCEPT ![o.probe] = Append(observations[o.probe], o)]
      BY <2>6, <3>1 DEF RecordAppend
    <3>3. observations'[p] = observations[p] \/ observations'[p] = Append(observations[p], o)
      BY <2>0, <3>2
    <3>4. IsPrefix(observations[p], observations'[p])
      <4>1. IsPrefix(observations[p], Append(observations[p], o))
        BY <2>0, PrefixOfAppend
      <4>. QED  BY <2>0, <3>3, <4>1, Zenon
    <3>. QED  BY <2>6, <3>4 DEF RecordAppend
  <2>7. CASE UNCHANGED store
    BY <2>0, <2>7 DEF store
  <2>. QED
    BY <2>1, <2>2, <2>3, <2>4, <2>5, <2>6, <2>7 DEF Next, Surroundings, RecordStep, StateStep,
       Tick, Heartbeat, RecordCheck, RecordStamp, StateBegin, StateEnd, Return
<1>. QED  BY <1>1, TypeCorrect, EvidenceInvariant, PTL DEF Spec, EvidenceOnlyGrows

-----------------------------------------------------------------------------
(***************************************************************************)
(* The gateway implements the evidence store.                              *)
(***************************************************************************)
(* One field of one probe changes. *)
LEMMA KeptFields ==
  ASSUME NEW p \in allocated, allocated' = allocated, window_expires_at' = window_expires_at,
         \A q \in allocated \ {p} : /\ delivered_at'[q] = delivered_at[q]
                                    /\ exercised'[q] = exercised[q]
                                    /\ observations'[q] = observations[q]
  PROVE  /\ (exercised'[p] = exercised[p] /\ observations'[p] = observations[p]) =>
              Kept' = [Kept EXCEPT ![p].delivered = delivered_at'[p]]
         /\ (delivered_at'[p] = delivered_at[p] /\ observations'[p] = observations[p]) =>
              Kept' = [Kept EXCEPT ![p].vectors = exercised'[p]]
         /\ (delivered_at'[p] = delivered_at[p] /\ exercised'[p] = exercised[p]) =>
              Kept' = [Kept EXCEPT ![p].contacts = observations'[p]]
  BY DEF Kept

LEMMA LastOfAppend ==
  ASSUME NEW s \in Seq(Observation), NEW x \in Observation
  PROVE  Append(s, x) # << >> /\ Append(s, x)[Len(Append(s, x))] = x
<1>1. Len(Append(s, x)) = Len(s) + 1 /\ Len(s) \in Nat
  OBVIOUS
<1>2. Append(s, x) # << >>
  BY <1>1
<1>. QED  BY <1>1, <1>2

LEMMA StoreStep == TypeOK /\ EvidenceInv /\ [Next]_vars => [Contract!Next]_(Contract!vars)
<1>. SUFFICES ASSUME TypeOK, EvidenceInv, [Next]_vars
              PROVE  Contract!Next \/ UNCHANGED <<clock, issued, Kept, acknowledged>>
  BY DEF Contract!vars
<1>. USE GatewayAssumption DEF TypeOK, Time, Contract!Next
<1>1. CASE Tick
  BY <1>1 DEF Tick, Contract!Wait, Kept, store
<1>2. CASE Restart
  BY <1>2 DEF Restart, Contract!Lose, Contract!Empty, Kept
<1>3. ASSUME NEW p \in Probe, NEW at \in ReportedDelivery, MarkDelivered(p, at)
      PROVE  Contract!Next
  <2>1. p \in allocated /\ allocated' = allocated /\ delivered_at'[p] # None
    BY <1>3 DEF MarkDelivered
  <2>2. Kept' = [Kept EXCEPT ![p].delivered = delivered_at'[p]]
    BY <1>3, <2>1, KeptFields DEF MarkDelivered
  <2>3. Kept'[p].delivered = delivered_at'[p] /\ p \in DOMAIN Kept /\ p \in DOMAIN Kept'
    BY <2>1 DEF Kept
  <2>4. Contract!Deliver(p)
    BY <1>3, <2>1, <2>2, <2>3 DEF MarkDelivered, Contract!Deliver
  <2>. QED  BY <2>3, <2>4
<1>4. ASSUME NEW p \in Probe, NEW vectors \in SUBSET Vector, MarkExercised(p, vectors)
      PROVE  Contract!Next
  <2>1. p \in allocated /\ allocated' = allocated /\ exercised[p] \subseteq exercised'[p]
    BY <1>4 DEF MarkExercised
  <2>2. Kept' = [Kept EXCEPT ![p].vectors = exercised'[p]]
    BY <1>4, <2>1, KeptFields DEF MarkExercised
  <2>3. /\ Kept'[p].vectors = exercised'[p] /\ Kept[p].vectors = exercised[p]
        /\ p \in DOMAIN Kept /\ p \in DOMAIN Kept'
    BY <2>1 DEF Kept
  <2>4. Contract!Offer(p)
    BY <1>4, <2>1, <2>2, <2>3 DEF MarkExercised, Contract!Offer
  <2>. QED  BY <2>3, <2>4
<1>5. ASSUME NEW p \in Probe, CreateTest(p)
      PROVE  Contract!Next
  <2>1. p \notin allocated /\ allocated' = allocated \cup {p}
    BY <1>5 DEF CreateTest, EvidenceInv, IdsInv
  <2>2. Kept'[p] = [expires |-> clock + Window, delivered |-> None, vectors |-> {},
                    contacts |-> << >>]
    BY <1>5, <2>1 DEF CreateTest, Kept
  <2>3. DOMAIN Kept' = DOMAIN Kept \cup {p} /\ \A q \in DOMAIN Kept : Kept'[q] = Kept[q]
    BY <1>5, <2>1 DEF CreateTest, Kept
  <2>4. Kept'[p].expires = clock + Window /\ clock + Window >= clock
    BY <2>2
  <2>5. Contract!Open(p)
    BY <1>5, <2>2, <2>3, <2>4 DEF CreateTest, Contract!Open
  <2>6. p \in issued'
    BY <1>5 DEF CreateTest
  <2>. QED  BY <2>5, <2>6
<1>6. ASSUME NEW t \in Thread, RecordAppend(t)
      PROVE  Contract!Next
  <2>1. PICK o \in Observation : o = call[t].observation
    BY <1>6, CallFields DEF RecordAppend, Recording
  <2>. DEFINE p == o.probe
  <2>2. /\ p \in allocated /\ o.checked <= window_expires_at[p]
        /\ o.checked <= o.observed_at /\ o.observed_at <= clock
    BY <1>6, <2>1 DEF RecordAppend, EvidenceInv, RequestInv, Admitted, Recording
  <2>3. /\ observations' = [observations EXCEPT ![p] = Append(observations[p], o)]
        /\ UNCHANGED <<clock, issued, allocated, window_expires_at, delivered_at, exercised,
                       acknowledged>>
    BY <1>6, <2>1 DEF RecordAppend
  <2>4. observations[p] \in Seq(Observation) /\ observations'[p] = Append(observations[p], o)
    BY <2>2, <2>3
  <2>5. /\ observations'[p] # << >>
        /\ observations'[p][Len(observations'[p])] = o
    <3>1. /\ Append(observations[p], o) # << >>
          /\ Append(observations[p], o)[Len(Append(observations[p], o))] = o
      BY <2>4, LastOfAppend
    <3>. QED  BY <2>4, <3>1, Zenon
  <2>6. Kept' = [Kept EXCEPT ![p].contacts = Append(observations[p], o)]
    BY <2>2, <2>3, <2>4, KeptFields
  <2>7. /\ Kept'[p].contacts = observations'[p] /\ Kept[p].contacts = observations[p]
        /\ Kept[p].expires = window_expires_at[p]
        /\ p \in DOMAIN Kept /\ p \in DOMAIN Kept'
    BY <2>2, <2>3 DEF Kept
  <2>8. Contract!Keep(p)
    BY <2>2, <2>3, <2>5, <2>6, <2>7 DEF Contract!Keep
  <2>. QED  BY <2>7, <2>8
<1>7. ASSUME NEW t \in Thread, RecordExercise(t)
      PROVE  Contract!Next
  <2>1. PICK o \in Observation : o = call[t].observation
    BY <1>7, CallFields DEF RecordExercise, Recording
  <2>. DEFINE p == o.probe
  <2>2. p \in allocated /\ \E i \in DOMAIN observations[p] : observations[p][i] = o
    BY <1>7, <2>1 DEF RecordExercise, EvidenceInv, RequestInv, Admitted, Stored, Recording
  <2>3. /\ exercised' = [exercised EXCEPT ![p] = exercised[p] \cup {o.payload.vector}]
        /\ acknowledged' = acknowledged \cup {o}
        /\ UNCHANGED <<clock, issued, allocated, window_expires_at, delivered_at, observations>>
    BY <1>7, <2>1 DEF RecordExercise
  <2>4. exercised'[p] = exercised[p] \cup {o.payload.vector}
    BY <2>2, <2>3
  <2>5. Kept' = [Kept EXCEPT ![p].vectors = exercised[p] \cup {o.payload.vector}]
    BY <2>2, <2>3, <2>4, KeptFields
  <2>6. /\ Kept[p].contacts = observations[p] /\ Kept[p].vectors = exercised[p]
        /\ p \in DOMAIN Kept /\ p \in DOMAIN Kept'
    BY <2>2, <2>3 DEF Kept
  <2>7. Contract!Tell(p)
    BY <2>2, <2>3, <2>5, <2>6 DEF Contract!Tell
  <2>. QED  BY <2>6, <2>7
<1>8. CASE UNCHANGED <<clock, issued, store, acknowledged>>
  BY <1>8 DEF store, Kept
<1>9. ASSUME NEW w \in Watcher, NEW at \in 0..clock, Heartbeat(w, at)
      PROVE  UNCHANGED <<clock, issued, store, acknowledged>>
  BY <1>9 DEF Heartbeat
<1>10. ASSUME NEW t \in Thread,
              \/ \E p \in Probe, x \in Payload : RecordCheck(t, p, x)
              \/ RecordStamp(t) \/ StateStep(t) \/ Return(t)
       PROVE  UNCHANGED <<clock, issued, store, acknowledged>>
  BY <1>10 DEF RecordCheck, RecordStamp, StateStep, StateBegin, StateEnd, Return
<1>11. CASE UNCHANGED vars
  BY <1>8, <1>11 DEF vars
<1>. QED
  BY <1>1, <1>2, <1>3, <1>4, <1>5, <1>6, <1>7, <1>8, <1>9, <1>10, <1>11
  DEF Next, Surroundings, RecordStep

(* Every contact is kept in one step, in time, and told of only then; and  *)
(* what is kept is lost only all at once.                                  *)
THEOREM GatewayImplementsContract == Spec => ImplementsContract
<1>1. Init => Contract!Init
  BY DEF Init, EmptyStore, Contract!Init, Contract!Empty, Kept
<1>. QED
  BY <1>1, StoreStep, TypeCorrect, EvidenceInvariant, PTL
  DEF Spec, ImplementsContract, Contract!Spec
=============================================================================
