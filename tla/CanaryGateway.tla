--------------------------- MODULE CanaryGateway ---------------------------
(***************************************************************************)
(* The canary gateway: gateway/src/canary_gateway/store.py behind the      *)
(* routes of app.py.                                                       *)
(*                                                                         *)
(* The routes are plain `def` functions, so the server runs each request   *)
(* on a worker thread and the store is shared by all of them without a     *)
(* lock.  A thread is modelled by `call`, the progress of the request it   *)
(* runs.  Requests whose effect depends on what happens between two of     *)
(* their Python calls (record, state) take one step per such call; the     *)
(* others are one step.  `probe.exercised | {...}` is one step: no Python  *)
(* call separates its read from its write, so the interpreter does not     *)
(* switch threads there.                                                   *)
(*                                                                         *)
(* A test and its probe are created together and found by either id, so    *)
(* one element of Probe stands for both ids.                               *)
(***************************************************************************)
EXTENDS Integers, Sequences, SequencesExt

CONSTANTS
  Probe,            \* ids secrets.token_hex can draw
  Vector,           \* canary vectors
  Payload,          \* what a contact carries beside its probe id
  Watcher,          \* collectors that send heartbeats
  Required,         \* required_watchers
  Thread,           \* worker threads of the server
  Window,           \* window_seconds
  Grace,            \* watcher_grace
  ReportedDelivery, \* delivery times the mail path reports: instants, or None for "now"
  MaxTime,          \* bound: the clock
  MaxObservations,  \* bound: contacts stored per probe before no more arrive
  MaxRestarts,      \* bound: restarts of the service
  None              \* Python's None

ASSUME GatewayAssumption ==
  /\ Required \subseteq Watcher
  /\ Window \in Nat /\ Grace \in Nat
  /\ MaxTime \in Nat /\ MaxObservations \in Nat /\ MaxRestarts \in Nat
  /\ ReportedDelivery \subseteq Nat \cup {None}
  /\ None \notin Int
  /\ \A x \in Payload : x.vector \in Vector

VARIABLES
  clock,              \* utc_now()
  issued,             \* history: every id ever drawn, so that none is drawn twice
  allocated,          \* the keys of _by_test and _by_probe
  window_expires_at,  \* Probe.window_expires_at
  delivered_at,       \* Probe.delivered_at
  exercised,          \* Probe.exercised
  observations,       \* Probe.observations
  heartbeats,         \* _heartbeats
  lastUp,             \* the last instant each watcher was running
  call,               \* the request each worker thread is running
  acknowledged,       \* history: observations whose collector got a 201
  restarts            \* restarts so far

store == <<allocated, window_expires_at, delivered_at, exercised, observations>>
watching == <<heartbeats, lastUp>>
vars == <<clock, issued, store, watching, call, acknowledged, restarts>>

Time == Nat
Observation == [probe : Probe, payload : Payload, checked : Time, observed_at : Time]

(***************************************************************************)
(* The states of a worker thread.  `checked` is the clock reading the      *)
(* expiry test of record used; the program does not keep it.               *)
(***************************************************************************)
Idle == [pc |-> "idle"]
Answer(status) == [pc |-> "answered", status |-> status]
Recording == {"append", "exercise"}
Call ==
  {Idle}
    \cup [pc : {"answered"}, status : {201, 404, 409}]
    \cup [pc : {"stamp"}, probe : Probe, payload : Payload, checked : Time]
    \cup [pc : Recording, observation : Observation]
    \cup [pc : {"health"}, probe : Probe, delivered_at : Time \cup {None}, cutoff : Int]
    \cup [pc : {"state"}, probe : Probe, delivered_at : Time \cup {None}, cutoff : Int,
          watchers_healthy : BOOLEAN, exercised : SUBSET Vector]

TypeOK ==
  /\ clock \in Time
  /\ issued \in SUBSET Probe
  /\ allocated \in SUBSET Probe
  /\ window_expires_at \in [Probe -> Time]
  /\ delivered_at \in [Probe -> Time \cup {None}]
  /\ exercised \in [Probe -> SUBSET Vector]
  /\ observations \in [Probe -> Seq(Observation)]
  /\ heartbeats \in [Watcher -> Time \cup {None}]
  /\ lastUp \in [Watcher -> Time \cup {None}]
  /\ call \in [Thread -> Call]
  /\ acknowledged \in SUBSET Observation
  /\ restarts \in Nat

EmptyStore ==
  /\ allocated = {}
  /\ window_expires_at = [p \in Probe |-> 0]
  /\ delivered_at = [p \in Probe |-> None]
  /\ exercised = [p \in Probe |-> {}]
  /\ observations = [p \in Probe |-> <<>>]
  /\ heartbeats = [w \in Watcher |-> None]
  /\ call = [t \in Thread |-> Idle]

Init ==
  /\ EmptyStore
  /\ clock = 0
  /\ issued = {}
  /\ lastUp \in [Watcher -> {None, 0}]
  /\ acknowledged = {}
  /\ restarts = 0

-----------------------------------------------------------------------------
(***************************************************************************)
(* The surroundings: time, and the watchers, which are not part of this    *)
(* service.  Any of them may be running or not at the next instant.  A     *)
(* watcher stamps its beats with its own (here, the same) clock; beats are *)
(* delayed, duplicated and reordered on their way.                         *)
(***************************************************************************)
Tick ==
  /\ clock < MaxTime
  /\ clock' = clock + 1
  /\ \E running \in SUBSET Watcher :
       lastUp' = [w \in Watcher |-> IF w \in running THEN clock + 1 ELSE lastUp[w]]
  /\ UNCHANGED <<issued, store, heartbeats, call, acknowledged, restarts>>

(***************************************************************************)
(* POST /v1/watchers/heartbeat.  The stored time is the beat's own, and it *)
(* replaces whatever was stored, older or newer.                           *)
(***************************************************************************)
Heartbeat(w, at) ==
  /\ lastUp[w] # None /\ at <= lastUp[w]
  /\ heartbeats' = [heartbeats EXCEPT ![w] = at]
  /\ UNCHANGED <<clock, issued, store, lastUp, call, acknowledged, restarts>>

(* Mutant: one live watcher is enough. *)
AnyWatcherHealthy(cutoff) ==
  \E w \in Required : heartbeats[w] # None /\ heartbeats[w] >= cutoff

WatchersHealthy(cutoff) ==
  \A w \in Required : heartbeats[w] # None /\ heartbeats[w] >= cutoff

-----------------------------------------------------------------------------
(***************************************************************************)
(* POST /v1/tests.                                                         *)
(***************************************************************************)
CreateTest(p) ==
  /\ p \notin issued
  /\ issued' = issued \cup {p}
  /\ allocated' = allocated \cup {p}
  /\ window_expires_at' = [window_expires_at EXCEPT ![p] = clock + Window]
  /\ delivered_at' = [delivered_at EXCEPT ![p] = None]
  /\ exercised' = [exercised EXCEPT ![p] = {}]
  /\ observations' = [observations EXCEPT ![p] = <<>>]
  /\ UNCHANGED <<clock, watching, call, acknowledged, restarts>>

(* Mutant: an omitted delivery time is stored as it came. *)
MarkDeliveredVerbatim(p, at) ==
  /\ p \in allocated
  /\ delivered_at' = [delivered_at EXCEPT ![p] = at]
  /\ UNCHANGED <<clock, issued, allocated, window_expires_at, exercised, observations,
                 watching, call, acknowledged, restarts>>

(***************************************************************************)
(* POST /v1/tests/delivered, the mail path's assertion; a second one       *)
(* replaces the first.  An unknown probe is a 404 that changes nothing.    *)
(***************************************************************************)
MarkDelivered(p, at) ==
  /\ p \in allocated
  /\ delivered_at' = [delivered_at EXCEPT ![p] = IF at = None THEN clock ELSE at]
  /\ UNCHANGED <<clock, issued, allocated, window_expires_at, exercised, observations,
                 watching, call, acknowledged, restarts>>

(***************************************************************************)
(* mark_exercised, which the message-sending path calls on the store.      *)
(***************************************************************************)
MarkExercised(p, vectors) ==
  /\ p \in allocated
  /\ exercised' = [exercised EXCEPT ![p] = @ \cup vectors]
  /\ UNCHANGED <<clock, issued, allocated, window_expires_at, delivered_at, observations,
                 watching, call, acknowledged, restarts>>

-----------------------------------------------------------------------------
(* Mutant: the window is not tested. *)
RecordCheckAlways(t, p, x) ==
  /\ call[t] = Idle
  /\ Len(observations[p]) < MaxObservations
  /\ call' = [call EXCEPT ![t] =
                IF p \in allocated
                THEN [pc |-> "stamp", probe |-> p, payload |-> x, checked |-> clock]
                ELSE Answer(404)]
  /\ UNCHANGED <<clock, issued, store, watching, acknowledged, restarts>>

(***************************************************************************)
(* record, called by POST /v1/contacts and by the canary route itself.     *)
(***************************************************************************)
RecordCheck(t, p, x) ==
  /\ call[t] = Idle
  /\ Len(observations[p]) < MaxObservations
  /\ \/ /\ p \notin allocated
        /\ call' = [call EXCEPT ![t] = Answer(404)]
     \/ /\ p \in allocated
        /\ clock > window_expires_at[p]
        /\ call' = [call EXCEPT ![t] = Answer(409)]
     \/ /\ p \in allocated
        /\ clock <= window_expires_at[p]
        /\ call' = [call EXCEPT ![t] =
                      [pc |-> "stamp", probe |-> p, payload |-> x, checked |-> clock]]
  /\ UNCHANGED <<clock, issued, store, watching, acknowledged, restarts>>

RecordStamp(t) ==
  /\ call[t].pc = "stamp"
  /\ call' = [call EXCEPT ![t] =
                [pc |-> "append",
                 observation |-> [probe |-> call[t].probe, payload |-> call[t].payload,
                                  checked |-> call[t].checked, observed_at |-> clock]]]
  /\ UNCHANGED <<clock, issued, store, watching, acknowledged, restarts>>

(* Mutant: the contact is appended instead of the observation made of it. *)
RecordAppendContact(t) ==
  /\ call[t].pc = "append"
  /\ LET o == call[t].observation
     IN  /\ observations' = [observations EXCEPT ![o.probe] = Append(@, o.payload)]
         /\ call' = [call EXCEPT ![t] = [pc |-> "exercise", observation |-> o]]
  /\ UNCHANGED <<clock, issued, allocated, window_expires_at, delivered_at, exercised,
                 watching, acknowledged, restarts>>

(* Mutant: the contacts recorded before are forgotten. *)
RecordAppendAlone(t) ==
  /\ call[t].pc = "append"
  /\ LET o == call[t].observation
     IN  /\ observations' = [observations EXCEPT ![o.probe] = <<o>>]
         /\ call' = [call EXCEPT ![t] = [pc |-> "exercise", observation |-> o]]
  /\ UNCHANGED <<clock, issued, allocated, window_expires_at, delivered_at, exercised,
                 watching, acknowledged, restarts>>

RecordAppend(t) ==
  /\ call[t].pc = "append"
  /\ LET o == call[t].observation
     IN  /\ observations' = [observations EXCEPT ![o.probe] = Append(@, o)]
         /\ call' = [call EXCEPT ![t] = [pc |-> "exercise", observation |-> o]]
  /\ UNCHANGED <<clock, issued, allocated, window_expires_at, delivered_at, exercised,
                 watching, acknowledged, restarts>>

(* Mutant: the vector replaces the exercised ones. *)
RecordExerciseAlone(t) ==
  /\ call[t].pc = "exercise"
  /\ LET o == call[t].observation
     IN  /\ exercised' = [exercised EXCEPT ![o.probe] = {o.payload.vector}]
         /\ acknowledged' = acknowledged \cup {o}
  /\ call' = [call EXCEPT ![t] = Answer(201)]
  /\ UNCHANGED <<clock, issued, allocated, window_expires_at, delivered_at, observations,
                 watching, restarts>>

RecordExercise(t) ==
  /\ call[t].pc = "exercise"
  /\ LET o == call[t].observation
     IN  /\ exercised' = [exercised EXCEPT ![o.probe] = @ \cup {o.payload.vector}]
         /\ acknowledged' = acknowledged \cup {o}
  /\ call' = [call EXCEPT ![t] = Answer(201)]
  /\ UNCHANGED <<clock, issued, allocated, window_expires_at, delivered_at, observations,
                 watching, restarts>>

(***************************************************************************)
(* GET /v1/tests/{id}/state.  The store reads the delivery time, then      *)
(* calls watchers_healthy, which reads the clock, then the heartbeats; the *)
(* exercised vectors are read last.                                        *)
(***************************************************************************)
StateBegin(t, p) ==
  /\ call[t] = Idle
  /\ call' = [call EXCEPT ![t] =
                IF p \in allocated
                THEN [pc |-> "health", probe |-> p, delivered_at |-> delivered_at[p],
                      cutoff |-> clock - Grace]
                ELSE Answer(404)]
  /\ UNCHANGED <<clock, issued, store, watching, acknowledged, restarts>>

StateEnd(t) ==
  /\ call[t].pc = "health"
  /\ LET c == call[t]
     IN  call' = [call EXCEPT ![t] =
                    [pc |-> "state", probe |-> c.probe, delivered_at |-> c.delivered_at,
                     cutoff |-> c.cutoff, watchers_healthy |-> WatchersHealthy(c.cutoff),
                     exercised |-> exercised[c.probe]]]
  /\ UNCHANGED <<clock, issued, store, watching, acknowledged, restarts>>

(* The response is sent and the worker thread takes another request. *)
Return(t) ==
  /\ call[t].pc \in {"answered", "state"}
  /\ call' = [call EXCEPT ![t] = Idle]
  /\ UNCHANGED <<clock, issued, store, watching, acknowledged, restarts>>

(***************************************************************************)
(* The process dies and starts again.  The store is in memory, so every    *)
(* probe, contact and heartbeat is gone, and so is every running request.  *)
(***************************************************************************)
Restart ==
  /\ restarts < MaxRestarts
  /\ restarts' = restarts + 1
  /\ allocated' = {}
  /\ window_expires_at' = [p \in Probe |-> 0]
  /\ delivered_at' = [p \in Probe |-> None]
  /\ exercised' = [p \in Probe |-> {}]
  /\ observations' = [p \in Probe |-> <<>>]
  /\ heartbeats' = [w \in Watcher |-> None]
  /\ call' = [t \in Thread |-> Idle]
  /\ UNCHANGED <<clock, issued, lastUp, acknowledged>>

Surroundings ==
  \/ Tick
  \/ Restart
  \/ \E w \in Watcher, at \in 0..clock : Heartbeat(w, at)
  \/ \E p \in Probe : \/ \E at \in ReportedDelivery : MarkDelivered(p, at)
                      \/ \E vectors \in SUBSET Vector : MarkExercised(p, vectors)

RecordStep(t) ==
  \/ \E p \in Probe, x \in Payload : RecordCheck(t, p, x)
  \/ RecordStamp(t)
  \/ RecordAppend(t)
  \/ RecordExercise(t)

StateStep(t) ==
  \/ \E p \in Probe : StateBegin(t, p)
  \/ StateEnd(t)

Next ==
  \/ Surroundings
  \/ \E p \in Probe : CreateTest(p)
  \/ \E t \in Thread : RecordStep(t) \/ StateStep(t) \/ Return(t)

Spec == Init /\ [][Next]_vars

-----------------------------------------------------------------------------
(***************************************************************************)
(* A contact is kept only for the probe it named and only if record saw    *)
(* that probe's window open: README.md:31 and the class comment at         *)
(* store.py:94.  Its own stamp is a later reading than the one tested, so  *)
(* it may lie past the window.                                             *)
(***************************************************************************)
AdmittedInWindow ==
  \A p \in allocated : \A i \in DOMAIN observations[p] :
    LET o == observations[p][i]
    IN  /\ o.probe = p
        /\ o.checked <= window_expires_at[p]
        /\ o.checked <= o.observed_at /\ o.observed_at <= clock

(***************************************************************************)
(* What a collector was told is recorded stays recorded, with its vector   *)
(* marked exercised, for as long as the probe exists: no other request, in *)
(* any interleaving, loses it, and a probe id drawn later never revives a  *)
(* probe whose contacts a restart has dropped.                             *)
(***************************************************************************)
AcknowledgedIsStored ==
  \A o \in acknowledged :
    o.probe \in allocated =>
      /\ \E i \in DOMAIN observations[o.probe] : observations[o.probe][i] = o
      /\ o.payload.vector \in exercised[o.probe]

(***************************************************************************)
(* A window is called watched only if every required watcher really was    *)
(* running no earlier than the cutoff the answer was computed with: late,  *)
(* repeated and reordered beats can hide a live watcher but never vouch    *)
(* for a dead one (gateway/README.md:19).                                  *)
(***************************************************************************)
HealthIsVouchedFor ==
  \A t \in Thread :
    (call[t].pc = "state" /\ call[t].watchers_healthy) =>
      \A w \in Required : lastUp[w] # None /\ lastUp[w] >= call[t].cutoff

(***************************************************************************)
(* While a probe exists its evidence only grows: contacts keep their place,*)
(* exercised vectors stay exercised, the window does not move and a        *)
(* confirmed delivery is not taken back.                                   *)
(***************************************************************************)
EvidenceOnlyGrows ==
  [][\A p \in allocated \cap allocated' :
       /\ IsPrefix(observations[p], observations'[p])
       /\ exercised[p] \subseteq exercised'[p]
       /\ window_expires_at'[p] = window_expires_at[p]
       /\ delivered_at[p] # None => delivered_at'[p] # None]_vars

(***************************************************************************)
(* The gateway implements the evidence store: although record reads the    *)
(* clock twice, appends and marks in four steps of a worker thread, among  *)
(* other threads on one store without a lock, each contact is kept in one  *)
(* step, told of only afterwards, and lost only with the whole store.      *)
(***************************************************************************)
Kept ==
  [p \in allocated |->
     [expires |-> window_expires_at[p], delivered |-> delivered_at[p],
      vectors |-> exercised[p], contacts |-> observations[p]]]

Contract == INSTANCE EvidenceStore WITH
              Nothing <- None, now <- clock, drawn <- issued, kept <- Kept,
              told <- acknowledged
ImplementsContract == Contract!Spec

(***************************************************************************)
(* store.py:144: "keeping it would let a late fetch change a verdict the   *)
(* harness has already read".  Once a window has closed, the contacts a    *)
(* reader gets for it are final.                                           *)
(***************************************************************************)
ClosedWindowIsFinal ==
  [][\A p \in allocated \cap allocated' :
       clock > window_expires_at[p] => observations'[p] = observations[p]]_vars
=============================================================================
