--------------------------- MODULE ChatLaneProofs ---------------------------
(***************************************************************************)
(* What the chat lane guarantees for lanes of any length, any number of    *)
(* messages, contacts, notifications, readings and failures.               *)
(***************************************************************************)
EXTENDS ChatLane, TLAPS

USE DEF labvars, phone, gateway, timers, chatvars, noticevars, lanevars

-----------------------------------------------------------------------------
(***************************************************************************)
(* The phone is asleep only while a notification check works with it, or   *)
(* because it could not be woken.                                          *)
(***************************************************************************)
NoticePcs == {"cancel", "send", "probe", "dump", "restore"}
ChatPcs == {"post", "display", "state", "observe", "answer", "refresh", "conclude"}

AsleepInv == asleep => stuck \/ pc \in NoticePcs

(* Which control states belong to which adapter. *)
PcInv ==
  /\ pc \in {"start", "next", "done"} \cup ChatPcs \cup NoticePcs
  /\ pc \in ChatPcs => check \in ChatChecks
  /\ pc \in NoticePcs => check \in NotificationChecks
  /\ pc = "next" => n # Len(setup.checks)

(* There is an attempt left until the reading is over. *)
AttemptInv == pc \in {"restore", "next", "done"} \/ attempts < ReadAttempts

(* What the gateway confirms, and what carries a marker, is on the phone. *)
ThreadInv ==
  /\ confirmed => n \in thread
  /\ \A x \in shade : x.marker # None => x.marker \in thread

(* Of a canary check: what it holds, and what the watchers have vouched for. *)
HeldInv ==
  /\ pc \in {"observe", "answer", "refresh", "conclude"} =>
       /\ state \in [delivered : BOOLEAN, displayed : BOOLEAN, watchers_healthy : BOOLEAN]
       /\ state.delivered => n \in thread
       /\ state.watchers_healthy /\ asserted => vouched
  /\ asserted /\ watching => vouched

(* Of a notification check: its reading is of the last probes and the shade. *)
ReadingInv ==
  /\ pc \in {"start", "cancel", "send"} \cup ChatPcs => reading = None
  /\ reading # None =>
       /\ \A x \in reading.posted : x.marker # None => x.marker \in thread
       /\ reading.readable => reading.posted # {}
       /\ pc \in {"restore", "next", "done"} => reading.app = app

LaneInv ==
  /\ PcInv /\ AttemptInv /\ AsleepInv /\ ThreadInv /\ HeldInv /\ ReadingInv
  /\ LaneCleanIsEarned /\ LaneDisclosureIsOwn

-----------------------------------------------------------------------------
(* Every check of a lane is a check of one of the two adapters. *)
LEMMA Lengths ==
  /\ \A s \in Setup : Len(s.checks) \in Nat \ {0}
  /\ \A s \in Setup, m \in Nat : m \in 1 .. Len(s.checks) =>
       s.checks[m] \in ChatChecks \cup NotificationChecks
  BY ChatAssumption

(* A lane begins with nothing asked, read or decided. *)
LEMMA LaneInitially == LaneInit => LaneTypeOK /\ LaneInv
<1>. SUFFICES ASSUME LaneInit PROVE LaneTypeOK /\ LaneInv
  OBVIOUS
<1>. USE ChatAssumption, Lengths DEF LaneInit, LabInit, ChatStart, NoticeStart
<1>1. LabTypeOK
  <2>1. n \in Message
    BY DEF Message
  <2>2. device \in [{"permission", "running", "dnd"} -> BOOLEAN]
    OBVIOUS
  <2>3. sent \in SUBSET Message /\ thread \in SUBSET Message
    OBVIOUS
  <2>4. shade \in SUBSET [marker : Message \cup {None}, blank : BOOLEAN]
    OBVIOUS
  <2>5. changes \in 0..MaxChanges /\ window \in 0..Window /\ nap \in {0, 1} /\ timer \in Nat
    OBVIOUS
  <2>6. \A o \in contacts : o.probe \in Message /\ o.after \in BOOLEAN
    OBVIOUS
  <2>. QED  BY <2>1, <2>2, <2>3, <2>4, <2>5, <2>6 DEF LabTypeOK
<1>2. ChatTypeOK /\ NoticeTypeOK
  <2>1. held \in AppState
    BY DEF AppState
  <2>2. probing \in 1..Len(Probes)
    BY DEF Probes
  <2>3. attempts \in 0..ReadAttempts
    OBVIOUS
  <2>4. NoticeTypeOK
    BY <2>1, <2>2, <2>3 DEF NoticeTypeOK
  <2>5. ChatTypeOK
    BY DEF ChatTypeOK
  <2>. QED  BY <2>4, <2>5
<1>3. LaneInv
  BY DEF LaneInv, PcInv, AttemptInv, AsleepInv, ThreadInv, HeldInv, ReadingInv,
         LaneCleanIsEarned, LaneDisclosureIsOwn, Claims, Ended, ChatPcs, NoticePcs
<1>. QED  BY <1>1, <1>2, <1>3 DEF LaneTypeOK

(* The verdicts that claim something, and what they claim it from. *)
LEMMA ChatPass ==
  ASSUME NEW k, NEW p, NEW s, NEW obs, NEW asked, asked \in BOOLEAN,
         s \in [delivered : BOOLEAN, displayed : BOOLEAN, watchers_healthy : BOOLEAN],
         adjudicate_chat(k, p, s, obs, asked).status = "pass"
  PROVE  /\ s.delivered /\ s.watchers_healthy /\ asked
         /\ \A o \in obs : o.origin = "client" => ~o.after
  BY DEF adjudicate_chat, Validity, LinkPreview, ReaderIdentification, NoClient, Scorable,
         Client, CLIENT_ATTRIBUTABLE_ORIGINS, Verdict, Inconclusive, AdapterError

LEMMA ChatFail ==
  ASSUME NEW k, NEW p, NEW s, NEW obs, NEW asked, asked \in BOOLEAN,
         s \in [delivered : BOOLEAN, displayed : BOOLEAN, watchers_healthy : BOOLEAN],
         adjudicate_chat(k, p, s, obs, asked).status = "fail"
  PROVE  /\ s.delivered
         /\ \E o \in obs : o.probe = p /\ o.origin = "client" /\ o.after
  BY DEF adjudicate_chat, Validity, LinkPreview, ReaderIdentification, NoClient, Scorable,
         Client, CLIENT_ATTRIBUTABLE_ORIGINS, Verdict, Inconclusive, AdapterError

LEMMA NoticePass ==
  ASSUME NEW reported, NEW marker, NEW declared,
         adjudicate_notification(reported, marker, declared).status = "pass"
  PROVE  /\ reported.readable /\ NotificationDue(reported.app)
         /\ \A x \in reported.posted : x.marker # marker
  BY DEF adjudicate_notification, Interpret, Exposed, Verdict, Inconclusive

LEMMA NoticeFail ==
  ASSUME NEW reported, NEW marker, NEW declared,
         adjudicate_notification(reported, marker, declared).status = "fail"
  PROVE  \E x \in reported.posted : x.marker = marker
  BY DEF adjudicate_notification, Interpret, Exposed, Verdict, Inconclusive

Outcome == [status : {"pass", "fail", "partial", "inconclusive", "error"},
            reason : Adjudication]

(* Both adjudications answer with a status and a reason of the enumerations. *)
LEMMA ChatVerdict ==
  ASSUME NEW k, NEW p, NEW s, NEW obs, NEW asked
  PROVE  adjudicate_chat(k, p, s, obs, asked) \in Outcome
  BY DEF adjudicate_chat, Validity, LinkPreview, ReaderIdentification, NoClient, Verdict,
         Inconclusive, AdapterError, Outcome, Adjudication

LEMMA NoticeVerdict ==
  ASSUME NEW reported, NEW marker, NEW declared
  PROVE  adjudicate_notification(reported, marker, declared) \in Outcome
  BY DEF adjudicate_notification, Interpret, Verdict, Inconclusive, Outcome, Adjudication

LEMMA Refusals ==
  /\ AdapterError \in Outcome
  /\ Inconclusive("device-session-unavailable") \in Outcome
  /\ Inconclusive("device-unavailable") \in Outcome
  BY DEF Verdict, Inconclusive, AdapterError, Outcome, Adjudication

-----------------------------------------------------------------------------
(* A notification check leaves the conversation, the gateway and the slot alone. *)
LEMMA NoticeFrame ==
  ASSUME NoticeStep, UNCHANGED chatvars
  PROVE  /\ UNCHANGED <<setup, n, thread, gateway>>
         /\ shade' \subseteq shade
         /\ pc \in {"start"} \cup NoticePcs /\ pc' \in {"next", "done"} \cup NoticePcs
<1>. USE DEF NoticePcs, End, Goto
<1>1. CASE RefuseNotice
  BY <1>1 DEF RefuseNotice
<1>2. CASE Sleep
  BY <1>2 DEF Sleep
<1>3. CASE CancelAll
  BY <1>3 DEF CancelAll
<1>4. CASE SendMarked
  BY <1>4 DEF SendMarked
<1>5. CASE Probe
  BY <1>5 DEF Probe
<1>6. CASE Dump
  BY <1>6 DEF Dump
<1>7. CASE Restore
  BY <1>7 DEF Restore
<1>. QED
  BY <1>1, <1>2, <1>3, <1>4, <1>5, <1>6, <1>7 DEF NoticeStep

(* No step leaves the control states of its adapter, or reads once too often. *)
LEMMA PcStep ==
  ASSUME LaneTypeOK, LaneInv, [LaneNext]_lanevars PROVE PcInv'
<1>. USE ChatAssumption, Lengths DEF LaneInv, LaneTypeOK, LabTypeOK, ChatTypeOK,
         NoticeTypeOK, PcInv, AttemptInv, ChatPcs, NoticePcs, check, Message, Answering,
         Noticing
<1>1. CASE ChatStep /\ UNCHANGED noticevars
  BY <1>1 DEF ChatStep, RefuseChat, OpenConversation, PostMessage, AwaitDisplay,
     GetState, GetObservations, ReceiveObservations, Refresh, ChatRequestFails, Conclude, End, Goto
<1>2. CASE NoticeStep /\ UNCHANGED chatvars
  <2>1. CASE RefuseNotice
    BY <1>2, <2>1 DEF RefuseNotice, End, Goto
  <2>2. CASE Sleep
    BY <1>2, <2>2 DEF Sleep, End, Goto
  <2>3. CASE CancelAll
    BY <1>2, <2>3 DEF CancelAll, End, Goto
  <2>4. CASE SendMarked
    BY <1>2, <2>4 DEF SendMarked, End, Goto
  <2>5. CASE Probe
    BY <1>2, <2>5 DEF Probe, End, Goto
  <2>6. CASE Dump
    BY <1>2, <2>6 DEF Dump, End, Goto
  <2>7. CASE Restore
    BY <1>2, <2>7 DEF Restore, End, Goto
  <2>. QED  BY <1>2, <2>1, <2>2, <2>3, <2>4, <2>5, <2>6, <2>7 DEF NoticeStep
<1>3. CASE NextCheck
  BY <1>3 DEF NextCheck
<1>4. CASE Surroundings
  BY <1>4 DEF Surroundings, ThePhone, TheGateway, Arrive, OtherPosts, DeviceChanges,
       KeyguardFollows, GatewayConfirms, GatewaySeesDisplay, Contacted, Change
<1>5. CASE WatchersComeAndGo \/ TimePasses \/ UNCHANGED lanevars
  BY <1>5 DEF WatchersComeAndGo, WatchersChange, Asked, Change, TimePasses, Tick, Elapsed
<1>. QED
  BY <1>1, <1>2, <1>3, <1>4, <1>5 DEF LaneNext, LaneStep

(* A reading is only made while an attempt is left. *)
LEMMA AttemptStep ==
  ASSUME LaneTypeOK, LaneInv, [LaneNext]_lanevars PROVE AttemptInv'
<1>. USE ChatAssumption, Lengths DEF LaneInv, LaneTypeOK, LabTypeOK, ChatTypeOK,
         NoticeTypeOK, AttemptInv, ChatPcs, NoticePcs, PcInv
<1>1. CASE ChatStep /\ UNCHANGED noticevars
  BY <1>1 DEF ChatStep, RefuseChat, OpenConversation, PostMessage, AwaitDisplay,
     GetState, GetObservations, ReceiveObservations, Refresh, ChatRequestFails, Conclude, End, Goto
<1>2. CASE NoticeStep /\ UNCHANGED chatvars
  <2>1. CASE RefuseNotice
    BY <1>2, <2>1 DEF RefuseNotice, End, Goto
  <2>2. CASE Sleep
    BY <1>2, <2>2 DEF Sleep, End, Goto
  <2>3. CASE CancelAll
    BY <1>2, <2>3 DEF CancelAll, End, Goto
  <2>4. CASE SendMarked
    BY <1>2, <2>4 DEF SendMarked, End, Goto
  <2>5. CASE Probe
    BY <1>2, <2>5 DEF Probe, End, Goto
  <2>6. CASE Dump
    BY <1>2, <2>6 DEF Dump, End, Goto
  <2>7. CASE Restore
    BY <1>2, <2>7 DEF Restore, End, Goto
  <2>. QED  BY <1>2, <2>1, <2>2, <2>3, <2>4, <2>5, <2>6, <2>7 DEF NoticeStep
<1>3. CASE NextCheck
  BY <1>3 DEF NextCheck
<1>4. CASE Surroundings
  BY <1>4 DEF Surroundings, ThePhone, TheGateway, Arrive, OtherPosts, DeviceChanges,
       KeyguardFollows, GatewayConfirms, GatewaySeesDisplay, Contacted, Change
<1>5. CASE WatchersComeAndGo \/ TimePasses \/ UNCHANGED lanevars
  BY <1>5 DEF WatchersComeAndGo, WatchersChange, Asked, Change, TimePasses, Tick, Elapsed
<1>. QED
  BY <1>1, <1>2, <1>3, <1>4, <1>5 DEF LaneNext, LaneStep

(* Every value stays within its type. *)
LEMMA TypeStep ==
  ASSUME LaneTypeOK, LaneInv, [LaneNext]_lanevars PROVE LaneTypeOK'
<1>. USE ChatAssumption, Lengths, Refusals DEF LaneTypeOK, Outcome
<1>. pc' \in {"start", "next", "done"} \cup ChatPcs \cup NoticePcs
  BY PcStep DEF PcInv
<1>. USE DEF ChatPcs, NoticePcs
<1>1. CASE RefuseChat /\ UNCHANGED noticevars
  <2>1. LabTypeOK'
    BY <1>1 DEF RefuseChat, End, Goto, LabTypeOK, Message
  <2>2. ChatTypeOK'
    BY <1>1 DEF RefuseChat, End, Goto, ChatTypeOK, LabTypeOK
  <2>3. NoticeTypeOK'
    BY <1>1 DEF RefuseChat, End, Goto, NoticeTypeOK, Message, Flags, Probes, AppState
  <2>. QED  BY <2>1, <2>2, <2>3
<1>2. CASE OpenConversation /\ UNCHANGED noticevars
  <2>1. LabTypeOK'
    BY <1>2 DEF OpenConversation, End, Goto, LabTypeOK, Message
  <2>2. ChatTypeOK'
    BY <1>2 DEF OpenConversation, End, Goto, ChatTypeOK, LabTypeOK
  <2>3. NoticeTypeOK'
    BY <1>2 DEF OpenConversation, End, Goto, NoticeTypeOK, Message, Flags, Probes, AppState
  <2>. QED  BY <2>1, <2>2, <2>3
<1>3. CASE PostMessage /\ UNCHANGED noticevars
  <2>1. LabTypeOK'
    <3>1. timer' \in Nat /\ window' \in 0 .. Window
      BY <1>3 DEF PostMessage, LabTypeOK, Smaller
    <3>2. sent' \subseteq Message
      BY <1>3 DEF PostMessage, LabTypeOK
    <3>3. outcome' \in {None} \cup Outcome
      BY <1>3 DEF PostMessage, End, Goto, LabTypeOK
    <3>. QED  BY <1>3, <3>1, <3>2, <3>3 DEF PostMessage, LabTypeOK, Message
  <2>2. ChatTypeOK'
    BY <1>3 DEF PostMessage, End, Goto, ChatTypeOK, LabTypeOK
  <2>3. NoticeTypeOK'
    BY <1>3 DEF PostMessage, End, Goto, NoticeTypeOK, Message, Flags, Probes, AppState
  <2>. QED  BY <2>1, <2>2, <2>3
<1>4. CASE AwaitDisplay /\ UNCHANGED noticevars
  <2>1. LabTypeOK'
    BY <1>4 DEF AwaitDisplay, End, Goto, LabTypeOK, Message
  <2>2. ChatTypeOK'
    BY <1>4 DEF AwaitDisplay, End, Goto, ChatTypeOK, LabTypeOK
  <2>3. NoticeTypeOK'
    BY <1>4 DEF AwaitDisplay, End, Goto, NoticeTypeOK, Message, Flags, Probes, AppState
  <2>. QED  BY <2>1, <2>2, <2>3
<1>5. CASE GetState /\ UNCHANGED noticevars
  <2>1. LabTypeOK'
    BY <1>5 DEF GetState, End, Goto, LabTypeOK, Message, Smaller
  <2>2. ChatTypeOK'
    BY <1>5 DEF GetState, ChatTypeOK, LabTypeOK, Snapshot
  <2>3. NoticeTypeOK'
    BY <1>5 DEF GetState, End, Goto, NoticeTypeOK, Message, Flags, Probes, AppState
  <2>. QED  BY <2>1, <2>2, <2>3
<1>6. CASE GetObservations /\ UNCHANGED noticevars
  <2>1. LabTypeOK'
    BY <1>6 DEF GetObservations, End, Goto, LabTypeOK, Message
  <2>2. ChatTypeOK'
    BY <1>6 DEF GetObservations, End, Goto, ChatTypeOK, LabTypeOK
  <2>3. NoticeTypeOK'
    BY <1>6 DEF GetObservations, End, Goto, NoticeTypeOK, Message, Flags, Probes, AppState
  <2>. QED  BY <2>1, <2>2, <2>3
<1>7. CASE Refresh /\ UNCHANGED noticevars
  <2>1. LabTypeOK'
    BY <1>7 DEF Refresh, End, Goto, LabTypeOK, Message
  <2>2. ChatTypeOK'
    BY <1>7 DEF Refresh, ChatTypeOK, LabTypeOK, Snapshot
  <2>3. NoticeTypeOK'
    BY <1>7 DEF Refresh, End, Goto, NoticeTypeOK, Message, Flags, Probes, AppState
  <2>. QED  BY <2>1, <2>2, <2>3
<1>8. CASE ChatRequestFails /\ UNCHANGED noticevars
  <2>1. LabTypeOK'
    BY <1>8 DEF ChatRequestFails, End, Goto, LabTypeOK, Message
  <2>2. ChatTypeOK'
    BY <1>8 DEF ChatRequestFails, End, Goto, ChatTypeOK, LabTypeOK
  <2>3. NoticeTypeOK'
    BY <1>8 DEF ChatRequestFails, End, Goto, NoticeTypeOK, Message, Flags, Probes, AppState
  <2>. QED  BY <2>1, <2>2, <2>3
<1>9. CASE Conclude /\ UNCHANGED noticevars
  <2>1. LabTypeOK'
    BY <1>9, ChatVerdict DEF Conclude, End, LabTypeOK, Message
  <2>2. ChatTypeOK'
    BY <1>9 DEF Conclude, End, Goto, ChatTypeOK, LabTypeOK
  <2>3. NoticeTypeOK'
    BY <1>9 DEF Conclude, End, Goto, NoticeTypeOK, Message, Flags, Probes, AppState
  <2>. QED  BY <2>1, <2>2, <2>3
<1>10. CASE RefuseNotice /\ UNCHANGED chatvars
  <2>1. LabTypeOK'
    BY <1>10 DEF RefuseNotice, End, Goto, LabTypeOK, Message
  <2>2. ChatTypeOK'
    BY <1>10 DEF RefuseNotice, End, Goto, ChatTypeOK, LabTypeOK
  <2>3. NoticeTypeOK'
    BY <1>10 DEF RefuseNotice, End, Goto, NoticeTypeOK, Message, Flags, Probes, AppState
  <2>. QED  BY <2>1, <2>2, <2>3
<1>11. CASE Sleep /\ UNCHANGED chatvars
  <2>1. LabTypeOK'
    BY <1>11 DEF Sleep, End, Goto, LabTypeOK, Message
  <2>2. ChatTypeOK'
    BY <1>11 DEF Sleep, End, Goto, ChatTypeOK, LabTypeOK
  <2>3. NoticeTypeOK'
    BY <1>11 DEF Sleep, End, Goto, NoticeTypeOK, Message, Flags, Probes, AppState
  <2>. QED  BY <2>1, <2>2, <2>3
<1>12. CASE CancelAll /\ UNCHANGED chatvars
  <2>1. LabTypeOK'
    BY <1>12 DEF CancelAll, End, Goto, LabTypeOK, Message
  <2>2. ChatTypeOK'
    BY <1>12 DEF CancelAll, End, Goto, ChatTypeOK, LabTypeOK
  <2>3. NoticeTypeOK'
    BY <1>12 DEF CancelAll, End, Goto, NoticeTypeOK, Message, Flags, Probes, AppState
  <2>. QED  BY <2>1, <2>2, <2>3
<1>13. CASE SendMarked /\ UNCHANGED chatvars
  <2>1. LabTypeOK'
    BY <1>13 DEF SendMarked, End, Goto, LabTypeOK, Message
  <2>2. ChatTypeOK'
    BY <1>13 DEF SendMarked, End, Goto, ChatTypeOK, LabTypeOK
  <2>3. NoticeTypeOK'
    BY <1>13 DEF SendMarked, End, Goto, NoticeTypeOK, Message, Flags, Probes, AppState
  <2>. QED  BY <2>1, <2>2, <2>3
<1>14. CASE Probe /\ UNCHANGED chatvars
  <2>1. LabTypeOK'
    BY <1>14 DEF Probe, End, Goto, LabTypeOK, Message
  <2>2. ChatTypeOK'
    BY <1>14 DEF Probe, End, Goto, ChatTypeOK, LabTypeOK
  <2>3. NoticeTypeOK'
    <3>1. Probes[probing] \in Flags /\ probing' \in 1 .. Len(Probes)
      BY <1>14 DEF Probe, NoticeTypeOK, Probes, Flags
    <3>2. held' \in AppState
      <4>. Holds(Probes[probing]) \in BOOLEAN
        BY <3>1 DEF Holds, LabTypeOK, Flags
      <4>. QED  BY <1>14, <3>1 DEF Probe, NoticeTypeOK, AppState
    <3>3. heard' \in SUBSET Flags
      BY <1>14, <3>1 DEF Probe, NoticeTypeOK
    <3>. QED  BY <1>14, <3>1, <3>2, <3>3 DEF Probe, NoticeTypeOK, Message
  <2>. QED  BY <2>1, <2>2, <2>3
<1>15. CASE Dump /\ UNCHANGED chatvars
  <2>1. LabTypeOK'
    BY <1>15 DEF Dump, End, Goto, LabTypeOK, Message
  <2>2. ChatTypeOK'
    BY <1>15 DEF Dump, End, Goto, ChatTypeOK, LabTypeOK
  <2>3. NoticeTypeOK'
    <3>1. attempts' \in 0 .. ReadAttempts
      BY <1>15 DEF Dump, NoticeTypeOK, LaneInv, AttemptInv
    <3>2. app \in AppState
      BY DEF app, AppState, NoticeTypeOK
    <3>3. reading' \in [readable : BOOLEAN, app : AppState,
                        posted : SUBSET [marker : Message \cup {None}, blank : BOOLEAN]]
      <4>1. shade \in SUBSET [marker : Message \cup {None}, blank : BOOLEAN]
        BY DEF LabTypeOK
      <4>2. reading' \in Readings
        BY <1>15 DEF Dump
      <4>3. CASE reading' = [readable |-> FALSE, app |-> app, posted |-> {}]
        BY <3>2, <4>3
      <4>4. CASE reading' = [readable |-> TRUE, app |-> app, posted |-> shade]
        BY <3>2, <4>1, <4>4
      <4>. QED  BY <4>2, <4>3, <4>4 DEF Readings
    <3>4. Message' = Message
      BY <1>15 DEF Dump, Message
    <3>. QED  BY <1>15, <3>1, <3>3, <3>4 DEF Dump, NoticeTypeOK
  <2>. QED  BY <2>1, <2>2, <2>3
<1>16. CASE Restore /\ UNCHANGED chatvars
  <2>1. LabTypeOK'
    BY <1>16, NoticeVerdict DEF Restore, End, LabTypeOK, Message
  <2>2. ChatTypeOK'
    BY <1>16 DEF Restore, End, Goto, ChatTypeOK, LabTypeOK
  <2>3. NoticeTypeOK'
    BY <1>16 DEF Restore, End, Goto, NoticeTypeOK, Message, Flags, Probes, AppState
  <2>. QED  BY <2>1, <2>2, <2>3
<1>17. CASE NextCheck
  <2>1. LabTypeOK'
    <3>1. n' \in Message'
      BY <1>17 DEF NextCheck, LabTypeOK, Message, LaneInv, PcInv
    <3>2. window' \in 0 .. Window /\ nap' \in {0, 1} /\ timer' \in Nat
      BY <1>17 DEF NextCheck
    <3>3. Message' = Message
      BY <1>17 DEF NextCheck, Message
    <3>. QED  BY <1>17, <3>1, <3>2, <3>3 DEF NextCheck, LabTypeOK
  <2>2. ChatTypeOK'
    BY <1>17 DEF NextCheck, ChatTypeOK, LabTypeOK
  <2>3. NoticeTypeOK'
    BY <1>17 DEF NextCheck, NoticeTypeOK, Message, Flags, Probes, AppState
  <2>. QED  BY <2>1, <2>2, <2>3
<1>18. CASE Surroundings
  <2>. UNCHANGED <<pc, outcome, chatvars, noticevars>>
    BY <1>18 DEF Surroundings
  <2>1. ASSUME NEW m \in Message, Arrive(m) PROVE LaneTypeOK'
    <3>1. thread' \subseteq Message
      BY <2>1 DEF Arrive, LabTypeOK
    <3>2. shade' \in SUBSET [marker : Message \cup {None}, blank : BOOLEAN]
      <4>1. shade' = shade \/ \E k \in Message \cup {None}, b \in BOOLEAN :
                              shade' = shade \cup {[marker |-> k, blank |-> b]}
        BY <2>1 DEF Arrive, Notification
      <4>. QED  BY <4>1 DEF LabTypeOK
    <3>3. Message' = Message
      BY <2>1 DEF Arrive, Message
    <3>. QED  BY <2>1, <3>1, <3>2, <3>3 DEF Arrive, LabTypeOK, ChatTypeOK, NoticeTypeOK
  <2>2. CASE \E blank \in BOOLEAN : OtherPosts(blank)
    BY <2>2 DEF OtherPosts, Notification, Change, LabTypeOK, ChatTypeOK, NoticeTypeOK,
       Message
  <2>3. CASE \E flag \in {"permission", "running", "dnd"} : DeviceChanges(flag)
    BY <2>3 DEF DeviceChanges, Change, LabTypeOK, ChatTypeOK, NoticeTypeOK, Message
  <2>4. CASE KeyguardFollows
    BY <2>4 DEF KeyguardFollows, LabTypeOK, ChatTypeOK, NoticeTypeOK, Message
  <2>5. CASE GatewayConfirms
    BY <2>5 DEF GatewayConfirms, LabTypeOK, ChatTypeOK, NoticeTypeOK, Message
  <2>6. CASE GatewaySeesDisplay
    BY <2>6 DEF GatewaySeesDisplay, LabTypeOK, ChatTypeOK, NoticeTypeOK, Message
  <2>7. ASSUME NEW c \in Contact, NEW m \in Message, Contacted(c, m) PROVE LaneTypeOK'
    <3>1. contacts \subseteq contacts' 
          /\ \A o \in contacts' : o.probe \in Message /\ o.after \in BOOLEAN
      <4>. PICK a \in AfterDelivery :
             contacts' = contacts \cup {[probe |-> m, channel |-> c.channel,
                                         origin |-> c.origin,
                                         identifies |-> c.identifies, after |-> a]}
        BY <2>7 DEF Contacted
      <4>. DEFINE o == [probe |-> m, channel |-> c.channel, origin |-> c.origin,
                        identifies |-> c.identifies, after |-> a]
      <4>1. contacts' = contacts \cup {o}
        OBVIOUS
      <4>2. o.probe \in Message /\ o.after \in BOOLEAN
        BY DEF AfterDelivery
      <4>. HIDE DEF o
      <4>. QED  BY <4>1, <4>2 DEF LabTypeOK
    <3>2. Message' = Message
      BY <2>7 DEF Contacted, Message
    <3>. QED  BY <2>7, <3>1, <3>2 DEF Contacted, LabTypeOK, ChatTypeOK, NoticeTypeOK
  <2>. QED
    BY <1>18, <2>1, <2>2, <2>3, <2>4, <2>5, <2>6, <2>7 DEF Surroundings, ThePhone,
       TheGateway
<1>19. CASE WatchersComeAndGo
  <2>1. LabTypeOK'
    BY <1>19 DEF WatchersComeAndGo, WatchersChange, Asked, Change, LabTypeOK, Message
  <2>2. ChatTypeOK'
    BY <1>19 DEF WatchersComeAndGo, WatchersChange, Asked, Change, ChatTypeOK, LabTypeOK
  <2>3. NoticeTypeOK'
    BY <1>19 DEF WatchersComeAndGo, WatchersChange, Asked, Change, NoticeTypeOK,
       Message, Flags, Probes, AppState
  <2>. QED  BY <2>1, <2>2, <2>3
<1>20. CASE TimePasses
  <2>1. LabTypeOK'
    BY <1>20 DEF TimePasses, Tick, Elapsed, LabTypeOK, Message
  <2>2. ChatTypeOK'
    BY <1>20 DEF TimePasses, Tick, Elapsed, ChatTypeOK, LabTypeOK
  <2>3. NoticeTypeOK'
    BY <1>20 DEF TimePasses, Tick, Elapsed, NoticeTypeOK, Message, Flags, Probes, AppState
  <2>. QED  BY <2>1, <2>2, <2>3
<1>21. CASE UNCHANGED lanevars
  BY <1>21 DEF LabTypeOK, ChatTypeOK, NoticeTypeOK, Message
<1>22. CASE ReceiveObservations /\ UNCHANGED noticevars
  <2>1. LabTypeOK'
    BY <1>22 DEF ReceiveObservations, End, Goto, LabTypeOK, Message
  <2>2. ChatTypeOK'
    BY <1>22 DEF ReceiveObservations, End, Goto, ChatTypeOK, LabTypeOK
  <2>3. NoticeTypeOK'
    BY <1>22 DEF ReceiveObservations, End, Goto, NoticeTypeOK, Message, Flags, Probes, AppState
  <2>. QED  BY <2>1, <2>2, <2>3
<1>. QED
  BY <1>1, <1>2, <1>3, <1>4, <1>5, <1>6, <1>7, <1>8, <1>9, <1>10, <1>11, <1>12, <1>13,
     <1>14, <1>15, <1>16, <1>17, <1>18, <1>19, <1>20, <1>21, <1>22 DEF LaneNext, LaneStep,
     ChatStep, NoticeStep

(* Whatever puts the phone to sleep has restore ahead of it. *)
LEMMA AsleepStep ==
  ASSUME LaneTypeOK, LaneInv, [LaneNext]_lanevars PROVE AsleepInv'
<1>. USE ChatAssumption, Lengths DEF LaneInv, LaneTypeOK, LabTypeOK, ChatTypeOK,
         NoticeTypeOK, AsleepInv, ChatPcs, NoticePcs, PcInv
<1>1. CASE ChatStep /\ UNCHANGED noticevars
  BY <1>1 DEF ChatStep, RefuseChat, OpenConversation, PostMessage, AwaitDisplay,
     GetState, GetObservations, ReceiveObservations, Refresh, ChatRequestFails, Conclude, End, Goto
<1>2. CASE NoticeStep /\ UNCHANGED chatvars
  <2>1. CASE RefuseNotice
    BY <1>2, <2>1 DEF RefuseNotice, End, Goto
  <2>2. CASE Sleep
    BY <1>2, <2>2 DEF Sleep, End, Goto
  <2>3. CASE CancelAll
    BY <1>2, <2>3 DEF CancelAll, End, Goto
  <2>4. CASE SendMarked
    BY <1>2, <2>4 DEF SendMarked, End, Goto
  <2>5. CASE Probe
    BY <1>2, <2>5 DEF Probe, End, Goto
  <2>6. CASE Dump
    BY <1>2, <2>6 DEF Dump, End, Goto
  <2>7. CASE Restore
    BY <1>2, <2>7 DEF Restore, End, Goto
  <2>. QED  BY <1>2, <2>1, <2>2, <2>3, <2>4, <2>5, <2>6, <2>7 DEF NoticeStep
<1>3. CASE NextCheck
  BY <1>3 DEF NextCheck
<1>4. CASE Surroundings
  BY <1>4 DEF Surroundings, ThePhone, TheGateway, Arrive, OtherPosts, DeviceChanges,
       KeyguardFollows, GatewayConfirms, GatewaySeesDisplay, Contacted, Change
<1>5. CASE WatchersComeAndGo \/ TimePasses \/ UNCHANGED lanevars
  BY <1>5 DEF WatchersComeAndGo, WatchersChange, Asked, Change, TimePasses, Tick, Elapsed
<1>. QED
  BY <1>1, <1>2, <1>3, <1>4, <1>5 DEF LaneNext, LaneStep

(* A confirmation and a marker are always of a message that has arrived. *)
LEMMA ThreadStep ==
  ASSUME LaneTypeOK, LaneInv, [LaneNext]_lanevars PROVE ThreadInv'
<1>. USE ChatAssumption, Lengths DEF LaneInv, LaneTypeOK, LabTypeOK, ChatTypeOK,
         NoticeTypeOK, ThreadInv, PcInv, ChatPcs, NoticePcs, Message, Notification
<1>1. CASE ChatStep /\ UNCHANGED noticevars
  BY <1>1 DEF ChatStep, RefuseChat, OpenConversation, PostMessage, AwaitDisplay,
     GetState, GetObservations, ReceiveObservations, Refresh, ChatRequestFails, Conclude, End, Goto
<1>2. CASE NoticeStep /\ UNCHANGED chatvars
  BY <1>2, NoticeFrame
<1>3. CASE NextCheck
  BY <1>3 DEF NextCheck
<1>4. CASE Surroundings
  BY <1>4 DEF Surroundings, ThePhone, TheGateway, Arrive, OtherPosts, DeviceChanges,
       KeyguardFollows, GatewayConfirms, GatewaySeesDisplay, Contacted, Change
<1>5. CASE WatchersComeAndGo \/ TimePasses \/ UNCHANGED lanevars
  BY <1>5 DEF WatchersComeAndGo, WatchersChange, Asked, Change, TimePasses, Tick, Elapsed
<1>. QED
  BY <1>1, <1>2, <1>3, <1>4, <1>5 DEF LaneNext, LaneStep

(* The state read is of this check's message, and the watchers' word is current. *)
LEMMA HeldStep ==
  ASSUME LaneTypeOK, LaneInv, [LaneNext]_lanevars PROVE HeldInv'
<1>. USE ChatAssumption, Lengths DEF LaneInv, LaneTypeOK, LabTypeOK, ChatTypeOK,
         NoticeTypeOK, HeldInv, ThreadInv, PcInv, ChatPcs, NoticePcs, Snapshot
<1>1. CASE ChatStep /\ UNCHANGED noticevars
  <2>1. CASE GetState
    <3>. /\ state'.delivered => confirmed
         /\ state'.watchers_healthy => watching
         /\ state' \in [delivered : BOOLEAN, displayed : BOOLEAN, watchers_healthy : BOOLEAN]
         /\ UNCHANGED <<n, thread, asserted, watching, vouched>>
      BY <1>1, <2>1 DEF GetState, Goto
    <3>. QED  BY <1>1, <2>1
  <2>. QED  BY <1>1, <2>1 DEF ChatStep, RefuseChat, OpenConversation, PostMessage,
               AwaitDisplay, GetObservations, ReceiveObservations, Refresh, ChatRequestFails, Conclude, End,
               Goto
<1>2. CASE NoticeStep /\ UNCHANGED chatvars
  BY <1>2, NoticeFrame
<1>3. CASE NextCheck
  BY <1>3 DEF NextCheck
<1>4. CASE Surroundings
  <2>. thread \subseteq thread' /\ UNCHANGED <<n, pc, asserted, watching, state, vouched>>
    BY <1>4 DEF Surroundings, ThePhone, TheGateway, Arrive, OtherPosts, DeviceChanges,
         KeyguardFollows, GatewayConfirms, GatewaySeesDisplay, Contacted, Change
  <2>. QED  BY <1>4
<1>5. CASE WatchersComeAndGo \/ TimePasses \/ UNCHANGED lanevars
  BY <1>5 DEF WatchersComeAndGo, WatchersChange, Asked, Change, TimePasses, Tick, Elapsed
<1>. QED
  BY <1>1, <1>2, <1>3, <1>4, <1>5 DEF LaneNext, LaneStep

(* The reading stays the one of the last probes and of the shade as it was. *)
LEMMA ReadingStep ==
  ASSUME LaneTypeOK, LaneInv, [LaneNext]_lanevars PROVE ReadingInv'
<1>. USE ChatAssumption, Lengths DEF LaneInv, LaneTypeOK, LabTypeOK, ChatTypeOK,
         NoticeTypeOK, ReadingInv, ThreadInv, PcInv, ChatPcs, NoticePcs, Readings, app
<1>1. CASE ChatStep /\ UNCHANGED noticevars
  BY <1>1 DEF ChatStep, RefuseChat, OpenConversation, PostMessage, AwaitDisplay,
     GetState, GetObservations, ReceiveObservations, Refresh, ChatRequestFails, Conclude, End, Goto
<1>2. CASE NoticeStep /\ UNCHANGED chatvars
  <2>1. CASE RefuseNotice
    BY <1>2, <2>1 DEF RefuseNotice, End, Goto
  <2>2. CASE Sleep
    BY <1>2, <2>2 DEF Sleep, End, Goto
  <2>3. CASE CancelAll
    BY <1>2, <2>3 DEF CancelAll, End, Goto
  <2>4. CASE SendMarked
    BY <1>2, <2>4 DEF SendMarked, End, Goto
  <2>5. CASE Probe
    BY <1>2, <2>5 DEF Probe, End, Goto
  <2>6. CASE Dump
    BY <1>2, <2>6 DEF Dump, End, Goto
  <2>7. CASE Restore
    BY <1>2, <2>7 DEF Restore, End, Goto
  <2>. QED  BY <1>2, <2>1, <2>2, <2>3, <2>4, <2>5, <2>6, <2>7 DEF NoticeStep
<1>3. CASE NextCheck
  BY <1>3 DEF NextCheck
<1>4. CASE Surroundings
  BY <1>4 DEF Surroundings, ThePhone, TheGateway, Arrive, OtherPosts, DeviceChanges,
       KeyguardFollows, GatewayConfirms, GatewaySeesDisplay, Contacted, Change
<1>5. CASE WatchersComeAndGo \/ TimePasses \/ UNCHANGED lanevars
  BY <1>5 DEF WatchersComeAndGo, WatchersChange, Asked, Change, TimePasses, Tick, Elapsed
<1>. QED
  BY <1>1, <1>2, <1>3, <1>4, <1>5 DEF LaneNext, LaneStep

(* No step ends a check with an unearned clean verdict or spoils an earned one. *)
LEMMA CleanStep ==
  ASSUME LaneTypeOK, LaneInv, [LaneNext]_lanevars PROVE LaneCleanIsEarned'
<1>. USE ChatAssumption, Lengths DEF LaneInv, LaneTypeOK, LabTypeOK, ChatTypeOK,
         NoticeTypeOK, LaneCleanIsEarned, Claims, Ended, PcInv, ChatPcs, NoticePcs, check,
         Verdict, Inconclusive, AdapterError
<1>1. CASE ChatStep /\ UNCHANGED noticevars
  <2>1. CASE Conclude
    <3>1. check' = check /\ check \in ChatChecks /\ check \notin NotificationChecks
      BY <1>1, <2>1 DEF Conclude, ChatChecks, NotificationChecks
    <3>2. /\ outcome' = adjudicate_chat(check, n, state, read, asserted)
          /\ UNCHANGED <<n, thread, asserted, vouched, read>>
      BY <1>1, <2>1 DEF Conclude, End
    <3>3. /\ state \in [delivered : BOOLEAN, displayed : BOOLEAN, watchers_healthy : BOOLEAN]
          /\ state.delivered => n \in thread
          /\ state.watchers_healthy /\ asserted => vouched
      BY <1>1, <2>1 DEF Conclude, HeldInv
    <3>4. outcome'.status = "pass" =>
            /\ state.delivered /\ state.watchers_healthy /\ asserted
            /\ \A o \in read : o.origin = "client" => ~o.after
      BY <3>2, <3>3, ChatPass
    <3>. QED  BY <3>1, <3>2, <3>3, <3>4
  <2>. QED  BY <1>1, <2>1 DEF ChatStep, RefuseChat, OpenConversation, PostMessage,
               AwaitDisplay, GetState, GetObservations, ReceiveObservations, Refresh, ChatRequestFails, End,
               Goto
<1>2. CASE NoticeStep /\ UNCHANGED chatvars
  <2>1. CASE RefuseNotice
    BY <1>2, <2>1 DEF RefuseNotice, End, Goto
  <2>2. CASE Sleep
    BY <1>2, <2>2 DEF Sleep, End, Goto
  <2>3. CASE CancelAll
    BY <1>2, <2>3 DEF CancelAll, End, Goto
  <2>4. CASE SendMarked
    BY <1>2, <2>4 DEF SendMarked, End, Goto
  <2>5. CASE Probe
    BY <1>2, <2>5 DEF Probe, End, Goto
  <2>6. CASE Dump
    BY <1>2, <2>6 DEF Dump, End, Goto
  <2>7. CASE Restore
    <3>1. check' = check /\ check \in NotificationChecks
      BY <1>2, <2>7 DEF Restore
    <3>2. /\ outcome' = IF reading = None THEN AdapterError
                       ELSE adjudicate_notification(reading, n, setup.privacy)
          /\ UNCHANGED <<n, setup, thread, held, heard, reading>>
      BY <1>2, <2>7 DEF Restore, End
    <3>3. AdapterError.status = "error"
      OBVIOUS
    <3>4. outcome'.status = "pass" =>
            /\ reading # None /\ reading.readable /\ NotificationDue(reading.app)
            /\ \A x \in reading.posted : x.marker # n
      BY <3>2, <3>3, NoticePass
    <3>5. outcome'.status = "pass" => reading.posted # {} /\ NotificationDue(app)
      BY <1>2, <2>7, <3>4 DEF Restore, ReadingInv
    <3>6. NotificationDue(app) =>
            /\ held["permission"] /\ held["running"] /\ held["locked"]
            /\ held["dnd"] => "dnd" \notin heard
      BY DEF NotificationDue, app, Flags
    <3>. QED  BY <3>1, <3>2, <3>4, <3>5, <3>6
  <2>. QED  BY <1>2, <2>1, <2>2, <2>3, <2>4, <2>5, <2>6, <2>7 DEF NoticeStep
<1>3. CASE NextCheck
  BY <1>3 DEF NextCheck
<1>4. CASE Surroundings
  <2>. /\ UNCHANGED <<pc, outcome, n, setup, held, heard, reading, asserted, vouched, read>>
       /\ thread \subseteq thread'
    BY <1>4 DEF Surroundings, ThePhone, TheGateway, Arrive, OtherPosts, DeviceChanges,
         KeyguardFollows, GatewayConfirms, GatewaySeesDisplay, Contacted, Change
  <2>. QED  BY <1>4
<1>5. CASE WatchersComeAndGo \/ TimePasses \/ UNCHANGED lanevars
  BY <1>5 DEF WatchersComeAndGo, WatchersChange, Asked, Change, TimePasses, Tick, Elapsed
<1>. QED
  BY <1>1, <1>2, <1>3, <1>4, <1>5 DEF LaneNext, LaneStep

(* No step ends a check with a disclosure of something that is not its own. *)
LEMMA DisclosureStep ==
  ASSUME LaneTypeOK, LaneInv, [LaneNext]_lanevars PROVE LaneDisclosureIsOwn'
<1>. USE ChatAssumption, Lengths DEF LaneInv, LaneTypeOK, LabTypeOK, ChatTypeOK,
         NoticeTypeOK, LaneDisclosureIsOwn, Claims, Ended, PcInv, ChatPcs, NoticePcs,
         check, Verdict, Inconclusive, AdapterError
<1>1. CASE ChatStep /\ UNCHANGED noticevars
  <2>1. CASE Conclude
    <3>1. check' = check /\ check \in ChatChecks /\ check \notin NotificationChecks
      BY <1>1, <2>1 DEF Conclude, ChatChecks, NotificationChecks
    <3>2. /\ outcome' = adjudicate_chat(check, n, state, read, asserted)
          /\ UNCHANGED <<n, thread, asserted, vouched, read>>
      BY <1>1, <2>1 DEF Conclude, End
    <3>3. /\ state \in [delivered : BOOLEAN, displayed : BOOLEAN, watchers_healthy : BOOLEAN]
          /\ state.delivered => n \in thread
          /\ state.watchers_healthy /\ asserted => vouched
      BY <1>1, <2>1 DEF Conclude, HeldInv
    <3>4. outcome'.status = "fail" =>
            /\ state.delivered
            /\ \E o \in read : o.probe = n /\ o.origin = "client" /\ o.after
      BY <3>2, <3>3, ChatFail
    <3>. QED  BY <3>1, <3>2, <3>3, <3>4
  <2>. QED  BY <1>1, <2>1 DEF ChatStep, RefuseChat, OpenConversation, PostMessage,
               AwaitDisplay, GetState, GetObservations, ReceiveObservations, Refresh, ChatRequestFails, End,
               Goto
<1>2. CASE NoticeStep /\ UNCHANGED chatvars
  <2>1. CASE RefuseNotice
    BY <1>2, <2>1 DEF RefuseNotice, End, Goto
  <2>2. CASE Sleep
    BY <1>2, <2>2 DEF Sleep, End, Goto
  <2>3. CASE CancelAll
    BY <1>2, <2>3 DEF CancelAll, End, Goto
  <2>4. CASE SendMarked
    BY <1>2, <2>4 DEF SendMarked, End, Goto
  <2>5. CASE Probe
    BY <1>2, <2>5 DEF Probe, End, Goto
  <2>6. CASE Dump
    BY <1>2, <2>6 DEF Dump, End, Goto
  <2>7. CASE Restore
    <3>1. check' = check /\ check \in NotificationChecks
      BY <1>2, <2>7 DEF Restore
    <3>2. /\ outcome' = IF reading = None THEN AdapterError
                       ELSE adjudicate_notification(reading, n, setup.privacy)
          /\ UNCHANGED <<n, setup, thread, held, heard, reading>>
      BY <1>2, <2>7 DEF Restore, End
    <3>3. AdapterError.status = "error"
      OBVIOUS
    <3>4. outcome'.status = "fail" =>
            reading # None /\ \E x \in reading.posted : x.marker = n
      BY <3>2, <3>3, NoticeFail
    <3>5. n # None
      BY DEF Message
    <3>6. outcome'.status = "fail" => n \in thread
      BY <3>4, <3>5 DEF ReadingInv
    <3>. QED  BY <3>1, <3>2, <3>4, <3>6
  <2>. QED  BY <1>2, <2>1, <2>2, <2>3, <2>4, <2>5, <2>6, <2>7 DEF NoticeStep
<1>3. CASE NextCheck
  BY <1>3 DEF NextCheck
<1>4. CASE Surroundings
  <2>. /\ UNCHANGED <<pc, outcome, n, setup, held, heard, reading, asserted, vouched, read>>
       /\ thread \subseteq thread'
    BY <1>4 DEF Surroundings, ThePhone, TheGateway, Arrive, OtherPosts, DeviceChanges,
         KeyguardFollows, GatewayConfirms, GatewaySeesDisplay, Contacted, Change
  <2>. QED  BY <1>4
<1>5. CASE WatchersComeAndGo \/ TimePasses \/ UNCHANGED lanevars
  BY <1>5 DEF WatchersComeAndGo, WatchersChange, Asked, Change, TimePasses, Tick, Elapsed
<1>. QED
  BY <1>1, <1>2, <1>3, <1>4, <1>5 DEF LaneNext, LaneStep

-----------------------------------------------------------------------------
LEMMA LaneInvariant == LaneSpec => [](LaneTypeOK /\ LaneInv)
<1>1. LaneTypeOK /\ LaneInv /\ [LaneNext]_lanevars => (LaneTypeOK /\ LaneInv)'
  <2>. SUFFICES ASSUME LaneTypeOK, LaneInv, [LaneNext]_lanevars
                PROVE  LaneTypeOK' /\ LaneInv'
    OBVIOUS
  <2>1. LaneTypeOK'
    BY TypeStep
  <2>2. PcInv' /\ AttemptInv' /\ AsleepInv' /\ ThreadInv' /\ HeldInv' /\ ReadingInv'
    BY PcStep, AttemptStep, AsleepStep, ThreadStep, HeldStep, ReadingStep
  <2>3. LaneCleanIsEarned' /\ LaneDisclosureIsOwn'
    BY CleanStep, DisclosureStep
  <2>. QED  BY <2>1, <2>2, <2>3 DEF LaneInv
<1>. QED  BY LaneInitially, <1>1, PTL DEF LaneSpec

(***************************************************************************)
(* Every variable of the lane stays within its type: no lane makes more    *)
(* readings of the shade than shade_read_attempts, runs past its last      *)
(* check or ends one with anything but a status and a reason of the        *)
(* adapters' enumerations.                                                 *)
(***************************************************************************)
THEOREM LaneTypeCorrect == LaneSpec => []LaneTypeOK
<1>1. LaneTypeOK /\ LaneInv => LaneTypeOK
  OBVIOUS
<1>. QED  BY LaneInvariant, <1>1, PTL

(***************************************************************************)
(* In lanes of any length, a clean verdict of a canary check rests on a    *)
(* message that arrived, an asserted display, watchers up at some time     *)
(* since and no client contact after the delivery among those read; one of *)
(* a notification check on a permission, a running client and a lock that  *)
(* held when probed, and records read without its marker.  That the        *)
(* do-not-disturb probe was answered, whose the records are and whether    *)
(* the message arrived are no part of it.                                  *)
(***************************************************************************)
THEOREM LaneCleanCorrect == LaneSpec => []LaneCleanIsEarned
<1>1. LaneTypeOK /\ LaneInv => LaneCleanIsEarned
  BY DEF LaneInv
<1>. QED  BY LaneInvariant, <1>1, PTL

(***************************************************************************)
(* A chat check that reports a disclosure names one of its own message,    *)
(* whatever earlier messages of the lane left on the phone or reach later. *)
(***************************************************************************)
THEOREM LaneDisclosureCorrect == LaneSpec => []LaneDisclosureIsOwn
<1>1. LaneTypeOK /\ LaneInv => LaneDisclosureIsOwn
  BY DEF LaneInv
<1>. QED  BY LaneInvariant, <1>1, PTL

(***************************************************************************)
(* Between checks the phone is awake unless the wake-up failed: every way  *)
(* out of a check that put it to sleep goes through restore (the finally   *)
(* of ChatNotificationAdapter.execute_check).                              *)
(***************************************************************************)
THEOREM DeviceCorrect == LaneSpec => []DeviceIsRestored
<1>1. LaneTypeOK /\ LaneInv => DeviceIsRestored
  BY DEF LaneInv, AsleepInv, DeviceIsRestored, Ended, NoticePcs
<1>. QED  BY LaneInvariant, <1>1, PTL
=============================================================================
