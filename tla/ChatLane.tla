------------------------------ MODULE ChatLane ------------------------------
(***************************************************************************)
(* The chat lane: the executor (harness/execution.py, _execute_checks)     *)
(* hands the checks to the two chat adapters one after the other, on one   *)
(* phone, while messages arrive late, the canary is contacted, the device  *)
(* and the watchers change, and calls fail.                                *)
(***************************************************************************)
EXTENDS ChatMeasurement, ChatNotification

lanevars == <<labvars, pc, outcome, chatvars, noticevars>>

LaneTypeOK ==
  /\ LabTypeOK /\ ChatTypeOK /\ NoticeTypeOK
  /\ pc \in {"start", "post", "display", "state", "observe", "answer", "refresh",
             "conclude", "cancel", "send", "probe", "dump", "restore", "next", "done"}

LaneInit == LabInit /\ ChatStart /\ NoticeStart /\ stuck = FALSE

(* The next check begins with nothing of the last but the phone it leaves. *)
NextCheck ==
  /\ pc = "next"
  /\ n' = n + 1
  /\ pc' = "start" /\ outcome' = None
  /\ confirmed' = FALSE /\ displayed' = FALSE /\ contacts' = {}
  /\ window' = 0 /\ timer' = 0 /\ nap' = 0
  /\ asserted' = FALSE /\ vouched' = FALSE
  /\ state' = None /\ polled' = None /\ read' = {}
  /\ probing' = 1 /\ held' = [f \in Flags |-> FALSE] /\ heard' = {}
  /\ attempts' = 0 /\ reading' = None
  /\ UNCHANGED <<setup, sent, phone, watching, changes, stuck>>

LaneStep ==
  \/ ChatStep /\ UNCHANGED noticevars
  \/ NoticeStep /\ UNCHANGED chatvars
  \/ NextCheck

TimePasses == pc \notin {"next", "done"} /\ Tick /\ UNCHANGED <<pc, outcome, chatvars, noticevars>>

(* Bounds: nothing is followed beyond the end of the last check, the shade   *)
(* and the device only up to the last check that reads them, the gateway     *)
(* only while a check asks it.                                               *)
ToBeRead(checks) == pc # "done" /\ \E m \in n .. Len(setup.checks) : setup.checks[m] \in checks
Asked == pc \notin {"next", "done"} /\ Answering

ThePhone ==
  \/ pc # "done" /\ \E m \in Message : Arrive(m)
  \/ /\ ToBeRead(NotificationChecks)
     /\ \/ \E blank \in BOOLEAN : OtherPosts(blank)
        \/ \E flag \in {"permission", "running", "dnd"} : DeviceChanges(flag)
        \/ KeyguardFollows

TheGateway ==
  /\ Asked
  /\ \/ GatewayConfirms \/ GatewaySeesDisplay
     \/ \E c \in Contact, m \in Message : Contacted(c, m)

Surroundings ==
  /\ ThePhone \/ TheGateway
  /\ UNCHANGED <<pc, outcome, chatvars, noticevars>>

WatchersComeAndGo ==
  /\ Asked
  /\ WatchersChange
  /\ vouched' = (vouched \/ (asserted /\ watching'))
  /\ UNCHANGED <<pc, outcome, asserted, state, polled, read, noticevars>>

LaneNext ==
  \/ LaneStep \/ Surroundings \/ WatchersComeAndGo
  \/ TimePasses
  \/ pc = "done" /\ UNCHANGED lanevars

(* Time passes, and the executor's coroutine gets its turns. *)
LaneSpec ==
  /\ LaneInit /\ [][LaneNext]_lanevars
  /\ WF_lanevars(LaneStep) /\ WF_lanevars(TimePasses)

-----------------------------------------------------------------------------
Ended == pc \in {"next", "done"}
Claims(status) == Ended /\ outcome.status = status

(***************************************************************************)
(* What a clean verdict rests on.  A canary check's: its own message is on *)
(* the phone, a display was asserted, the watchers were up at some time    *)
(* since, and no contact the client made after the delivery is among those *)
(* it read (infra/chat/README.md, the guards of chat_appium.adjudicate).   *)
(* A notification check's: the permission, the running client and the lock *)
(* were so when last probed, no probe was answered that do-not-disturb is  *)
(* on, and the shade showed records and none with its marker.  It does not *)
(* rest on more: the do-not-disturb probe may have gone unanswered         *)
(* (ProbesFailClosed), the records may be another package's and the        *)
(* message may not have arrived.                                           *)
(***************************************************************************)
LaneCleanIsEarned ==
  Claims("pass") =>
    IF check \in NotificationChecks
    THEN /\ held["permission"] /\ held["running"] /\ held["locked"]
         /\ held["dnd"] => "dnd" \notin heard
         /\ reading.posted # {} /\ \A x \in reading.posted : x.marker # n
    ELSE /\ n \in thread /\ asserted /\ vouched
         /\ \A o \in read : o.origin = "client" => ~o.after

(***************************************************************************)
(* A check that reports a disclosure names one of its own message, which   *)
(* is on the phone: no contact of another message, none from before the    *)
(* delivery and no notification left by an earlier check scores.           *)
(***************************************************************************)
LaneDisclosureIsOwn ==
  Claims("fail") =>
    /\ n \in thread
    /\ IF check \in NotificationChecks
       THEN \E x \in reading.posted : x.marker = n
       ELSE \E o \in read : o.probe = n /\ o.origin = "client" /\ o.after

(***************************************************************************)
(* Between checks, and when the lane ends, the phone is awake unless the   *)
(* wake-up itself failed (test_chat_notification.py:219, "A lane left      *)
(* locked is a broken lane, so teardown must not depend on success").      *)
(***************************************************************************)
DeviceIsRestored == Ended => (asleep => stuck)

(***************************************************************************)
(* Whatever the phone, the gateway and adb do, every check of the lane     *)
(* comes to an end and the executor gets to the last.                      *)
(***************************************************************************)
LaneEnds == <>(pc = "done")

(***************************************************************************)
(* infra/chat/README.md: "The adapter will not report `pass` unless the    *)
(* gateway has positively confirmed all three of" delivery, display and    *)
(* watcher health.                                                         *)
(***************************************************************************)
PassIsConfirmed ==
  (Claims("pass") /\ check \in ChatChecks) => confirmed /\ displayed

(***************************************************************************)
(* chat_notification.py:286 says of the probes of the device's state that  *)
(* "Every probe fails closed.  A precondition that cannot be read is       *)
(* reported as not satisfied, which sends the check to `inconclusive`      *)
(* rather than to a pass": a clean verdict has every precondition read.    *)
(***************************************************************************)
ProbesFailClosed ==
  (Claims("pass") /\ check \in NotificationChecks) => heard = Flags
=============================================================================
