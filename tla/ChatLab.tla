------------------------------ MODULE ChatLab ------------------------------
(***************************************************************************)
(* What the chat adapters work with and do not control: one Android phone  *)
(* with the client under test, its notification shade and its screen, and  *)
(* the canary gateway that sends the honey-messages.  Both are outside the *)
(* repository; they are modelled from how the adapters use them.           *)
(*                                                                         *)
(* The checks of consecutive executions run on the phone one after the     *)
(* other.  The n-th check's honey-message is message n.                    *)
(*                                                                         *)
(* Deadlines count down: a timer at 0 has passed.                          *)
(***************************************************************************)
EXTENDS Naturals, Sequences, FiniteSets, ChatAdjudication

CONSTANTS
  Setup,            \* what a lane may be given: see setup
  Contact,          \* contacts the canary may see: channel, origin, identifies
  Window,           \* how long the gateway keeps a message's window open
  Timeout,          \* check.timeout_seconds
  DisplayTimeout,   \* display_timeout_seconds
  ReadAttempts,     \* shade_read_attempts
  MaxContacts,      \* bound: contacts of a message
  MaxChanges        \* bound: changes of the device, the watchers and other apps

ASSUME ChatAssumption ==
  /\ Window \in Nat /\ Timeout \in Nat /\ DisplayTimeout \in Nat
  /\ ReadAttempts \in Nat \ {0}
  /\ MaxContacts \in Nat /\ MaxChanges \in Nat
  /\ None \notin Nat
  /\ \A s \in Setup : s.checks \in Seq(ChatChecks \cup NotificationChecks) /\ s.checks # <<>>

VARIABLES
  setup,      \* the checks, and the slot's number, session, package and privacy level
  n,          \* the check that is running
  sent,       \* messages the gateway has accepted
  thread,     \* messages that have reached the conversation on the phone
  shade,      \* the notifications posted
  device,     \* notification permission, client running, do-not-disturb
  asleep,     \* the screen is off
  locked,     \* the keyguard is engaged
  confirmed,  \* the gateway reports message n delivered ...
  displayed,  \* ... and displayed
  contacts,   \* the canary contacts the gateway holds for message n
  watching,   \* the gateway's watchers are healthy
  changes,    \* how many bounded changes have happened
  window, timer, nap, \* time left of the window, the poll and the sleep
  pc,         \* where the lane is
  outcome     \* the AdapterOutcome of check n, or the exception

phone == <<thread, shade, device, asleep, locked>>
gateway == <<confirmed, displayed, contacts, watching>>
timers == <<window, timer, nap>>
labvars == <<setup, n, sent, phone, gateway, changes, timers>>

Message == 1 .. Len(setup.checks)
check == setup.checks[n]
Flags == {"permission", "running", "locked", "dnd"}
Notification(marker, blank) == [marker |-> marker, blank |-> blank]

LabTypeOK ==
  /\ setup \in Setup
  /\ n \in Message
  /\ sent \in SUBSET Message /\ thread \in SUBSET Message
  /\ shade \in SUBSET [marker : Message \cup {None}, blank : BOOLEAN]
  /\ device \in [{"permission", "running", "dnd"} -> BOOLEAN]
  /\ asleep \in BOOLEAN /\ locked \in BOOLEAN
  /\ confirmed \in BOOLEAN /\ displayed \in BOOLEAN /\ watching \in BOOLEAN
  /\ \A o \in contacts : o.probe \in Message /\ o.after \in BOOLEAN
  /\ changes \in 0 .. MaxChanges
  /\ window \in 0 .. Window /\ nap \in {0, 1}
  /\ timer \in Nat
  /\ outcome \in {None} \cup [status : {"pass", "fail", "partial", "inconclusive", "error"},
                              reason : Adjudication]

LabInit ==
  /\ setup \in Setup
  /\ n = 1
  /\ sent = {} /\ thread = {} /\ shade = {}
  /\ device = [flag \in {"permission", "running", "dnd"} |-> flag # "dnd"]
  /\ asleep = FALSE /\ locked = FALSE
  /\ confirmed = FALSE /\ displayed = FALSE /\ contacts = {} /\ watching = TRUE
  /\ changes = 0
  /\ window = 0 /\ timer = 0 /\ nap = 0
  /\ pc = "start" /\ outcome = None

Smaller(a, b) == IF a < b THEN a ELSE b

(* What the gateway's state route answers. *)
Snapshot == [delivered |-> confirmed, displayed |-> displayed, watchers_healthy |-> watching]

(* What a probe of the device would answer. *)
Holds(flag) == IF flag = "locked" THEN locked ELSE device[flag]

Goto(next) == pc' = next /\ UNCHANGED outcome

(* The check ends; the executor goes on to the next, an exception or not. *)
End(result) ==
  /\ pc' = IF n = Len(setup.checks) THEN "done" ELSE "next"
  /\ outcome' = result

-----------------------------------------------------------------------------
(* The phone *)

(***************************************************************************)
(* A message reaches the phone, sooner or later, and the client may post a *)
(* notification: with the body, and the marker if the message carries one, *)
(* with a name or with nothing in it.                                      *)
(***************************************************************************)
Arrive(m) ==
  /\ m \in sent \ thread
  /\ setup.number = "valid"
  /\ thread' = thread \cup {m}
  /\ LET marker == IF setup.checks[m] \in NotificationChecks THEN m ELSE None
     IN  \/ shade' = shade
         \/ /\ device["permission"]
            /\ \E posted \in {Notification(marker, FALSE), Notification(None, FALSE),
                              Notification(None, TRUE)} :
                 shade' = shade \cup {posted}
  /\ UNCHANGED <<setup, n, sent, device, asleep, locked, gateway, changes, timers>>

Change == changes < MaxChanges /\ changes' = changes + 1

OtherPosts(blank) ==
  /\ Change
  /\ shade' = shade \cup {Notification(None, blank)}
  /\ UNCHANGED <<setup, n, sent, thread, device, asleep, locked, gateway, timers>>

DeviceChanges(flag) ==
  /\ Change
  /\ device' = [device EXCEPT ![flag] = ~@]
  /\ UNCHANGED <<setup, n, sent, thread, shade, asleep, locked, gateway, timers>>

(* The keyguard engages some time after the screen is off, and goes some time *)
(* after it is on.                                                            *)
KeyguardFollows ==
  /\ locked # asleep
  /\ locked' = asleep
  /\ UNCHANGED <<setup, n, sent, thread, shade, device, asleep, gateway, changes, timers>>

-----------------------------------------------------------------------------
(* The gateway *)
GatewayConfirms ==
  /\ n \in thread /\ ~confirmed
  /\ confirmed' = TRUE
  /\ UNCHANGED <<setup, n, sent, phone, displayed, contacts, watching, changes, timers>>

GatewaySeesDisplay ==
  /\ n \in thread /\ ~displayed
  /\ displayed' = TRUE
  /\ UNCHANGED <<setup, n, sent, phone, confirmed, contacts, watching, changes, timers>>

(* observed_at >= delivered_at, for a contact made now: the gateway dates the *)
(* delivery between the arrival and its confirmation.                         *)
AfterDelivery == {after \in BOOLEAN : (after => n \in thread) /\ (confirmed => after)}

(* A canary contact, filed under message n; it may be another message's. *)
Contacted(c, m) ==
  /\ n \in sent /\ m \in sent /\ Cardinality(contacts) < MaxContacts
  /\ \E after \in AfterDelivery :
       contacts' = contacts \cup {[probe |-> m, channel |-> c.channel, origin |-> c.origin,
                                   identifies |-> c.identifies, after |-> after]}
  /\ UNCHANGED <<setup, n, sent, phone, confirmed, displayed, watching, changes, timers>>

WatchersChange ==
  /\ Change
  /\ watching' = ~watching
  /\ UNCHANGED <<setup, n, sent, phone, confirmed, displayed, contacts, timers>>

Elapsed(left) == IF left = 0 THEN 0 ELSE left - 1

Tick ==
  /\ window + timer + nap > 0
  /\ window' = Elapsed(window) /\ timer' = Elapsed(timer) /\ nap' = Elapsed(nap)
  /\ UNCHANGED <<setup, n, sent, phone, gateway, changes>>
=============================================================================
