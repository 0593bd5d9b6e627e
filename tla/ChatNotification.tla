-------------------------- MODULE ChatNotification --------------------------
(***************************************************************************)
(* ChatNotificationAdapter.execute_check (adapters/chat_notification.py)   *)
(* over AdbNotificationShade: put the phone to sleep and clear its shade,  *)
(* have a marked honey-message sent, read the device's state and the shade *)
(* until the marker shows or the attempts are used up, wake the phone and  *)
(* adjudicate.  Every adb call may fail, with its effect or without.       *)
(***************************************************************************)
EXTENDS ChatLab

VARIABLES
  probing,   \* the probe of AdbNotificationShade._state that is next
  held,      \* history: what was so when each probe was made
  heard,     \* the probes that were answered
  attempts,  \* readings of the shade so far
  reading,   \* the last ShadeReading; None when the check was cut short
  stuck      \* history: the last wake-up failed

noticevars == <<probing, held, heard, attempts, reading, stuck>>

Probes == <<"permission", "running", "locked", "dnd">>
AppState == [Flags -> BOOLEAN]

NoticeTypeOK ==
  /\ probing \in 1 .. Len(Probes)
  /\ held \in AppState
  /\ heard \in SUBSET Flags
  /\ attempts \in 0 .. ReadAttempts
  /\ reading \in {None} \cup [readable : BOOLEAN, app : AppState,
                              posted : SUBSET [marker : Message \cup {None}, blank : BOOLEAN]]
  /\ stuck \in BOOLEAN

NoticeStart ==
  /\ probing = 1 /\ held = [f \in Flags |-> FALSE] /\ heard = {}
  /\ attempts = 0 /\ reading = None

Noticing == check \in NotificationChecks
AbleToNotice ==
  setup.session /\ setup.number # "missing" /\ setup.privacy # "unknown" /\ setup.package

(* No device, no number, an unknown privacy level or no package. *)
RefuseNotice ==
  /\ pc = "start" /\ Noticing /\ ~AbleToNotice
  /\ End(IF setup.session THEN AdapterError ELSE Inconclusive("device-unavailable"))
  /\ UNCHANGED <<labvars, noticevars>>

-----------------------------------------------------------------------------
(***************************************************************************)
(* prepare: the sleep key ...  Both calls go to adb without "shell"; an    *)
(* adb that does not know them is one of the ways they fail.               *)
(***************************************************************************)
Sleep ==
  /\ pc = "start" /\ Noticing /\ AbleToNotice
  /\ \/ asleep' = TRUE /\ Goto("cancel")
     \/ asleep' \in {asleep, TRUE} /\ Goto("restore")
  /\ UNCHANGED <<setup, n, sent, thread, shade, device, locked, gateway, changes, timers,
                 noticevars>>

(* ... and the shade is cleared of what the platform lets go. *)
CancelAll ==
  /\ pc = "cancel"
  /\ shade' \in SUBSET shade
  /\ Goto("send") \/ Goto("restore")
  /\ UNCHANGED <<setup, n, sent, thread, device, asleep, locked, gateway, changes, timers,
                 noticevars>>

(* _deliver: the marker of message n is fresh. *)
SendMarked ==
  /\ pc = "send"
  /\ \/ sent' = sent \cup {n} /\ Goto("probe")
     \/ sent' \in {sent, sent \cup {n}} /\ Goto("restore")
  /\ UNCHANGED <<setup, n, phone, gateway, changes, timers, noticevars>>

(***************************************************************************)
(* One of the four probes of _state.  An unanswered one reads as FALSE.    *)
(***************************************************************************)
Probe ==
  /\ pc = "probe" /\ nap = 0
  /\ LET flag == Probes[probing]
     IN  /\ held' = [held EXCEPT ![flag] = Holds(flag)]
         /\ heard' \in {heard \cup {flag}, heard \ {flag}}
  /\ IF probing = Len(Probes) THEN probing' = 1 /\ Goto("dump")
     ELSE probing' = probing + 1 /\ UNCHANGED <<pc, outcome>>
  /\ UNCHANGED <<labvars, attempts, reading, stuck>>

app == [f \in Flags |-> f \in heard /\ held[f]]

(* A dump that fails or holds no record the parser knows is unreadable. *)
Readings ==
  {[readable |-> FALSE, app |-> app, posted |-> {}]} \cup
  (IF shade = {} THEN {} ELSE {[readable |-> TRUE, app |-> app, posted |-> shade]})

(* Mutant: one reading too many. *)
DumpOnceMore ==
  /\ pc = "dump"
  /\ \E r \in Readings :
       /\ reading' = r
       /\ attempts' = attempts + 1
       /\ IF Exposed(r.posted, n) # {} \/ ~r.readable \/ attempts = ReadAttempts
          THEN Goto("restore") /\ UNCHANGED nap
          ELSE Goto("probe") /\ nap' = 1
  /\ UNCHANGED <<setup, n, sent, phone, gateway, changes, window, timer,
                 probing, held, heard, stuck>>

(* The dump, and whether _await_notification reads again. *)
Dump ==
  /\ pc = "dump"
  /\ \E r \in Readings :
       /\ reading' = r
       /\ attempts' = attempts + 1
       /\ IF Exposed(r.posted, n) # {} \/ ~r.readable \/ attempts + 1 = ReadAttempts
          THEN Goto("restore") /\ UNCHANGED nap
          ELSE Goto("probe") /\ nap' = 1
  /\ UNCHANGED <<setup, n, sent, phone, gateway, changes, window, timer,
                 probing, held, heard, stuck>>

(* Mutant: the phone is woken only by a check that got a reading. *)
RestoreOnSuccess ==
  /\ pc = "restore"
  /\ IF reading = None
     THEN UNCHANGED <<asleep, stuck>>
     ELSE \/ asleep' = FALSE /\ stuck' = FALSE
          \/ stuck' = TRUE /\ UNCHANGED asleep
  /\ End(IF reading = None THEN AdapterError
         ELSE adjudicate_notification(reading, n, setup.privacy))
  /\ UNCHANGED <<setup, n, sent, thread, shade, device, locked, gateway, changes, timers,
                 probing, held, heard, attempts, reading>>

(***************************************************************************)
(* restore, in the finally, and the verdict on the reading if there is     *)
(* one.  The wake-up key lights the screen; it does not unlock.            *)
(***************************************************************************)
Restore ==
  /\ pc = "restore"
  /\ \/ asleep' = FALSE /\ stuck' = FALSE
     \/ stuck' = TRUE /\ UNCHANGED asleep
  /\ End(IF reading = None THEN AdapterError
         ELSE adjudicate_notification(reading, n, setup.privacy))
  /\ UNCHANGED <<setup, n, sent, thread, shade, device, locked, gateway, changes, timers,
                 probing, held, heard, attempts, reading>>

NoticeStep ==
  \/ RefuseNotice \/ Sleep \/ CancelAll \/ SendMarked \/ Probe \/ Dump \/ Restore
=============================================================================
