-------------------------- MODULE ChatMeasurement --------------------------
(***************************************************************************)
(* ChatAppiumAdapter.execute_check (adapters/chat_appium.py): open the     *)
(* conversation, have a honey-message sent, wait until the client shows    *)
(* it, ask the gateway for its state and its canary contacts, adjudicate.  *)
(***************************************************************************)
EXTENDS ChatLab

VARIABLES
  asserted,  \* display_asserted
  state,     \* the `state` of execute_check
  polled,    \* what _await_observations' own `state` has become
  read,      \* the contacts of the last get_observations
  vouched    \* history: the watchers were up at some time since the display

chatvars == <<asserted, state, polled, read, vouched>>

ChatTypeOK ==
  /\ asserted \in BOOLEAN /\ vouched \in BOOLEAN
  /\ state \in {None} \cup [delivered : BOOLEAN, displayed : BOOLEAN,
                            watchers_healthy : BOOLEAN]
  /\ polled \in {None} \cup [delivered : BOOLEAN, displayed : BOOLEAN,
                             watchers_healthy : BOOLEAN]
  /\ read \subseteq contacts

ChatStart ==
  /\ asserted = FALSE /\ vouched = FALSE
  /\ state = None /\ polled = None /\ read = {}

Answering == check \in ChatChecks

(* No device session is configured, or the slot's number is missing or malformed. *)
RefuseChat ==
  /\ pc = "start" /\ Answering
  /\ \/ ~setup.session /\ End(Inconclusive("device-session-unavailable"))
     \/ setup.session /\ setup.number # "valid" /\ End(AdapterError)
  /\ UNCHANGED <<labvars, chatvars>>

(* session.deliver: without a recipe that resolves it raises. *)
OpenConversation ==
  /\ pc = "start" /\ Answering
  /\ setup.session /\ setup.number = "valid"
  /\ Goto("post") \/ End(AdapterError)
  /\ UNCHANGED <<labvars, chatvars>>

(***************************************************************************)
(* client.deliver.  The message may be on its way although the answer was  *)
(* lost; the wait for the display begins when it was not.                  *)
(***************************************************************************)
PostMessage ==
  /\ pc = "post"
  /\ \/ /\ sent' = sent \cup {n}
        /\ window' = Window
        /\ timer' = Smaller(DisplayTimeout, Timeout)
        /\ Goto("display")
     \/ /\ sent' \in {sent, sent \cup {n}}
        /\ End(AdapterError)
        /\ UNCHANGED <<window, timer>>
  /\ UNCHANGED <<setup, n, phone, gateway, changes, nap, chatvars>>

(* Mutant: the wait for the display has no deadline. *)
AwaitDisplayForever ==
  /\ pc = "display" /\ nap = 0
  /\ IF thread = {}
     THEN nap' = 1 /\ UNCHANGED <<asserted, vouched, pc, outcome>>
     ELSE /\ asserted' = TRUE /\ vouched' = watching /\ nap' = 0
          /\ Goto("state")
  /\ UNCHANGED <<setup, n, sent, phone, gateway, changes, window, timer,
                 state, polled, read>>

(***************************************************************************)
(* _await_display.  Any honey-message in the conversation satisfies the    *)
(* recipe's message_selector; a client may as well not show one, and a     *)
(* driver that cannot be started raises.                                   *)
(***************************************************************************)
AwaitDisplay ==
  /\ pc = "display" /\ nap = 0
  /\ \/ /\ thread # {}
        /\ asserted' = TRUE /\ vouched' = watching
        /\ Goto("state")
        /\ UNCHANGED nap
     \/ /\ IF timer = 0 THEN Goto("state") /\ nap' = 0
                        ELSE nap' = 1 /\ UNCHANGED <<pc, outcome>>
        /\ UNCHANGED <<asserted, vouched>>
     \/ End(AdapterError) /\ UNCHANGED <<nap, asserted, vouched>>
  /\ UNCHANGED <<setup, n, sent, phone, gateway, changes, window, timer,
                 state, polled, read>>

GetState ==
  /\ pc = "state"
  /\ state' = Snapshot /\ polled' = Snapshot
  /\ timer' = Smaller(window, Timeout)
  /\ Goto("observe")
  /\ UNCHANGED <<setup, n, sent, phone, gateway, changes, window, nap,
                 asserted, read, vouched>>

Settled(s) == s.delivered /\ s.displayed /\ s.watchers_healthy

(* _await_observations: the gateway answers with the contacts it holds ... *)
GetObservations ==
  /\ pc = "observe"
  /\ read' = contacts
  /\ Goto("answer")
  /\ UNCHANGED <<labvars, asserted, state, polled, vouched>>

(* ... and the poll ends with them, or sleeps and asks again. *)
ReceiveObservations ==
  /\ pc = "answer"
  /\ IF read # {} \/ Settled(polled) \/ timer = 0
     THEN Goto("conclude") /\ UNCHANGED nap
     ELSE Goto("refresh") /\ nap' = 1
  /\ UNCHANGED <<setup, n, sent, phone, gateway, changes, window, timer, chatvars>>

(* After the sleep the poll's own copy of the state follows the gateway's. *)
Refresh ==
  /\ pc = "refresh" /\ nap = 0
  /\ polled' = Snapshot
  /\ Goto("observe")
  /\ UNCHANGED <<labvars, asserted, state, read, vouched>>

(* Any request may fail, and the exception leaves execute_check. *)
ChatRequestFails ==
  /\ pc \in {"state", "observe", "answer", "refresh"} /\ (pc = "refresh" => nap = 0)
  /\ End(AdapterError)
  /\ UNCHANGED <<labvars, chatvars>>

Conclude ==
  /\ pc = "conclude"
  /\ End(adjudicate_chat(check, n, state, read, asserted))
  /\ UNCHANGED <<labvars, chatvars>>

ChatStep ==
  \/ RefuseChat \/ OpenConversation \/ PostMessage \/ AwaitDisplay \/ GetState
  \/ GetObservations \/ ReceiveObservations \/ Refresh \/ ChatRequestFails \/ Conclude
=============================================================================
