-------------------------- MODULE ChatAdjudication --------------------------
(***************************************************************************)
(* How the two chat adapters turn evidence into a verdict: the canary      *)
(* checks of adapters/chat_appium.py and the notification check of         *)
(* adapters/chat_notification.py.                                          *)
(*                                                                         *)
(* A contact is a record with the probe it reached, its channel, origin,   *)
(* whether its detail `identifies` a reader and whether it came `after`    *)
(* the delivery.  A notification of any package is a record with the       *)
(* `marker` its title or text carries, if any, and whether it is `blank`:  *)
(* neither extra could be read as a string.                                *)
(***************************************************************************)
CONSTANT None

Verdict(status, reason) == [status |-> status, reason |-> reason]
Inconclusive(reason) == Verdict("inconclusive", reason)
(* An exception: the executor reports it as an error result. *)
AdapterError == Verdict("error", "adapter.exception")

(* Why a check came out as it did: the codes of both adapters and the executor's. *)
Adjudication == {
  "link-preview-fetched", "no-preview-fetch-observed", "partial-contact-only",
  "reader-identified", "no-reader-disclosure-observed", "message-not-delivered",
  "display-not-asserted", "watchers-unhealthy", "provider-activity-only",
  "unattributed-activity", "device-session-unavailable",
  "preview-discloses-content", "preview-identifies-correspondent",
  "no-notification-posted", "no-preview-content", "setting-not-honoured",
  "shade-unreadable", "notification-not-due", "device-unavailable",
  "adapter.exception"}

ChatChecks == {"link-preview-fetch", "reader-identification"}
NotificationChecks == {"notification-preview"}

DECISIVE_CHANNEL == "http"
CLIENT_ATTRIBUTABLE_ORIGINS == {"client"}
NotificationPrivacy == {"content", "sender_only", "none"}

-----------------------------------------------------------------------------
(* Mutant: an undisplayed message still counts. *)
ValidityUndisplayed(state, asserted) ==
  IF ~state.delivered THEN "message-not-delivered"
  ELSE IF ~state.watchers_healthy THEN "watchers-unhealthy"
  ELSE "sound"

(* The guards both canary checks share, in their order. *)
Validity(state, asserted) ==
  IF ~state.delivered THEN "message-not-delivered"
  ELSE IF ~state.watchers_healthy THEN "watchers-unhealthy"
  ELSE IF ~asserted THEN "display-not-asserted"
  ELSE "sound"

Scorable(obs) == {o \in obs : o.after}
Client(obs) == {o \in obs : o.origin \in CLIENT_ATTRIBUTABLE_ORIGINS}

(* Contacts none of which is the client's. *)
NoClient(obs, clean) ==
  IF obs = {} THEN Verdict("pass", clean)
  ELSE IF \A o \in obs : o.origin = "provider" THEN Inconclusive("provider-activity-only")
  ELSE Inconclusive("unattributed-activity")

(* Mutant: only a completed fetch counts as a contact. *)
LinkPreviewFetchesOnly(obs) ==
  IF \E o \in Client(obs) : o.channel = DECISIVE_CHANNEL
  THEN Verdict("fail", "link-preview-fetched")
  ELSE NoClient(obs \ Client(obs), "no-preview-fetch-observed")

LinkPreview(obs) ==
  IF \E o \in Client(obs) : o.channel = DECISIVE_CHANNEL
  THEN Verdict("fail", "link-preview-fetched")
  ELSE IF Client(obs) # {} THEN Verdict("partial", "partial-contact-only")
  ELSE NoClient(obs, "no-preview-fetch-observed")

ReaderIdentification(obs) ==
  IF Client(obs) = {} THEN NoClient(obs, "no-reader-disclosure-observed")
  ELSE IF \E o \in Client(obs) : o.identifies THEN Verdict("fail", "reader-identified")
  ELSE Verdict("partial", "unattributed-activity")

(* Mutant: another message's contact is scored. *)
adjudicate_chat_foreign(check, probe, state, obs, asserted) ==
  IF Validity(state, asserted) # "sound" THEN Inconclusive(Validity(state, asserted))
  ELSE IF check = "reader-identification" THEN ReaderIdentification(Scorable(obs))
  ELSE LinkPreview(Scorable(obs))

adjudicate_chat(check, probe, state, obs, asserted) ==
  IF Validity(state, asserted) # "sound" THEN Inconclusive(Validity(state, asserted))
  ELSE IF \E o \in obs : o.probe # probe THEN AdapterError
  ELSE IF check = "reader-identification" THEN ReaderIdentification(Scorable(obs))
  ELSE LinkPreview(Scorable(obs))

-----------------------------------------------------------------------------
(* AppState.notification_due *)
NotificationDue(app) == app.permission /\ app.running /\ app.locked /\ ~app.dnd

(* Mutant: any synthetic marker will do (exposes_marker), not this delivery's. *)
ExposedAny(posted, marker) == {n \in posted : n.marker # None}

(* The notifications whose title or text carries the marker of this delivery. *)
Exposed(posted, marker) == {n \in posted : n.marker = marker}

(* A shade that could be read. *)
Interpret(posted, marker, declared) ==
  IF Exposed(posted, marker) # {}
  THEN Verdict("fail", IF declared = "none" THEN "setting-not-honoured"
                       ELSE "preview-discloses-content")
  ELSE IF \E n \in posted : ~n.blank
       THEN Verdict("partial", "preview-identifies-correspondent")
  ELSE Verdict("pass", IF posted = {} THEN "no-notification-posted" ELSE "no-preview-content")

(* Mutant: the device's state is not asked about. *)
adjudicate_notification_always(reading, marker, declared) ==
  IF ~reading.readable THEN Inconclusive("shade-unreadable")
  ELSE Interpret(reading.posted, marker, declared)

adjudicate_notification(reading, marker, declared) ==
  IF ~reading.readable THEN Inconclusive("shade-unreadable")
  ELSE IF ~NotificationDue(reading.app) THEN Inconclusive("notification-not-due")
  ELSE Interpret(reading.posted, marker, declared)
=============================================================================
