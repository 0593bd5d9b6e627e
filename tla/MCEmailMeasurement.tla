------------------------- MODULE MCEmailMeasurement -------------------------
(***************************************************************************)
(* One run, of the email or of the webmail adapter, one collector thread,  *)
(* one probe.  The payloads are the ones the planned checks tell apart.    *)
(***************************************************************************)
EXTENDS WebmailMeasurement

Contacted(vector, channel, origin) ==
  [vector |-> vector, channel |-> channel, origin |-> origin,
   identifies |-> FALSE, referrer |-> "none"]

MCPayload == {Contacted("dnsAnchor", "dns", "client"), Contacted("dnsAnchor", "http", "provider")}

Asked(check, lane, mailbox, observer) ==
  [check |-> check, lane |-> lane, mailbox |-> mailbox, observer |-> observer]

(* What is measured, with an observer of the open and without, and what is refused. *)
MCPlanned ==
  {Asked("remote-content", "email", TRUE, TRUE),
   Asked("dns-prefetch", "email", TRUE, FALSE),
   Asked("remote-content", "email", FALSE, FALSE),
   Asked("chat-check", "email", TRUE, FALSE),
   Asked("remote-content", "ready", TRUE, TRUE),
   Asked("dns-prefetch", "ready", TRUE, TRUE)}
  \cup {Asked("remote-content", lane, TRUE, TRUE) : lane \in Lacking}
=============================================================================
