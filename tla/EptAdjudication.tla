-------------------------- MODULE EptAdjudication --------------------------
(***************************************************************************)
(* How adapters/ept.py turns a probe's evidence into a verdict: one        *)
(* adjudicator per check, each a function of the gateway state the adapter *)
(* holds, the contacts it was given and whether an open was asserted.      *)
(*                                                                         *)
(* A contact is a record with its probe, its channel, origin and vector,   *)
(* `identifies` (its detail carries a reader field) and `referrer`: "none",*)
(* "first" (a Referer reached the canary's own host) or "third" (it        *)
(* reached a declared third-party host).  The gateway's tuple of contacts  *)
(* is a set here: no adjudicator looks at order or repetition.             *)
(***************************************************************************)
EXTENDS Naturals

CONSTANTS
  MIME_PART_VECTORS,
  LIST_UNSUBSCRIBE_VECTORS,
  BACKGROUND_VECTORS,
  Undelivered  \* delivered_at of a message the gateway has not confirmed

Channels == {"http", "dns", "tls_sni"}
RESOLUTION_CHANNELS == {"dns", "tls_sni"}
Origins == {"client", "provider", "unknown"}
CLIENT_ATTRIBUTABLE_ORIGINS == {"client"}
Referrers == {"none", "first", "third"}

Checks == {"remote-content", "dns-prefetch", "reader-identification", "mime-remote-part",
           "list-unsubscribe-fetch", "background-fetch", "referrer-disclosure"}

(* The vectors a check cannot be measured without. *)
REQUIRED_EXERCISED ==
  [check \in Checks |->
     CASE check = "remote-content" -> {}
       [] check = "dns-prefetch" -> {"dnsAnchor"}
       [] check \in {"reader-identification", "referrer-disclosure"} -> {"img"}
       [] check = "mime-remote-part" -> MIME_PART_VECTORS
       [] check = "list-unsubscribe-fetch" -> LIST_UNSUBSCRIBE_VECTORS
       [] check = "background-fetch" -> BACKGROUND_VECTORS]

MissingVectors(check, exercised) == REQUIRED_EXERCISED[check] \ exercised

-----------------------------------------------------------------------------
(* Why a check came out as it did: the adapter's codes and the executor's. *)
Adjudication == {
  "remote-content-detected", "no-remote-content-observed", "message-not-delivered",
  "open-not-asserted", "watchers-unhealthy", "provider-prefetch-only",
  "unattributed-activity", "vector-not-exercised", "resolver-disclosed",
  "no-resolution-observed", "reader-identified", "mime-part-disclosed",
  "no-mime-part-content-observed", "list-unsubscribe-disclosed",
  "no-list-unsubscribe-fetch-observed", "background-fetch-disclosed",
  "no-background-fetch-observed", "third-party-referrer-disclosed",
  "referrer-disclosed", "no-referrer-observed", "referrer-not-captured",
  "unsupported-check", "adapter.exception"}

Verdict(status, reason) == [status |-> status, reason |-> reason]
Pass(reason) == Verdict("pass", reason)
Fail(reason) == Verdict("fail", reason)
Partial(reason) == Verdict("partial", reason)
Inconclusive(reason) == Verdict("inconclusive", reason)
(* An exception: the executor reports it as an error result. *)
AdapterError == Verdict("error", "adapter.exception")

(* Mutant: a provider's contact counts as the client's. *)
ClientOrProvider(obs) == {o \in obs : o.origin # "unknown"}

Client(obs) == {o \in obs : o.origin \in CLIENT_ATTRIBUTABLE_ORIGINS}
Foreign(state, obs) == {o \in obs : o.probe # state.probe}
OnlyProvider(obs) == obs # {} /\ \A o \in obs : o.origin = "provider"

(* Contacts none of which settles the check. *)
Unsettled(obs, clean) ==
  IF obs = {} THEN Pass(clean) ELSE Inconclusive("unattributed-activity")

ProviderOrUnsettled(obs, clean) ==
  IF OnlyProvider(obs) THEN Inconclusive("provider-prefetch-only") ELSE Unsettled(obs, clean)

-----------------------------------------------------------------------------
(* Mutant: only fetches are looked at. *)
adjudicate_fetches(state, obs) ==
  LET fetched == {o \in obs : o.channel = "http"}
  IN  IF Client(fetched) # {} THEN Fail("remote-content-detected")
      ELSE ProviderOrUnsettled(fetched, "no-remote-content-observed")

adjudicate(state, obs) ==
  IF Client(obs) # {} THEN Fail("remote-content-detected")
  ELSE ProviderOrUnsettled(obs, "no-remote-content-observed")

adjudicate_dns_prefetch(state, obs) ==
  IF \E o \in Client(obs) : o.channel \in RESOLUTION_CHANNELS THEN Fail("resolver-disclosed")
  ELSE ProviderOrUnsettled(obs, "no-resolution-observed")

(* Mutant: every contact must identify the reader. *)
adjudicate_reader_always(state, obs) ==
  IF Client(obs) = {} THEN Pass("no-remote-content-observed")
  ELSE IF \A o \in Client(obs) : o.identifies THEN Fail("reader-identified")
  ELSE Partial("unattributed-activity")

adjudicate_reader_identification(state, obs) ==
  IF Client(obs) = {} THEN Pass("no-remote-content-observed")
  ELSE IF \E o \in Client(obs) : o.identifies THEN Fail("reader-identified")
  ELSE Partial("unattributed-activity")

(* Mutant: anybody's fetch of a part counts. *)
adjudicate_mime_unattributed(state, obs) ==
  IF \E o \in obs : o.vector \in MIME_PART_VECTORS THEN Fail("mime-part-disclosed")
  ELSE Unsettled(obs, "no-mime-part-content-observed")

adjudicate_mime_remote_part(state, obs) ==
  IF \E o \in Client(obs) : o.vector \in MIME_PART_VECTORS THEN Fail("mime-part-disclosed")
  ELSE Unsettled(obs, "no-mime-part-content-observed")

adjudicate_list_unsubscribe_fetch(state, obs) ==
  IF \E o \in Client(obs) : o.vector \in LIST_UNSUBSCRIBE_VECTORS
  THEN Fail("list-unsubscribe-disclosed")
  ELSE Unsettled(obs, "no-list-unsubscribe-fetch-observed")

(* The one check for which no open is a finding, not a missing precondition. *)
adjudicate_background_fetch(state, obs, open) ==
  IF Client(obs) # {} /\ ~open THEN Fail("background-fetch-disclosed")
  ELSE Pass("no-background-fetch-observed")

adjudicate_referrer_disclosure(state, obs) ==
  LET leaks == {o \in Client(obs) : o.referrer # "none"}
  IN  IF \E o \in leaks : o.referrer = "third" THEN Fail("third-party-referrer-disclosed")
      ELSE IF leaks # {} THEN Fail("referrer-disclosed")
      ELSE IF obs # {} /\ Client(obs) = {} THEN Inconclusive("unattributed-activity")
      ELSE IF ~state.third_party THEN Partial("no-referrer-observed")
      ELSE Pass("no-referrer-observed")

-----------------------------------------------------------------------------
(* Mutant: the watchers are not asked about. *)
settle_unwatched(check, state, open) ==
  IF state.delivered_at = Undelivered THEN "message-not-delivered"
  ELSE IF ~open /\ check # "background-fetch" THEN "open-not-asserted"
  ELSE IF check = "referrer-disclosure" /\ ~state.referer_captured
       THEN "referrer-not-captured"
  ELSE "sound"

(***************************************************************************)
(* The guards, in the order every adjudicator applies them: delivery,      *)
(* watcher health, the open (background-fetch excepted), the Referer       *)
(* capability (referrer-disclosure only).  "sound" when none applies.      *)
(***************************************************************************)
settle_validity(check, state, open) ==
  IF state.delivered_at = Undelivered THEN "message-not-delivered"
  ELSE IF ~state.watchers_healthy THEN "watchers-unhealthy"
  ELSE IF ~open /\ check # "background-fetch" THEN "open-not-asserted"
  ELSE IF check = "referrer-disclosure" /\ ~state.referer_captured
       THEN "referrer-not-captured"
  ELSE "sound"

Route(check, state, obs, open) ==
  IF check = "dns-prefetch" THEN adjudicate_dns_prefetch(state, obs)
  ELSE IF check = "reader-identification" THEN adjudicate_reader_identification(state, obs)
  ELSE IF check = "mime-remote-part" THEN adjudicate_mime_remote_part(state, obs)
  ELSE IF check = "list-unsubscribe-fetch" THEN adjudicate_list_unsubscribe_fetch(state, obs)
  ELSE IF check = "background-fetch" THEN adjudicate_background_fetch(state, obs, open)
  ELSE IF check = "referrer-disclosure" THEN adjudicate_referrer_disclosure(state, obs)
  ELSE adjudicate(state, obs)

(* _adjudicate_check: guards first, then a foreign contact, then the check. *)
adjudicate_check(check, state, obs, open) ==
  LET validity == settle_validity(check, state, open)
  IN  IF validity # "sound" THEN Inconclusive(validity)
      ELSE IF Foreign(state, obs) # {} THEN AdapterError
      ELSE Route(check, state, obs, open)
=============================================================================
