------------------------- MODULE EptEvidenceProofs -------------------------
(***************************************************************************)
(* What the adjudicators of ept.py guarantee for every set of contacts,    *)
(* every gateway state and every choice of vectors.                        *)
(***************************************************************************)
EXTENDS EptEvidence, TLAPS

(***************************************************************************)
(* Only a sound measurement with no contact of another probe reaches the   *)
(* adjudicator of its check.                                               *)
(***************************************************************************)
LEMMA AdjudicatedOnlyWhenSound ==
  ASSUME NEW c \in Checks, NEW s, NEW obs, NEW o,
         adjudicate_check(c, s, obs, o).status \notin {"inconclusive", "error"}
  PROVE  /\ settle_validity(c, s, o) = "sound"
         /\ Foreign(s, obs) = {}
         /\ adjudicate_check(c, s, obs, o) = Route(c, s, obs, o)
  BY DEF adjudicate_check, AdapterError, Inconclusive, Verdict

(* The guards a sound measurement has passed. *)
LEMMA SoundGuards ==
  ASSUME NEW c, NEW s, NEW o, settle_validity(c, s, o) = "sound"
  PROVE  /\ s.delivered_at # Undelivered
         /\ s.watchers_healthy
         /\ o \/ c = "background-fetch"
         /\ c = "referrer-disclosure" => s.referer_captured
  BY DEF settle_validity

(***************************************************************************)
(* Type correctness: the evidence of a run is made of the gateway's        *)
(* contacts.                                                               *)
(***************************************************************************)
THEOREM TypeCorrect == Spec => []TypeOK
<1>1. Init => TypeOK
  BY DEF Init, TypeOK
<1>2. TypeOK /\ [Next]_vars => TypeOK'
  BY DEF TypeOK, Next, Arrive, vars
<1>. QED  BY <1>1, <1>2, PTL DEF Spec

(***************************************************************************)
(* Every claim about the client comes from a sound measurement.            *)
(***************************************************************************)
THEOREM ScoresAreSound == Spec => []ScoredOnlyWhenSound
<1>1. TypeOK => ScoredOnlyWhenSound
  <2>. SUFFICES ASSUME TypeOK,
                       Result(check, observations).status \in {"pass", "fail", "partial"}
                PROVE  /\ state.delivered_at # Undelivered
                       /\ state.watchers_healthy
                       /\ open \/ check = "background-fetch"
                       /\ check = "referrer-disclosure" => state.referer_captured
                       /\ \A o \in observations : o.probe = state.probe
    BY DEF ScoredOnlyWhenSound
  <2>1. /\ settle_validity(check, state, open) = "sound"
        /\ Foreign(state, observations) = {}
    BY AdjudicatedOnlyWhenSound DEF Result, TypeOK
  <2>2. \A o \in observations : o.probe = state.probe
    BY <2>1 DEF Foreign
  <2>. QED  BY <2>1, <2>2, SoundGuards
<1>. QED  BY <1>1, TypeCorrect, PTL

-----------------------------------------------------------------------------
(* Only a client's contact can make a check fail, so taking the others away *)
(* changes no failure. *)
LEMMA ClientOfClient ==
  ASSUME NEW obs
  PROVE  Client(Client(obs)) = Client(obs)
  BY DEF Client

LEMMA RouteFailsOnClient ==
  ASSUME NEW c \in Checks, NEW s, NEW obs, NEW o
  PROVE  (Route(c, s, obs, o).status = "fail") <=> (Route(c, s, Client(obs), o).status = "fail")
<1>. USE ClientOfClient DEF Route, Fail, Pass, Partial, Inconclusive, Verdict, Unsettled,
                            ProviderOrUnsettled
<1>1. CASE c = "remote-content"
  BY <1>1 DEF adjudicate
<1>2. CASE c = "dns-prefetch"
  BY <1>2 DEF adjudicate_dns_prefetch
<1>3. CASE c = "reader-identification"
  BY <1>3 DEF adjudicate_reader_identification
<1>4. CASE c = "mime-remote-part"
  BY <1>4 DEF adjudicate_mime_remote_part
<1>5. CASE c = "list-unsubscribe-fetch"
  BY <1>5 DEF adjudicate_list_unsubscribe_fetch
<1>6. CASE c = "background-fetch"
  BY <1>6 DEF adjudicate_background_fetch
<1>7. CASE c = "referrer-disclosure"
  BY <1>7 DEF adjudicate_referrer_disclosure
<1>. QED  BY <1>1, <1>2, <1>3, <1>4, <1>5, <1>6, <1>7 DEF Checks

(***************************************************************************)
(* On its own probe's evidence a check fails exactly when it fails on the  *)
(* client's part of it.                                                    *)
(***************************************************************************)
THEOREM OnlyClientsAreBlamed == Spec => []OnlyClientsDisclose
<1>1. TypeOK => OnlyClientsDisclose
  <2>. SUFFICES ASSUME TypeOK, \A o \in observations : o.probe = state.probe
                PROVE  (Result(check, observations).status = "fail")
                         <=> (Result(check, Client(observations)).status = "fail")
    BY DEF OnlyClientsDisclose
  <2>1. Foreign(state, observations) = {} /\ Foreign(state, Client(observations)) = {}
    BY DEF Foreign, Client
  <2>2. CASE settle_validity(check, state, open) # "sound"
    BY <2>2 DEF Result, adjudicate_check
  <2>3. CASE settle_validity(check, state, open) = "sound"
    BY <2>1, <2>3, RouteFailsOnClient DEF Result, adjudicate_check, TypeOK
  <2>. QED  BY <2>2, <2>3
<1>. QED  BY <1>1, TypeCorrect, PTL

-----------------------------------------------------------------------------
(* A failure survives more evidence. *)
LEMMA FailureGrows ==
  ASSUME NEW c \in Checks, NEW s, NEW obs, NEW more, NEW o, obs \subseteq more,
         Route(c, s, obs, o).status = "fail"
  PROVE  Route(c, s, more, o).status = "fail"
<1>. USE DEF Route, Fail, Pass, Partial, Inconclusive, Verdict, Unsettled,
             ProviderOrUnsettled
<1>0. Client(obs) \subseteq Client(more)
  BY DEF Client
<1>1. CASE c = "remote-content"
  BY <1>0, <1>1 DEF adjudicate
<1>2. CASE c = "dns-prefetch"
  BY <1>0, <1>2 DEF adjudicate_dns_prefetch
<1>3. CASE c = "reader-identification"
  BY <1>0, <1>3 DEF adjudicate_reader_identification
<1>4. CASE c = "mime-remote-part"
  BY <1>0, <1>4 DEF adjudicate_mime_remote_part
<1>5. CASE c = "list-unsubscribe-fetch"
  BY <1>0, <1>5 DEF adjudicate_list_unsubscribe_fetch
<1>6. CASE c = "background-fetch"
  BY <1>0, <1>6 DEF adjudicate_background_fetch
<1>7. CASE c = "referrer-disclosure"
  BY <1>0, <1>7 DEF adjudicate_referrer_disclosure
<1>. QED  BY <1>1, <1>2, <1>3, <1>4, <1>5, <1>6, <1>7 DEF Checks

(***************************************************************************)
(* No later contact retracts a disclosure, except another probe's, which   *)
(* is an error.                                                            *)
(***************************************************************************)
THEOREM DisclosuresStand == Spec => DisclosureStands
<1>. DEFINE Stands ==
       Result(check, observations).status = "fail" =>
         \/ Result(check, observations').status = "fail"
         \/ /\ Result(check, observations').status = "error"
            /\ Foreign(state, observations') # {}
<1>1. TypeOK /\ [Next]_vars => [Stands]_vars
  <2>. SUFFICES ASSUME TypeOK, NEW o \in Contact, Arrive(o),
                       Result(check, observations).status = "fail"
                PROVE  \/ Result(check, observations').status = "fail"
                       \/ /\ Result(check, observations').status = "error"
                          /\ Foreign(state, observations') # {}
    BY DEF Next, vars
  <2>1. check' = check /\ state' = state /\ open' = open
    BY DEF Arrive
  <2>2. observations \subseteq observations'
    BY DEF Arrive
  <2>3. /\ settle_validity(check, state, open) = "sound"
        /\ Route(check, state, observations, open).status = "fail"
    BY AdjudicatedOnlyWhenSound DEF Result, TypeOK
  <2>4. CASE Foreign(state, observations') # {}
    BY <2>1, <2>3, <2>4 DEF Result, adjudicate_check, AdapterError, Verdict
  <2>5. CASE Foreign(state, observations') = {}
    BY <2>1, <2>2, <2>3, <2>5, FailureGrows DEF Result, adjudicate_check, TypeOK
  <2>. QED  BY <2>4, <2>5
<1>. QED  BY <1>1, TypeCorrect, PTL DEF Spec, DisclosureStands

-----------------------------------------------------------------------------
(***************************************************************************)
(* A clean remote-content result means there is no evidence at all, and    *)
(* without evidence no check discloses.                                    *)
(***************************************************************************)
THEOREM SuiteAgrees == Spec => []CleanRunAgrees
<1>1. TypeOK => CleanRunAgrees
  <2>. SUFFICES ASSUME TypeOK, Result("remote-content", observations).status = "pass",
                       Result(check, observations).status = "fail"
                PROVE  FALSE
    BY DEF CleanRunAgrees
  <2>1. adjudicate(state, observations).status = "pass"
    BY AdjudicatedOnlyWhenSound DEF Result, Route, Checks
  <2>2. observations = {}
    BY <2>1 DEF adjudicate, ProviderOrUnsettled, Unsettled, Fail, Pass, Inconclusive, Verdict
  <2>3. Route(check, state, observations, open).status = "fail"
    BY AdjudicatedOnlyWhenSound DEF Result, TypeOK
  <2>4. Client(observations) = {}
    BY <2>2 DEF Client
  <2>. QED
    BY <2>2, <2>3, <2>4 DEF TypeOK, Checks, Route, Fail, Pass, Partial, Inconclusive, Verdict,
       Unsettled, ProviderOrUnsettled, adjudicate, adjudicate_dns_prefetch,
       adjudicate_reader_identification, adjudicate_mime_remote_part,
       adjudicate_list_unsubscribe_fetch, adjudicate_background_fetch,
       adjudicate_referrer_disclosure
<1>. QED  BY <1>1, TypeCorrect, PTL
=============================================================================
