--------------------------- MODULE MCEptEvidence ---------------------------
(***************************************************************************)
(* Every kind of contact the adjudicators tell apart for two probes, and   *)
(* every gateway state.  Reader fields and Referers are varied on the      *)
(* client's contacts, the only ones whose fields are read.                 *)
(***************************************************************************)
EXTENDS EptEvidence

Own(origins, identifies, referrers) ==
  [probe : {"own"}, vector : Vector, channel : {"http", "dns"}, origin : origins,
   identifies : identifies, referrer : referrers]

MCContact ==
  Own({"client"}, BOOLEAN, Referrers)
    \cup Own({"provider", "unknown"}, {FALSE}, {"none"})
    \cup [probe : {"other"}, vector : {"img"}, channel : {"http"}, origin : {"client"},
          identifies : {TRUE}, referrer : {"none"}]

MCGatewayState ==
  [probe : {"own"}, delivered_at : {0, Undelivered}, watchers_healthy : BOOLEAN,
   referer_captured : BOOLEAN, third_party : BOOLEAN]
=============================================================================
