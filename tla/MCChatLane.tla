----------------------------- MODULE MCChatLane -----------------------------
(***************************************************************************)
(* Two checks on one phone, in the orders that can disturb each other, and *)
(* the setups a check refuses.                                             *)
(***************************************************************************)
EXTENDS ChatLane

Ready(checks) ==
  [checks |-> checks, session |-> TRUE, number |-> "valid", privacy |-> "content",
   package |-> TRUE]

Mixed == <<"link-preview-fetch", "notification-preview">>

MCSetup ==
  {Ready(Mixed), Ready(<<"notification-preview", "notification-preview">>),
   Ready(<<"notification-preview", "reader-identification">>),
   [Ready(Mixed) EXCEPT !.session = FALSE],
   [Ready(Mixed) EXCEPT !.number = "missing"],
   [Ready(Mixed) EXCEPT !.number = "malformed"],
   [Ready(Mixed) EXCEPT !.privacy = "unknown"],
   [Ready(Mixed) EXCEPT !.package = FALSE]}

Seen(channel, origin, identifies) ==
  [channel |-> channel, origin |-> origin, identifies |-> identifies]

MCContact == {Seen("http", "client", TRUE), Seen("dns", "client", FALSE),
              Seen("http", "provider", FALSE)}
=============================================================================
