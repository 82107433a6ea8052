------------------------------ MODULE MCMembers ------------------------------
(* A person on both channels: Meta's messages carry the user id, with the     *)
(* number or without it, the gateway's the number.                            *)
EXTENDS Members, TLC

Senders == 1 :> {"uid", "tel"} @@ 2 :> {"tel"} @@ 3 :> {"uid"}
=============================================================================
