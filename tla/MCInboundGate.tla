---------------------------- MODULE MCInboundGate ----------------------------
(* One person's messages: 1 and 2 on one channel, 3, if there, on another. *)
EXTENDS InboundGate, TLC

CONSTANTS whatsapp, gowa

Channels == 1 :> whatsapp @@ 2 :> whatsapp @@ 3 :> gowa

Symmetry == Permutations(Workers)
=============================================================================
