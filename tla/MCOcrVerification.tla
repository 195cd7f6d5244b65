-------------------------- MODULE MCOcrVerification --------------------------
(* Two fields that must agree, as party scores and votes cast do. *)
EXTENDS OcrVerification

CONSTANTS partyVotes, votesCast

Agree(fig) == fig[partyVotes] = None \/ fig[votesCast] = None \/ fig[partyVotes] = fig[votesCast]
=============================================================================
