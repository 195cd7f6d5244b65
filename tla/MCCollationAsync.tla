--------------------------- MODULE MCCollationAsync ---------------------------
(* One ward of two polling units; its office has two sessions. *)
EXTENDS MCCollation, CollationAsyncProperties

CONSTANTS a1, a2, b1, b2, c1

(* Two agents, their ward officer and their LGA officer. *)
Officers == (a1 :> p1) @@ (a2 :> p2) @@ (b1 :> w1) @@ (c1 :> l1)
Clients == DOMAIN Officers

(* The ward's officer on two devices, or two officers of the ward. *)
MoreOfficers == Officers @@ (b2 :> w1)
MoreClients == DOMAIN MoreOfficers
=============================================================================
