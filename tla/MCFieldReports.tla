--------------------------- MODULE MCFieldReports ---------------------------
(* A ward of one officer in an LGA of one, and an agent who reports. *)
EXTENDS FieldReports, TLC

CONSTANTS agent, ward, lga, w1, l1

OneLga == (w1 :> l1)
OneOfficerEach == (w1 :> {ward} @@ l1 :> {lga})

(* Dispatches are alike. *)
Alike == Permutations(Dispatch)
=============================================================================
