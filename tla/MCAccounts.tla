------------------------------ MODULE MCAccounts ------------------------------
(* One officer; the ward and the polling unit are of one LGA. *)
EXTENDS Accounts, TLC

CONSTANTS u1, w1, p1

Levels == (w1 :> "WARD") @@ (p1 :> "POLLING_UNIT")
Lgas   == (w1 :> "l1") @@ (p1 :> "l1")
===============================================================================
