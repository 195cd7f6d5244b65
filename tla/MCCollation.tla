----------------------------- MODULE MCCollation -----------------------------
(* Small hierarchies for TLC.  Unlisted levels are absent: the topmost unit *)
(* has no officer above it, as in a campaign that ends at that level.       *)
EXTENDS CollationProperties, TLC

CONSTANTS p1, p2, w1, w2, l1, s1, f1, f2

(* One ward of two polling units. *)
OneWardUnits == {p1, p2, w1, l1}
OneWardLevels == (p1 :> "POLLING_UNIT") @@ (p2 :> "POLLING_UNIT")
                 @@ (w1 :> "WARD") @@ (l1 :> "LGA")
OneWardParent == (p1 :> w1) @@ (p2 :> w1) @@ (w1 :> l1)

(* Two wards of one polling unit each, under an LGA and a state. *)
TwoWardsUnits == {p1, p2, w1, w2, l1, s1}
TwoWardsLevels == (p1 :> "POLLING_UNIT") @@ (p2 :> "POLLING_UNIT")
                  @@ (w1 :> "WARD") @@ (w2 :> "WARD")
                  @@ (l1 :> "LGA") @@ (s1 :> "STATE")
TwoWardsParent == (p1 :> w1) @@ (p2 :> w2) @@ (w1 :> l1) @@ (w2 :> l1) @@ (l1 :> s1)
=============================================================================
