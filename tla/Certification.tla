---------------------------- MODULE Certification ----------------------------
(***************************************************************************)
(* What the collation chain promises, without its workflow: the figures of *)
(* a ward are certified once, all together, for every polling unit of the  *)
(* ward, and an LGA publishes exactly the figures of its certified wards.  *)
(* A certified figure is never withdrawn and never replaced.               *)
(***************************************************************************)
CONSTANTS
    PollingUnits,   \* the polling units
    Wards,          \* the wards
    Lgas,           \* the local government areas
    WardOf,         \* the ward of a polling unit, in [PollingUnits -> Wards]
    LgaOf,          \* the LGA of a ward, in [Wards -> Lgas]
    Figures         \* the figures a polling unit may report

VARIABLES
    certified,      \* per ward, its certified <<polling unit, figure>> pairs
    published       \* per LGA, the pairs its result counts

vars == <<certified, published>>

UnitsOf(w) == {p \in PollingUnits : WardOf[p] = w}

(* One figure for each of the units, and nothing else. *)
Complete(tally, units) ==
    \E f \in [units -> Figures] : tally = {<<p, f[p]>> : p \in units}

Init ==
    /\ certified = [w \in Wards |-> {}]
    /\ published = [l \in Lgas |-> {}]

(* LGA l certifies the wards W, none of which it has certified before. *)
Certify(l, W) ==
    /\ W # {}
    /\ \A w \in W : /\ LgaOf[w] = l
                    /\ UnitsOf(w) # {}
                    /\ certified[w] = {}
    /\ certified' \in [Wards -> SUBSET (PollingUnits \X Figures)]
    /\ \A w \in W : Complete(certified'[w], UnitsOf(w))
    /\ \A w \in Wards \ W : certified'[w] = certified[w]
    /\ published' = [published EXCEPT
                        ![l] = @ \union UNION {certified'[w] : w \in W}]

Next == \E l \in Lgas, W \in SUBSET Wards : Certify(l, W)

Spec == Init /\ [][Next]_vars
=============================================================================
