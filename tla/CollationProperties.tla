------------------------- MODULE CollationProperties -------------------------
(***************************************************************************)
(* What the collation handlers keep true of the rows when each runs alone, *)
(* and the abstract promise they implement.                                *)
(***************************************************************************)
EXTENDS Collation

(***************************************************************************)
(* A ward is approved only while every polling unit in it is: what         *)
(* assertAllPollingUnitsApprovedInWard is there for (collation.service.ts  *)
(* 1077, 766), kept although it is checked at one moment and polling units *)
(* may be returned, typed again and approved at others.                    *)
(***************************************************************************)
WardApprovedComplete ==
    \A w \in Wards : rows[w].status = "APPROVED" => AllPollingUnitsApproved(rows, w)

(***************************************************************************)
(* A ward's total counts its approved polling units, each with its present *)
(* figures, and nothing else, at every moment: rollupToParent and          *)
(* rebuildWardRollupAfterPuChange are called whenever that changes.        *)
(***************************************************************************)
WardTallyFaithful ==
    \A w \in Wards : rows[w].tally = AggregateTally(rows, w)

(***************************************************************************)
(* Once the LGA officer has approved a ward, the LGA's row is approved and *)
(* its total is that of its approved wards: figures typed at the LGA, a    *)
(* return by the state or a later ward never leave it out of step.         *)
(***************************************************************************)
LgaCountsApprovedWards ==
    \A l \in Lgas : ApprovedChildren(rows, l) # {} =>
        /\ rows[l].status = "APPROVED"
        /\ rows[l].tally = AggregateTally(rows, l)

(* A polling unit's submitted or approved result has an EC8A photo, however *)
(* often it was returned, typed again and resubmitted (submitResult 996).   *)
SubmittedHasEc8a ==
    \A p \in PollingUnits :
        rows[p].status \in {"SUBMITTED", "APPROVED"} => rows[p].photo

(***************************************************************************)
(* A row shows a reason for its return exactly while it is returned:       *)
(* every path out of REJECTED clears it, the bulk approval included, which *)
(* does not touch the column (771-780).                                    *)
(***************************************************************************)
ReasonExactlyWhileReturned ==
    \A u \in Unit : rows[u].reason <=> rows[u].status = "REJECTED"

(***************************************************************************)
(* The audit trail accounts for the rows: the latest entry about a polling *)
(* unit ends in its status (a draft only follows a return), and so does    *)
(* that of a ward an LGA officer approved or returned.                     *)
(***************************************************************************)
AuditTrailAccounts ==
    /\ \A p \in PollingUnits :
          IF rows[p].status = "DRAFT" THEN lastLog[p].to \in {"NONE", "REJECTED"}
          ELSE lastLog[p].to = rows[p].status
    /\ \A w \in Wards :
          rows[w].status \in {"APPROVED", "REJECTED"} => lastLog[w].to = rows[w].status

(***************************************************************************)
(* The audit trail of a polling unit is one story: every entry starts      *)
(* where the one before it ended, but for a draft typed in between.        *)
(***************************************************************************)
AuditTrailContinuous ==
    [][\A p \in PollingUnits :
         lastLog'[p] # lastLog[p] =>
            \/ lastLog'[p].from = lastLog[p].to
            \/ lastLog'[p].from = "DRAFT" /\ lastLog[p].to \in {"NONE", "REJECTED"}]_vars

(***************************************************************************)
(* An approved polling unit only changes by being returned, and only while *)
(* its ward is and stays returned by the LGA (rejectResult 1145-1158).     *)
(***************************************************************************)
ApprovedPuReopensOnlyInReturnedWard ==
    [][\A p \in PollingUnits :
         rows[p].status = "APPROVED" /\ rows'[p] # rows[p] =>
            /\ rows'[p].status = "REJECTED"
            /\ rows'[p].tally = rows[p].tally
            /\ rows[Parent[p]].status = "REJECTED"
            /\ rows'[Parent[p]].status = "REJECTED"]_vars

-----------------------------------------------------------------------------
(* The flags on a row are polling units of that ward. *)
FlagsInWard == \A u \in Unit : rows[u].flagged \subseteq Children(u)

(* A polling unit's row counts one figure, its own; an absent one nothing. *)
PuTallyOwn ==
    \A p \in PollingUnits :
        \/ rows[p].status = "NONE" /\ rows[p].tally = {}
        \/ rows[p].status # "NONE" /\ \E f \in Figures : rows[p].tally = {<<p, f>>}

(***************************************************************************)
(* The inductive invariant of the proofs.  A rollup overwrites whatever    *)
(* the parent's status was; that this never undoes an approved ward needs  *)
(* the polling units of an approved ward to be approved, and that they     *)
(* stay so needs the ward not to be returned.  Neither holds by itself.    *)
(***************************************************************************)
IInv ==
    /\ TypeOK
    /\ FlagsInWard
    /\ PuTallyOwn
    /\ WardApprovedComplete
    /\ WardTallyFaithful
    /\ LgaCountsApprovedWards

-----------------------------------------------------------------------------
(***************************************************************************)
(* What is certified in a state: the total of an approved ward; what is    *)
(* published: the total of an LGA with an approved ward.                   *)
(***************************************************************************)
certified ==
    [w \in Wards |-> IF rows[w].status = "APPROVED" THEN rows[w].tally ELSE {}]
published ==
    [l \in Lgas |-> IF ApprovedChildren(rows, l) # {} THEN rows[l].tally ELSE {}]

Cert == INSTANCE Certification WITH
            WardOf <- [p \in PollingUnits |-> Parent[p]],
            LgaOf <- [w \in Wards |-> Parent[w]]

(***************************************************************************)
(* The handlers implement the promise: a ward's figures are certified      *)
(* once, complete, and for good, and the LGA publishes what is certified.  *)
(***************************************************************************)
CertifiesOnceAndForGood == Cert!Spec

-----------------------------------------------------------------------------
(***************************************************************************)
(* A ward the LGA returned goes back to the LGA with every polling unit    *)
(* approved, which collation.controller.ts 291 requires of the resubmit    *)
(* and 1239 relies on ("do not re-forward").  The rollup after a single    *)
(* approval re-forwards it too.                                            *)
(***************************************************************************)
ReforwardedOnlyComplete ==
    [][\A w \in Wards :
         rows[w].status = "REJECTED" /\ rows'[w].status = "SUBMITTED" =>
            AllPollingUnitsApproved(rows', w)]_vars
=============================================================================
