--------------------------- MODULE CollationScreens ---------------------------
(***************************************************************************)
(* What the officers' screens show of the result rows, and what they offer *)
(* to do: the listings of CollationService (collation.service.ts 277-704,  *)
(* 1582-1674, 1764-1782).  They change nothing.  Each counts in its own    *)
(* way what the handlers of Collation check in theirs.                     *)
(***************************************************************************)
EXTENDS CollationProperties, Integers, FiniteSets

(* The tables are finite. *)
ASSUME FiniteAssumption == IsFiniteSet(Unit)

(* A unit without a row is listed as not started. *)
Shown(u) == IF rows[u].status = "NONE" THEN "NOT_STARTED" ELSE rows[u].status

CountOf(S, status) == Cardinality({u \in S : Shown(u) = status})

(* countByStatus: the cards above the ward's list.  What is not started is *)
(* what remains of all polling units of the ward.                          *)
StatusCounts(w) ==
    LET pus == Children(w)
        found == [s \in Status |-> CountOf(pus, s)]
        rest == Cardinality(pus) - found["SUBMITTED"] - found["APPROVED"]
                                 - found["REJECTED"] - found["DRAFT"]
    IN  [s \in Status \union {"NOT_STARTED"} |->
            IF s \in Status THEN found[s] ELSE IF rest > 0 THEN rest ELSE 0]

(* The rows under the cards, for a choice of the status filter. *)
WardPuSubmissions(w, statusFilter) == {p \in Children(w) : Shown(p) = statusFilter}

(* listWardPuSubmissions: what the ward's officer is told about the ward. *)
WardMeta(w) ==
    LET counts == StatusCounts(w)
        totalPus == Cardinality(Children(w))
        returnedByLga == Shown(w) = "REJECTED"
    IN  [returnedByLga        |-> returnedByLga,
         canReturnApprovedPus |-> returnedByLga,
         canResubmitToLga     |-> /\ returnedByLga
                                  /\ totalPus > 0
                                  /\ counts["APPROVED"] = totalPus,
         flaggedPollingUnits  |-> rows[w].flagged \intersect Children(w)]

(* Slip: a draft is taken for a result that is on its way. *)
ReadinessDraftSubmitted(w) ==
    LET pus == Children(w)
    IN  [totalPus            |-> Cardinality(pus),
         approvedPus         |-> CountOf(pus, "APPROVED"),
         submittedPus        |-> CountOf(pus, "SUBMITTED") + CountOf(pus, "DRAFT"),
         rejectedPus         |-> CountOf(pus, "REJECTED"),
         missingPus          |-> CountOf(pus, "NOT_STARTED"),
         readyForLgaApproval |-> pus # {} /\ CountOf(pus, "APPROVED") = Cardinality(pus)]

(* getWardPuReadinessMap: what the LGA's officer is told about a ward.  A  *)
(* draft is missing.                                                       *)
Readiness(w) ==
    LET pus == Children(w)
    IN  [totalPus            |-> Cardinality(pus),
         approvedPus         |-> CountOf(pus, "APPROVED"),
         submittedPus        |-> CountOf(pus, "SUBMITTED"),
         rejectedPus         |-> CountOf(pus, "REJECTED"),
         missingPus          |-> CountOf(pus, "NOT_STARTED") + CountOf(pus, "DRAFT"),
         readyForLgaApproval |-> pus # {} /\ CountOf(pus, "APPROVED") = Cardinality(pus)]

(* listPendingApprovals, countPendingApprovals: the subordinates of u that *)
(* wait for its officer.                                                   *)
PendingApprovals(u) == {c \in Children(u) : Shown(c) = "SUBMITTED"}

(* listLgaWardPuResults: the polling units an LGA officer may look into. *)
LgaWardPuResults(w) ==
    {p \in Children(w) : Shown(p) \in {"SUBMITTED", "APPROVED", "REJECTED"}}

-----------------------------------------------------------------------------
(***************************************************************************)
(* What a screen offers is what the handler accepts, and nothing else is   *)
(* accepted: the ward's resubmission and the return of flagged units, the  *)
(* LGA's approval of one ward and of all, the ward's approval of a unit,   *)
(* and the return of an approved unit.  The screen counts rows by status   *)
(* (countByStatus 421-437, canResubmitToLga 523-548); the handler asks     *)
(* anew, through the readiness of the ward or of its own reading           *)
(* (1251-1321, 738-771, 1067-1078, 1145-1158).                             *)
(***************************************************************************)
OffersAreAccepted ==
    /\ \A w \in Wards :
          LET meta == WardMeta(w)
              decidable == PendingApprovals(w)
              returnable == {p \in Children(w) : meta.canReturnApprovedPus /\ Shown(p) = "APPROVED"}
          IN  /\ meta.canResubmitToLga <=> ENABLED ResubmitWardToLga(w)
              /\ (meta.returnedByLga /\ meta.flaggedPollingUnits # {})
                    <=> ENABLED ReturnLgaFlaggedPus(w)
              /\ \A p \in Children(w) :
                    /\ p \in decidable <=> ENABLED ApproveResult(p)
                    /\ p \in decidable \union returnable <=> ENABLED RejectResult(p, {})
    /\ \A l \in Lgas :
          LET ready == {w \in PendingApprovals(l) : Readiness(w).readyForLgaApproval}
          IN  /\ \A w \in Children(l) : w \in ready <=> ENABLED ApproveResult(w)
              /\ (ready # {} /\ ready = PendingApprovals(l))
                    <=> ENABLED ApproveAllLgaWardResults(l)

(***************************************************************************)
(* Nobody waits for somebody who is not asked: while a ward is not         *)
(* approved, one of its agents has a result to type or to submit, or its   *)
(* officer one to decide, or its officer is offered the resubmission, or   *)
(* the LGA officer finds it ready.  A ward whose last unit was approved    *)
(* would otherwise wait on a screen nobody has (rollupToParent 1852-1938). *)
(***************************************************************************)
SomebodyIsAsked ==
    \A w \in Wards : Children(w) # {} /\ Shown(w) # "APPROVED" =>
        \/ \E p \in Children(w) : Shown(p) \in {"NOT_STARTED", "DRAFT", "REJECTED"}
        \/ PendingApprovals(w) # {}
        \/ WardMeta(w).canResubmitToLga
        \/ w \in PendingApprovals(Parent[w]) /\ Readiness(w).readyForLgaApproval

(* What SomebodyIsAsked rests on: a ward with an approved unit is with the *)
(* LGA, approved by it, or returned.                                       *)
WardForwarded ==
    \A w \in Wards : ApprovedChildren(rows, w) # {} =>
        rows[w].status \in {"SUBMITTED", "APPROVED", "REJECTED"}
=============================================================================
