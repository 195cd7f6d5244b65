------------------------------ MODULE Collation ------------------------------
(***************************************************************************)
(* The result rows of one campaign and the handlers of CollationService    *)
(* (src/modules/collation/collation.service.ts), each as one step: what a  *)
(* handler does when no other request runs beside it.  CollationAsync      *)
(* splits the same handlers at their awaits.                               *)
(*                                                                         *)
(* A row is keyed by its administrative unit: level and scope of a row are *)
(* those of the unit, and its officer is whoever holds that scope.  A sum  *)
(* of figures is kept as the set of <<unit, figure>> pairs that were typed *)
(* and added up, so that a property can say what a total counts.           *)
(*                                                                         *)
(* A definition marked "Slip" is a faulty variant of the one after it: no  *)
(* action uses it.  Put in its place, it breaks one of the properties.     *)
(***************************************************************************)
CONSTANTS
    Unit,       \* polling units, wards, LGAs, states, and the nation
    LevelOf,    \* the collation level of a unit
    Parent,     \* the unit a unit reports to (none for the topmost)
    Figures     \* the figures an officer may type for a unit

(* CollationLevel and CollationResultStatus. *)
Level == {"POLLING_UNIT", "WARD", "LGA", "STATE", "NATIONAL"}
Status == {"DRAFT", "SUBMITTED", "APPROVED", "REJECTED"}
EditableStatuses == {"DRAFT", "REJECTED"}

(* getParentLevel: despite its name, the level below in the hierarchy. *)
SubordinateLevel ==
    [l \in Level \ {"POLLING_UNIT"} |->
        CASE l = "WARD"     -> "POLLING_UNIT"
          [] l = "LGA"      -> "WARD"
          [] l = "STATE"    -> "LGA"
          [] l = "NATIONAL" -> "STATE"]

(***************************************************************************)
(* The hierarchy is a forest whose edges join a level to the one below it. *)
(* Every polling unit has a ward and every ward an LGA; above that, a unit *)
(* may be left out where nobody holds an office.                           *)
(***************************************************************************)
ASSUME TreeAssumption ==
    /\ LevelOf \in [Unit -> Level]
    /\ {u \in Unit : LevelOf[u] \in {"POLLING_UNIT", "WARD"}} \subseteq DOMAIN Parent
    /\ DOMAIN Parent \subseteq Unit
    /\ \A u \in DOMAIN Parent :
          /\ Parent[u] \in Unit
          /\ LevelOf[Parent[u]] # "POLLING_UNIT"
          /\ LevelOf[u] = SubordinateLevel[LevelOf[Parent[u]]]
    /\ Parent = [u \in DOMAIN Parent |-> Parent[u]]

PollingUnits == {u \in Unit : LevelOf[u] = "POLLING_UNIT"}
Wards        == {u \in Unit : LevelOf[u] = "WARD"}
Lgas         == {u \in Unit : LevelOf[u] = "LGA"}

Children(p) == {u \in DOMAIN Parent : Parent[u] = p}

VARIABLES
    rows,       \* the collation_results row of each unit
    lastLog     \* the latest collation_action_logs entry about each row

vars == <<rows, lastLog>>

Tallies == SUBSET (Unit \X Figures)

(***************************************************************************)
(* A row's status, the figures it counts, whether it carries an EC8A       *)
(* photo, whether it carries a rejection reason, and the polling units the *)
(* LGA flagged on it.  A unit without a row has Absent.                    *)
(***************************************************************************)
Row == [status  : Status \union {"NONE"},
        tally   : Tallies,
        photo   : BOOLEAN,
        reason  : BOOLEAN,
        flagged : SUBSET Unit]

Absent == [status |-> "NONE", tally |-> {}, photo |-> FALSE,
           reason |-> FALSE, flagged |-> {}]

LogEntry == [from : Status \union {"NONE"}, to : Status \union {"NONE"}]
NoLog == [from |-> "NONE", to |-> "NONE"]

TypeOK ==
    /\ rows \in [Unit -> Row]
    /\ lastLog \in [Unit -> LogEntry]

Init ==
    /\ rows = [u \in Unit |-> Absent]
    /\ lastLog = [u \in Unit |-> NoLog]

-----------------------------------------------------------------------------
(* Rows as a value, rs, so that the handlers can chain their writes. *)

ApprovedChildren(rs, p) == {c \in Children(p) : rs[c].status = "APPROVED"}

(* Slip: every child's figures are added, whatever became of it. *)
AggregateEveryChild(rs, p) == UNION {rs[c].tally : c \in Children(p)}

(* The sum of the approved children's figures. *)
AggregateTally(rs, p) == UNION {rs[c].tally : c \in ApprovedChildren(rs, p)}

(* Slip: a polling unit without a row is passed over instead of counted as *)
(* missing.                                                                *)
NoPollingUnitPending(rs, w) ==
    /\ Children(w) # {}
    /\ \A p \in Children(w) : rs[p].status \in {"APPROVED", "NONE"}

(* getWardPuReadinessMap / assertAllPollingUnitsApprovedInWard. *)
AllPollingUnitsApproved(rs, w) ==
    /\ Children(w) # {}
    /\ \A p \in Children(w) : rs[p].status = "APPROVED"

(* Slip: a notification's name taken for a status. *)
RollupStatusForwarded(p) == IF LevelOf[p] = "WARD" THEN "WARD_FORWARDED" ELSE "DRAFT"

(* A ward's rollup goes to the LGA for review, an LGA's is final, and the  *)
(* two levels above get a draft, whatever the status of the parent was.    *)
RollupStatus(p) ==
    IF LevelOf[p] = "WARD" THEN "SUBMITTED"
    ELSE IF LevelOf[p] = "LGA" THEN "APPROVED" ELSE "DRAFT"

(* The upsert of p's row from its approved children: nothing without any. *)
RollupToParent(rs, p) ==
    IF ApprovedChildren(rs, p) = {} THEN rs
    ELSE [rs EXCEPT ![p].status = RollupStatus(p),
                    ![p].tally  = AggregateTally(rs, p),
                    ![p].reason = FALSE]

(* Slip: the totals are computed and not written. *)
RebuildKeepingTotals(rs, w, forceSubmit) ==
    [rs EXCEPT
        ![w].status  = IF forceSubmit THEN "SUBMITTED" ELSE "REJECTED",
        ![w].reason  = @ /\ ~forceSubmit,
        ![w].flagged = IF forceSubmit THEN {} ELSE @]

(***************************************************************************)
(* rebuildWardRollupAfterPuChange as its two callers use it: forceSubmit   *)
(* with clearRejection, or keepRejected with the reason preserved.         *)
(***************************************************************************)
RebuildWardRollup(rs, w, forceSubmit) ==
    [rs EXCEPT
        ![w].status  = IF forceSubmit THEN "SUBMITTED" ELSE "REJECTED",
        ![w].tally   = AggregateTally(rs, w),
        ![w].reason  = @ /\ ~forceSubmit,
        ![w].flagged = IF forceSubmit THEN {} ELSE @]

(* Rows S of rs get a decision; a rejection leaves its reason. *)
Decide(rs, S, status) ==
    [u \in Unit |-> IF u \in S THEN [rs[u] EXCEPT !.status = status,
                                                  !.reason = status = "REJECTED"]
                    ELSE rs[u]]

(* Slip: fromStatus is read off the row after its update. *)
WriteActionLogLate(S, to) ==
    lastLog' = [u \in Unit |-> IF u \in S THEN [from |-> rows'[u].status, to |-> to]
                               ELSE lastLog[u]]

(* writeActionLog for the rows S, whose status was the present one. *)
WriteActionLog(S, to) ==
    lastLog' = [u \in Unit |-> IF u \in S THEN [from |-> rows[u].status, to |-> to]
                               ELSE lastLog[u]]

-----------------------------------------------------------------------------
(* Slip: figures may be saved whatever the row's status. *)
UpsertResultAnytime(u, fig, photo) ==
    /\ LevelOf[u] # "WARD"
    /\ rows' = [rows EXCEPT ![u].status = "DRAFT",
                            ![u].tally  = {<<u, fig>>},
                            ![u].photo  = photo,
                            ![u].reason = FALSE]
    /\ UNCHANGED lastLog

(* The officer of u types figures; photo says whether the saved row has an *)
(* EC8A photo (the request may replace the list, or leave it as it is).    *)
UpsertResult(u, fig, photo) ==
    /\ LevelOf[u] # "WARD"
    /\ rows[u].status \in EditableStatuses \union {"NONE"}
    /\ rows' = [rows EXCEPT ![u].status = "DRAFT",
                            ![u].tally  = {<<u, fig>>},
                            ![u].photo  = photo,
                            ![u].reason = FALSE]
    /\ UNCHANGED lastLog

AttachEc8aPhoto(u) ==
    /\ rows[u].status \in EditableStatuses
    /\ rows' = [rows EXCEPT ![u].photo = TRUE]
    /\ UNCHANGED lastLog

(* Slip: the EC8A form is not asked for. *)
SubmitResultWithoutForm(u) ==
    /\ LevelOf[u] # "WARD"
    /\ rows[u].status \in EditableStatuses
    /\ rows' = [rows EXCEPT ![u].status = "SUBMITTED", ![u].reason = FALSE]
    /\ WriteActionLog({u}, "SUBMITTED")

SubmitResult(u) ==
    /\ LevelOf[u] # "WARD"
    /\ rows[u].status \in EditableStatuses
    /\ LevelOf[u] = "POLLING_UNIT" => rows[u].photo
    /\ rows' = [rows EXCEPT ![u].status = "SUBMITTED", ![u].reason = FALSE]
    /\ WriteActionLog({u}, "SUBMITTED")

(* The officer of Parent[c] approves c, and its own row is rolled up. *)
ApproveResult(c) ==
    /\ rows[c].status = "SUBMITTED"
    /\ LevelOf[c] = "WARD" => AllPollingUnitsApproved(rows, c)
    /\ LET approved == [Decide(rows, {c}, "APPROVED") EXCEPT ![c].flagged = {}]
       IN  rows' = RollupToParent(approved, Parent[c])
    /\ WriteActionLog({c}, "APPROVED")

(***************************************************************************)
(* The LGA officer of l approves every submitted ward at once.  Unlike     *)
(* ApproveResult this leaves reason and flags of the wards alone.          *)
(***************************************************************************)
ApproveAllLgaWardResults(l) ==
    LET pending == {w \in Children(l) : rows[w].status = "SUBMITTED"}
    IN  /\ pending # {}
        /\ \A w \in pending : AllPollingUnitsApproved(rows, w)
        /\ LET approved == [u \in Unit |-> IF u \in pending
                                           THEN [rows[u] EXCEPT !.status = "APPROVED"]
                                           ELSE rows[u]]
           IN  rows' = RollupToParent(approved, l)
        /\ WriteActionLog(pending, "APPROVED")

(* Slip: an approved polling unit is returned without asking for its ward. *)
ReturnableAnytime(c) ==
    \/ rows[c].status = "SUBMITTED"
    \/ rows[c].status = "APPROVED" /\ LevelOf[c] = "POLLING_UNIT"

(* A submitted result, or an approved polling unit of a returned ward. *)
Returnable(c) ==
    \/ rows[c].status = "SUBMITTED"
    \/ /\ rows[c].status = "APPROVED"
       /\ LevelOf[c] = "POLLING_UNIT"
       /\ rows[Parent[c]].status = "REJECTED"

(* The officer of Parent[c] returns c; flags are the polling units an LGA  *)
(* officer points at on a ward.                                            *)
RejectResult(c, flags) ==
    /\ Returnable(c)
    /\ flags \subseteq (IF LevelOf[c] = "WARD" THEN Children(c) ELSE {})
    /\ LET returned == Decide(rows, {c}, "REJECTED")
       IN  rows' = IF LevelOf[c] = "WARD"
                   THEN [returned EXCEPT ![c].flagged = flags]
                   ELSE IF rows[c].status = "APPROVED"
                        THEN RebuildWardRollup(returned, Parent[c], FALSE)
                        ELSE returned
    /\ WriteActionLog({c}, "REJECTED")

(* The ward officer sends a returned ward back to the LGA. *)
ResubmitWardToLga(w) ==
    /\ rows[w].status = "REJECTED"
    /\ AllPollingUnitsApproved(rows, w)
    /\ rows' = RebuildWardRollup(rows, w, TRUE)
    /\ WriteActionLog({w}, "SUBMITTED")

(* Slip: the bulk return writes no log entries. *)
ReturnFlaggedUnlogged(w) ==
    LET toReturn == {p \in rows[w].flagged : rows[p].status \in {"APPROVED", "SUBMITTED"}}
        returned == Decide(rows, toReturn, "REJECTED")
    IN  /\ rows[w].status = "REJECTED"
        /\ rows[w].flagged # {}
        /\ rows' = IF \E p \in toReturn : rows[p].status = "APPROVED"
                   THEN RebuildWardRollup(returned, w, FALSE)
                   ELSE returned
        /\ UNCHANGED lastLog

(***************************************************************************)
(* The ward officer returns the units the LGA flagged, one rejectResult    *)
(* after the other; those that were approved leave the ward's total.       *)
(***************************************************************************)
ReturnLgaFlaggedPus(w) ==
    LET toReturn == {p \in rows[w].flagged : rows[p].status \in {"APPROVED", "SUBMITTED"}}
        returned == Decide(rows, toReturn, "REJECTED")
    IN  /\ rows[w].status = "REJECTED"
        /\ rows[w].flagged # {}
        /\ rows' = IF \E p \in toReturn : rows[p].status = "APPROVED"
                   THEN RebuildWardRollup(returned, w, FALSE)
                   ELSE returned
        /\ WriteActionLog(toReturn, "REJECTED")

Next ==
    \/ \E u \in Unit :
          \/ \E fig \in Figures, photo \in BOOLEAN : UpsertResult(u, fig, photo)
          \/ AttachEc8aPhoto(u)
          \/ SubmitResult(u)
    \/ \E c \in DOMAIN Parent :
          \/ ApproveResult(c)
          \/ \E flags \in SUBSET Children(c) : RejectResult(c, flags)
    \/ \E l \in Lgas : ApproveAllLgaWardResults(l)
    \/ \E w \in Wards : ResubmitWardToLga(w) \/ ReturnLgaFlaggedPus(w)

Spec == Init /\ [][Next]_vars
=============================================================================
