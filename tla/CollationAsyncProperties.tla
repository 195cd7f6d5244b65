----------------------- MODULE CollationAsyncProperties -----------------------
(***************************************************************************)
(* What survives when the officers' requests overlap, two of one office    *)
(* included, and what does not.  ApprovedPuReopensOnlyInReturnedWard of    *)
(* CollationProperties is asked again here.                                *)
(***************************************************************************)
EXTENDS CollationAsync, CollationScreens

(***************************************************************************)
(* However the requests of any number of sessions overlap, once all have   *)
(* ended every ward that is not approved is on the screen of somebody who  *)
(* can move it.  Statuses are overwritten by requests that read others     *)
(* before, and approvals undone; still no ward is left with all its units  *)
(* approved and nobody to forward it (approveResult 1080-1126,             *)
(* rollupToParent 1852-1938, rebuildWardRollupAfterPuChange 1422-1506).    *)
(***************************************************************************)
SomebodyIsAskedAtRest == (\A r \in Client : req[r] = Idle) => SomebodyIsAsked

(***************************************************************************)
(* "Ward totals are rolled up automatically" (upsertResult's message to a  *)
(* ward officer, 869): with no request running, every approved polling     *)
(* unit is in its ward's total.  A handler cut off between the approval    *)
(* and the rollup leaves it out.                                           *)
(***************************************************************************)
ApprovedPuIsCounted ==
    (\A r \in Client : req[r] = Idle) =>
        \A p \in PollingUnits :
            rows[p].status = "APPROVED" => rows[p].tally \subseteq rows[Parent[p]].tally

(***************************************************************************)
(* "LGA rollups are final once the LGA officer has approved wards"         *)
(* (rollupToParent, 1876): an approved ward stays approved.  The ward's    *)
(* own rollup, still on its way when the LGA approves, undoes it.          *)
(***************************************************************************)
ApprovedWardStays ==
    [][\A w \in Wards :
         rows[w].status = "APPROVED" => rows'[w].status = "APPROVED"]_asyncVars
-----------------------------------------------------------------------------
(***************************************************************************)
(* What request q of the officer of u carries.  Of the rows nothing is     *)
(* taken for granted: any of them may have changed since q was sent.       *)
(***************************************************************************)

(* What is left of returnLgaFlaggedPus, or nothing. *)
Rest(u, q) ==
    \/ q = Idle
    \/ q.at = "return" /\ u \in Wards /\ q.units \subseteq Children(u) /\ q.owes = {}

(* upsertResult *)
Editing(u, q) == q.owes = {} /\ u \notin Wards /\ q.fig \in Figures /\ q.photo \in BOOLEAN

(* rollupToParent *)
Counting(u, q) ==
    /\ q.unit = u /\ q.owes = {u} /\ u \notin PollingUnits
    /\ q.at = "rollup" => q.tally \in Tallies

(* rebuildWardRollupAfterPuChange *)
Rebuilding(u, q) ==
    /\ q.unit = u /\ u \in Wards
    /\ IF q.force
       THEN q.owes = {} /\ q.next.at = "log" /\ q.next.owes = {} /\ q.next.next = Idle
       ELSE q.owes = {u} /\ Rest(u, q.next)
    /\ q.at # "existing" => q.reason \in BOOLEAN /\ q.flagged \subseteq Children(u)
    /\ q.at = "rebuild" => q.tally \in Tallies

(* approveResult, approveAllLgaWardResults *)
Approving(u, q) ==
    /\ q.owes = {}
    /\ \/ q.at = "approve" /\ q.unit \in Children(u)
       \/ q.at = "approveAll" /\ u \in Lgas /\ q.units \subseteq Children(u)

(* assertAllPollingUnitsApprovedInWard *)
Checking(u, q) ==
    /\ q.owes = {}
    /\ \/ Approving(u, q.next)
       \/ q.next.at = "existing" /\ q.next.force /\ Rebuilding(u, q.next)

(* rejectResult *)
Rejecting(u, q) ==
    /\ q.owes = {} /\ q.unit \in Children(u) /\ q.flags \subseteq Children(q.unit)
    /\ q.rest \subseteq Children(u) /\ (q.rest # {} => u \in Wards)
    /\ q.reopened => u \in Wards

Logging(u, q) ==
    \/ q.owes = {} /\ Rest(u, q.next)
    \/ q.owes = {u} /\ q.next.at = "count" /\ Counting(u, q.next)
    \/ /\ q.owes = {u} /\ q.next.at = "existing" /\ q.next.force = FALSE
       /\ Rebuilding(u, q.next)

Carries(u, q) ==
    \/ q = Idle
    \/ q.at = "upsert" /\ Editing(u, q)
    \/ q.at = "attach" /\ q.owes = {}
    \/ q.at = "submit" /\ q.owes = {} /\ u \notin Wards
    \/ q.at = "log" /\ Logging(u, q)
    \/ q.at = "ready" /\ Checking(u, q)
    \/ q.at \in {"approve", "approveAll"} /\ Approving(u, q)
    \/ q.at \in {"count", "rollup"} /\ Counting(u, q)
    \/ q.at = "ask" /\ q.owes = {} /\ q.next.at = "reject" /\ Rejecting(u, q.next)
    \/ q.at = "reject" /\ Rejecting(u, q)
    \/ q.at \in {"existing", "recount", "rebuild"} /\ Rebuilding(u, q)
    \/ q.at = "find" /\ q.owes = {} /\ u \in Wards /\ q.units \subseteq Children(u)
    \/ q.at = "return" /\ Rest(u, q)

(* The ward is with the LGA, approved by it, or returned. *)
Forwarded(rs, w) == rs[w].status \in {"SUBMITTED", "APPROVED", "REJECTED"}

(***************************************************************************)
(* The inductive invariant.  A ward with an approved unit was forwarded,   *)
(* or some request owes it the recount that forwards it; who owes one      *)
(* makes it, or finds that no unit is approved any more.                   *)
(***************************************************************************)
AsyncIInv ==
    /\ rows \in [Unit -> Row]
    /\ FlagsInWard
    /\ DOMAIN req = Client
    /\ \A r \in Client : Carries(OfficerOf[r], req[r])
    /\ \A w \in Wards : ApprovedChildren(rows, w) # {} =>
          Forwarded(rows, w) \/ \E r \in Client : w \in req[r].owes
=============================================================================
