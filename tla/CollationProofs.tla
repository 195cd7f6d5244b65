--------------------------- MODULE CollationProofs ---------------------------
(***************************************************************************)
(* Theorems about the collation handlers, for every hierarchy and every    *)
(* set of figures.                                                         *)
(***************************************************************************)
EXTENDS CollationScreens, FiniteSetTheorems, TLAPS

-----------------------------------------------------------------------------
(* The hierarchy: what the levels of a unit and of its parent are. *)
LEMMA Tree ==
    /\ \A w \in Wards : \A p \in Children(w) :
          p \in PollingUnits /\ p \in Unit /\ Parent[p] = w
    /\ \A l \in Lgas : \A w \in Children(l) : w \in Wards /\ w \in Unit /\ Parent[w] = l
    /\ \A p \in PollingUnits : p \in DOMAIN Parent /\ Parent[p] \in Wards
    /\ \A w \in Wards : w \in DOMAIN Parent /\ Parent[w] \in Lgas
    /\ \A c \in DOMAIN Parent :
          /\ c \in Unit /\ Parent[c] \in Unit /\ Parent[c] # c
          /\ c \in Children(Parent[c])
          /\ Parent[c] \notin PollingUnits
          /\ Parent[c] \in Wards <=> c \in PollingUnits
          /\ Parent[c] \in Lgas <=> c \in Wards
<1>1. /\ SubordinateLevel["WARD"] = "POLLING_UNIT"
      /\ SubordinateLevel["LGA"] = "WARD"
      /\ SubordinateLevel["STATE"] = "LGA"
      /\ SubordinateLevel["NATIONAL"] = "STATE"
  BY DEF SubordinateLevel, Level
<1>2. ASSUME NEW c \in DOMAIN Parent
      PROVE  /\ c \in Unit /\ Parent[c] \in Unit
             /\ LevelOf[Parent[c]] \in {"WARD", "LGA", "STATE", "NATIONAL"}
             /\ LevelOf[c] = SubordinateLevel[LevelOf[Parent[c]]]
  BY TreeAssumption DEF Level
<1>3. \A u \in Unit : LevelOf[u] \in {"POLLING_UNIT", "WARD"} => u \in DOMAIN Parent
  BY TreeAssumption
<1>4. \A c \in DOMAIN Parent :
          /\ c \in Unit /\ Parent[c] \in Unit /\ Parent[c] # c
          /\ c \in Children(Parent[c])
          /\ Parent[c] \notin PollingUnits
          /\ Parent[c] \in Wards <=> c \in PollingUnits
          /\ Parent[c] \in Lgas <=> c \in Wards
  BY <1>1, <1>2 DEF Children, PollingUnits, Wards, Lgas
<1>5. /\ \A p \in PollingUnits : p \in DOMAIN Parent /\ Parent[p] \in Wards
      /\ \A w \in Wards : w \in DOMAIN Parent /\ Parent[w] \in Lgas
  BY <1>3, <1>4 DEF PollingUnits, Wards
<1>6. QED BY <1>4, <1>5 DEF Children

LEMMA UnitClasses ==
    /\ PollingUnits \subseteq Unit /\ Wards \subseteq Unit /\ Lgas \subseteq Unit
    /\ PollingUnits \cap Wards = {} /\ PollingUnits \cap Lgas = {} /\ Wards \cap Lgas = {}
BY DEF PollingUnits, Wards, Lgas

(* A total is made of the figures of units. *)
LEMMA AggregateType ==
    ASSUME NEW rs \in [Unit -> Row], NEW p \in Unit
    PROVE  /\ AggregateTally(rs, p) \in Tallies
           /\ ApprovedChildren(rs, p) \subseteq Children(p)
<1>1. ApprovedChildren(rs, p) \subseteq Children(p) /\ Children(p) \subseteq Unit
  BY Tree DEF ApprovedChildren, Children
<1>2. \A c \in ApprovedChildren(rs, p) : rs[c].tally \in Tallies
  BY <1>1 DEF Row
<1>3. QED BY <1>1, <1>2 DEF AggregateTally, Tallies


(* A row stays a row under the updates the handlers make. *)
LEMMA RowRollup ==
    ASSUME NEW r \in Row, NEW st \in Status, NEW t \in Tallies, NEW b \in BOOLEAN
    PROVE  [r EXCEPT !.status = st, !.tally = t, !.reason = b] \in Row
BY DEF Row

LEMMA RowRebuild ==
    ASSUME NEW r \in Row, NEW st \in Status, NEW t \in Tallies, NEW b \in BOOLEAN,
           NEW f \in SUBSET Unit
    PROVE  [r EXCEPT !.status = st, !.tally = t, !.reason = b, !.flagged = f] \in Row
BY DEF Row

LEMMA RowTyped ==
    ASSUME NEW r \in Row, NEW st \in Status, NEW t \in Tallies, NEW ph \in BOOLEAN,
           NEW b \in BOOLEAN
    PROVE  [r EXCEPT !.status = st, !.tally = t, !.photo = ph, !.reason = b] \in Row
BY DEF Row

LEMMA RowStatus ==
    ASSUME NEW r \in Row, NEW st \in Status
    PROVE  [r EXCEPT !.status = st] \in Row
BY DEF Row

LEMMA RowDecided ==
    ASSUME NEW r \in Row, NEW st \in Status, NEW b \in BOOLEAN
    PROVE  [r EXCEPT !.status = st, !.reason = b] \in Row
BY DEF Row

LEMMA RowFlagged ==
    ASSUME NEW r \in Row, NEW f \in SUBSET Unit
    PROVE  [r EXCEPT !.flagged = f] \in Row
BY DEF Row

(* RollupToParent touches p's row only, and there status, total and reason. *)
LEMMA RollupEffect ==
    ASSUME NEW rs \in [Unit -> Row], NEW p \in Unit
    PROVE  LET R == RollupToParent(rs, p) IN
           /\ R \in [Unit -> Row]
           /\ \A u \in Unit : u # p => R[u] = rs[u]
           /\ ApprovedChildren(rs, p) = {} => R = rs
           /\ R[p].photo = rs[p].photo /\ R[p].flagged = rs[p].flagged
           /\ ApprovedChildren(rs, p) # {} =>
                /\ R[p].status = RollupStatus(p)
                /\ R[p].tally = AggregateTally(rs, p)
                /\ R[p].reason = FALSE
<1> DEFINE R == RollupToParent(rs, p)
<1>1. RollupStatus(p) \in Status
  BY DEF RollupStatus, Status
<1>2. CASE ApprovedChildren(rs, p) = {}
  BY <1>2 DEF RollupToParent
<1>3. CASE ApprovedChildren(rs, p) # {}
  <2>1. R = [rs EXCEPT ![p] = [rs[p] EXCEPT !.status = RollupStatus(p),
                                            !.tally = AggregateTally(rs, p),
                                            !.reason = FALSE]]
    BY <1>3 DEF RollupToParent, Row
  <2>2. [rs[p] EXCEPT !.status = RollupStatus(p), !.tally = AggregateTally(rs, p),
                      !.reason = FALSE] \in Row
    <3>1. rs[p] \in Row /\ AggregateTally(rs, p) \in Tallies
      BY AggregateType
    <3>2. QED BY <1>1, <3>1, RowRollup
  <2>3. QED BY <2>1, <2>2, <1>3 DEF Row
<1>4. QED BY <1>2, <1>3

(* RebuildWardRollup touches w's row only, and keeps its photo: sent to   *)
(* the LGA without reason and flags, or kept as it was returned.           *)
LEMMA ForceSubmitEffect ==
    ASSUME NEW rs \in [Unit -> Row], NEW w \in Unit
    PROVE  LET R == RebuildWardRollup(rs, w, TRUE) IN
           /\ R \in [Unit -> Row]
           /\ \A u \in Unit : u # w => R[u] = rs[u]
           /\ R[w].status = "SUBMITTED" /\ R[w].tally = AggregateTally(rs, w)
           /\ R[w].reason = FALSE /\ R[w].flagged = {} /\ R[w].photo = rs[w].photo
<1> DEFINE row == [rs[w] EXCEPT !.status = "SUBMITTED", !.tally = AggregateTally(rs, w),
                                !.reason = FALSE, !.flagged = {}]
<1>1. rs[w] \in Row /\ AggregateTally(rs, w) \in Tallies /\ "SUBMITTED" \in Status
  BY AggregateType DEF Status
<1>2. RebuildWardRollup(rs, w, TRUE) = [rs EXCEPT ![w] = row]
  BY <1>1 DEF RebuildWardRollup, Row
<1>3. row \in Row
  BY <1>1, RowRebuild
<1>4. /\ row.status = "SUBMITTED" /\ row.tally = AggregateTally(rs, w)
      /\ row.reason = FALSE /\ row.flagged = {} /\ row.photo = rs[w].photo
  BY <1>1 DEF Row
<1> HIDE DEF row
<1>5. QED BY <1>2, <1>3, <1>4

LEMMA KeepRejectedEffect ==
    ASSUME NEW rs \in [Unit -> Row], NEW w \in Unit
    PROVE  LET R == RebuildWardRollup(rs, w, FALSE) IN
           /\ R \in [Unit -> Row]
           /\ \A u \in Unit : u # w => R[u] = rs[u]
           /\ R[w].status = "REJECTED" /\ R[w].tally = AggregateTally(rs, w)
           /\ R[w].reason = rs[w].reason /\ R[w].flagged = rs[w].flagged
           /\ R[w].photo = rs[w].photo
<1> DEFINE row == [rs[w] EXCEPT !.status = "REJECTED", !.tally = AggregateTally(rs, w)]
<1>1. rs[w] \in Row /\ AggregateTally(rs, w) \in Tallies /\ "REJECTED" \in Status
  BY AggregateType DEF Status
<1>2. RebuildWardRollup(rs, w, FALSE) = [rs EXCEPT ![w] = row]
  <2>1. (rs[w].reason /\ ~FALSE) = rs[w].reason
    BY <1>1 DEF Row
  <2>2. QED BY <1>1, <2>1 DEF RebuildWardRollup, Row
<1>3. row \in Row
  BY <1>1 DEF Row
<1>4. /\ row.status = "REJECTED" /\ row.tally = AggregateTally(rs, w)
      /\ row.reason = rs[w].reason /\ row.flagged = rs[w].flagged
      /\ row.photo = rs[w].photo
  BY <1>1 DEF Row
<1> HIDE DEF row
<1>5. QED BY <1>2, <1>3, <1>4

(* Decide touches status and reason of the rows decided, and nothing else. *)
LEMMA DecideRejected ==
    ASSUME NEW rs \in [Unit -> Row], NEW S \in SUBSET Unit
    PROVE  LET R == Decide(rs, S, "REJECTED") IN
           /\ R \in [Unit -> Row]
           /\ \A u \in Unit \ S : R[u] = rs[u]
           /\ \A u \in Unit : /\ R[u].tally = rs[u].tally /\ R[u].photo = rs[u].photo
                              /\ R[u].flagged = rs[u].flagged
           /\ \A u \in S : R[u].status = "REJECTED" /\ R[u].reason = TRUE
<1> DEFINE R == Decide(rs, S, "REJECTED")
<1>1. \A u \in Unit : R[u] = IF u \in S THEN [rs[u] EXCEPT !.status = "REJECTED",
                                                         !.reason = TRUE]
                             ELSE rs[u]
  BY DEF Decide
<1>2. ASSUME NEW u \in Unit PROVE R[u] \in Row
  <2>1. "REJECTED" \in Status /\ rs[u] \in Row
    BY DEF Status
  <2>2. [rs[u] EXCEPT !.status = "REJECTED", !.reason = TRUE] \in Row
    BY <2>1, RowDecided
  <2>3. QED BY <1>1, <2>1, <2>2
<1>3. R \in [Unit -> Row]
  BY <1>2 DEF Decide
<1>4. \A u \in Unit : rs[u] \in Row
  OBVIOUS
<1>5. QED BY <1>1, <1>3, <1>4 DEF Row

LEMMA DecideApproved ==
    ASSUME NEW rs \in [Unit -> Row], NEW S \in SUBSET Unit
    PROVE  LET R == Decide(rs, S, "APPROVED") IN
           /\ R \in [Unit -> Row]
           /\ \A u \in Unit \ S : R[u] = rs[u]
           /\ \A u \in Unit : /\ R[u].tally = rs[u].tally /\ R[u].photo = rs[u].photo
                              /\ R[u].flagged = rs[u].flagged
           /\ \A u \in S : R[u].status = "APPROVED" /\ R[u].reason = FALSE
<1> DEFINE R == Decide(rs, S, "APPROVED")
<1>1. \A u \in Unit : R[u] = IF u \in S THEN [rs[u] EXCEPT !.status = "APPROVED",
                                                         !.reason = FALSE]
                             ELSE rs[u]
  BY DEF Decide
<1>2. ASSUME NEW u \in Unit PROVE R[u] \in Row
  <2>1. "APPROVED" \in Status /\ rs[u] \in Row
    BY DEF Status
  <2>2. [rs[u] EXCEPT !.status = "APPROVED", !.reason = FALSE] \in Row
    BY <2>1, RowDecided
  <2>3. QED BY <1>1, <2>1, <2>2
<1>3. R \in [Unit -> Row]
  BY <1>2 DEF Decide
<1>4. \A u \in Unit : rs[u] \in Row
  OBVIOUS
<1>5. QED BY <1>1, <1>3, <1>4 DEF Row

(* What a total counts only depends on the rows of the unit's children. *)
LEMMA AggregateDepends ==
    ASSUME NEW rs, NEW rt, NEW p,
           \A c \in Children(p) : rs[c].status = rt[c].status /\ rs[c].tally = rt[c].tally
    PROVE  /\ ApprovedChildren(rs, p) = ApprovedChildren(rt, p)
           /\ AggregateTally(rs, p) = AggregateTally(rt, p)
<1>1. ApprovedChildren(rs, p) = ApprovedChildren(rt, p)
  BY DEF ApprovedChildren
<1>2. \A c \in ApprovedChildren(rt, p) : rs[c].tally = rt[c].tally
  BY DEF ApprovedChildren
<1>3. AggregateTally(rs, p) = AggregateTally(rt, p)
  BY <1>1, <1>2 DEF AggregateTally
<1>4. QED BY <1>1, <1>3

-----------------------------------------------------------------------------
(* What each handler does to the rows, unit by unit. *)

LEMMA LogType ==
    ASSUME TypeOK, NEW S, NEW to \in Status, WriteActionLog(S, to)
    PROVE  lastLog' \in [Unit -> LogEntry]
<1>1. \A u \in Unit : rows[u].status \in Status \union {"NONE"}
  BY DEF TypeOK, Row
<1>2. \A u \in Unit : [from |-> rows[u].status, to |-> to] \in LogEntry
  BY <1>1 DEF LogEntry
<1>3. QED BY <1>2 DEF TypeOK, WriteActionLog

LEMMA UpsertEffect ==
    ASSUME TypeOK, NEW u \in Unit, NEW fig \in Figures, NEW photo \in BOOLEAN,
           UpsertResult(u, fig, photo)
    PROVE  /\ TypeOK'
           /\ \A v \in Unit : v # u => rows'[v] = rows[v]
           /\ rows'[u].status = "DRAFT" /\ rows'[u].tally = {<<u, fig>>}
           /\ rows'[u].reason = FALSE /\ rows'[u].flagged = rows[u].flagged
           /\ u \notin Wards
           /\ rows[u].status \in {"DRAFT", "REJECTED", "NONE"}
<1> DEFINE row == [rows[u] EXCEPT !.status = "DRAFT", !.tally = {<<u, fig>>},
                                  !.photo = photo, !.reason = FALSE]
<1>1. rows[u] \in Row
  BY DEF TypeOK
<1>2. rows' = [rows EXCEPT ![u] = row]
  BY <1>1 DEF UpsertResult, TypeOK, Row
<1>3. {<<u, fig>>} \in Tallies /\ "DRAFT" \in Status
  BY DEF Tallies, Status
<1>4. row \in Row
  BY <1>1, <1>3, RowTyped
<1>5. /\ row.status = "DRAFT" /\ row.tally = {<<u, fig>>} /\ row.reason = FALSE
      /\ row.flagged = rows[u].flagged
  BY <1>1 DEF Row
<1> HIDE DEF row
<1>6. TypeOK'
  <2>1. lastLog' = lastLog
    BY DEF UpsertResult
  <2>2. QED BY <1>2, <1>4, <2>1 DEF TypeOK
<1>7. QED BY <1>2, <1>5, <1>6 DEF TypeOK, UpsertResult, EditableStatuses, Wards

LEMMA AttachEffect ==
    ASSUME TypeOK, NEW u \in Unit, AttachEc8aPhoto(u)
    PROVE  /\ TypeOK'
           /\ \A v \in Unit : v # u => rows'[v] = rows[v]
           /\ rows'[u] = [rows[u] EXCEPT !.photo = TRUE]
           /\ rows[u].status \in EditableStatuses
BY DEF AttachEc8aPhoto, TypeOK, Row

LEMMA SubmitEffect ==
    ASSUME TypeOK, NEW u \in Unit, SubmitResult(u)
    PROVE  /\ TypeOK'
           /\ \A v \in Unit : v # u => rows'[v] = rows[v]
           /\ rows'[u] = [rows[u] EXCEPT !.status = "SUBMITTED", !.reason = FALSE]
           /\ u \notin Wards
           /\ rows[u].status \in EditableStatuses
           /\ u \in PollingUnits => rows[u].photo
<1>1. /\ rows' = [rows EXCEPT ![u] = [rows[u] EXCEPT !.status = "SUBMITTED",
                                                     !.reason = FALSE]]
      /\ rows[u] \in Row
  BY DEF SubmitResult, TypeOK, Row
<1>2. "SUBMITTED" \in Status
  BY DEF Status
<1>3. lastLog' \in [Unit -> LogEntry]
  BY <1>2, LogType DEF SubmitResult
<1>4. [rows[u] EXCEPT !.status = "SUBMITTED", !.reason = FALSE] \in Row
  BY <1>1, <1>2, RowDecided
<1>5. TypeOK'
  BY <1>1, <1>3, <1>4 DEF TypeOK
<1>6. QED BY <1>1, <1>5 DEF SubmitResult, TypeOK, Wards, PollingUnits

(* After an approval, the parent of what was approved counts its approved  *)
(* children as they now are.                                               *)
LEMMA ApprovalRollup ==
    ASSUME NEW rs \in [Unit -> Row], NEW p \in Unit,
           NEW c \in Children(p), rs[c].status = "APPROVED"
    PROVE  LET R == RollupToParent(rs, p) IN
           /\ R \in [Unit -> Row]
           /\ \A u \in Unit : u # p => R[u] = rs[u]
           /\ R[p].photo = rs[p].photo
           /\ R[p].status = RollupStatus(p)
           /\ R[p].tally = AggregateTally(R, p)
           /\ R[p].reason = FALSE
<1> DEFINE R == RollupToParent(rs, p)
<1>1. ApprovedChildren(rs, p) # {}
  BY DEF ApprovedChildren
<1>2. \A u \in Children(p) : u \in Unit /\ u # p
  BY Tree DEF Children
<1>3. \A u \in Unit : u # p => R[u] = rs[u]
  BY RollupEffect
<1>4. AggregateTally(R, p) = AggregateTally(rs, p)
  BY <1>2, <1>3, AggregateDepends
<1>5. QED BY <1>1, <1>3, <1>4, RollupEffect

LEMMA ApproveEffect ==
    ASSUME TypeOK, NEW c \in DOMAIN Parent, ApproveResult(c)
    PROVE  /\ TypeOK'
           /\ \A v \in Unit : v # c /\ v # Parent[c] => rows'[v] = rows[v]
           /\ rows[c].status = "SUBMITTED"
           /\ c \in Wards => AllPollingUnitsApproved(rows, c)
           /\ rows'[c].status = "APPROVED" /\ rows'[c].tally = rows[c].tally
           /\ rows'[c].photo = rows[c].photo /\ rows'[c].reason = FALSE
           /\ rows'[Parent[c]].status = RollupStatus(Parent[c])
           /\ rows'[Parent[c]].tally = AggregateTally(rows', Parent[c])
           /\ rows'[Parent[c]].photo = rows[Parent[c]].photo
           /\ rows'[Parent[c]].reason = FALSE
           /\ rows'[c].flagged = {} /\ rows'[Parent[c]].flagged = rows[Parent[c]].flagged
<1> DEFINE decided == Decide(rows, {c}, "APPROVED")
           approved == [decided EXCEPT ![c].flagged = {}]
<1>0. c \in Unit /\ Parent[c] \in Unit /\ Parent[c] # c /\ c \in Children(Parent[c])
  BY Tree
<1>1. "APPROVED" \in Status /\ rows \in [Unit -> Row] /\ {c} \in SUBSET Unit
  BY <1>0 DEF Status, TypeOK
<1>2. /\ decided \in [Unit -> Row]
      /\ \A u \in Unit : u # c => decided[u] = rows[u]
      /\ decided[c].tally = rows[c].tally /\ decided[c].photo = rows[c].photo
      /\ decided[c].status = "APPROVED" /\ decided[c].reason = FALSE
  <2>1. /\ decided \in [Unit -> Row]
        /\ \A u \in Unit \ {c} : decided[u] = rows[u]
        /\ decided[c].tally = rows[c].tally /\ decided[c].photo = rows[c].photo
        /\ decided[c].status = "APPROVED" /\ decided[c].reason = FALSE
    BY <1>0, <1>1, DecideApproved
  <2>2. QED BY <2>1
<1> HIDE DEF decided
<1>3. /\ approved \in [Unit -> Row]
      /\ \A u \in Unit : u # c => approved[u] = rows[u]
      /\ approved[c].tally = rows[c].tally /\ approved[c].photo = rows[c].photo
      /\ approved[c].status = "APPROVED" /\ approved[c].reason = FALSE
      /\ approved[c].flagged = {}
  <2>1. approved = [decided EXCEPT ![c] = [decided[c] EXCEPT !.flagged = {}]]
    BY <1>0, <1>2
  <2>2. [decided[c] EXCEPT !.flagged = {}] \in Row
    BY <1>0, <1>2, RowFlagged
  <2>3. decided[c] \in Row
    BY <1>0, <1>2
  <2>4. QED BY <1>0, <1>2, <2>1, <2>2, <2>3 DEF Row
<1>4. rows' = RollupToParent(approved, Parent[c])
  BY DEF ApproveResult, decided
<1> HIDE DEF approved
<1>5. /\ rows' \in [Unit -> Row]
      /\ \A u \in Unit : u # Parent[c] => rows'[u] = approved[u]
      /\ rows'[Parent[c]].photo = approved[Parent[c]].photo
      /\ rows'[Parent[c]].status = RollupStatus(Parent[c])
      /\ rows'[Parent[c]].tally = AggregateTally(rows', Parent[c])
      /\ rows'[Parent[c]].reason = FALSE
  BY <1>0, <1>3, <1>4, ApprovalRollup
<1>6. rows'[Parent[c]].flagged = approved[Parent[c]].flagged
  BY <1>0, <1>3, <1>4, RollupEffect
<1>7. lastLog' \in [Unit -> LogEntry]
  BY <1>1, LogType DEF ApproveResult
<1>8. TypeOK'
  BY <1>5, <1>7 DEF TypeOK
<1>9. QED BY <1>0, <1>3, <1>5, <1>6, <1>8 DEF ApproveResult, Wards

LEMMA ApproveAllEffect ==
    ASSUME TypeOK, NEW l \in Lgas, ApproveAllLgaWardResults(l)
    PROVE  LET pending == {w \in Children(l) : rows[w].status = "SUBMITTED"} IN
           /\ TypeOK'
           /\ pending # {}
           /\ \A w \in pending : AllPollingUnitsApproved(rows, w)
           /\ \A v \in Unit : v \notin pending /\ v # l => rows'[v] = rows[v]
           /\ \A w \in pending : rows'[w] = [rows[w] EXCEPT !.status = "APPROVED"]
           /\ rows'[l].status = "APPROVED"
           /\ rows'[l].tally = AggregateTally(rows', l)
           /\ rows'[l].photo = rows[l].photo /\ rows'[l].reason = FALSE
           /\ rows'[l].flagged = rows[l].flagged
<1> DEFINE pending == {w \in Children(l) : rows[w].status = "SUBMITTED"}
           approved == [u \in Unit |-> IF u \in pending
                                       THEN [rows[u] EXCEPT !.status = "APPROVED"]
                                       ELSE rows[u]]
<1>0. l \in Unit /\ l \notin Children(l) /\ RollupStatus(l) = "APPROVED"
  BY Tree DEF Lgas, Wards, RollupStatus
<1>1. /\ pending # {} /\ \A w \in pending : AllPollingUnitsApproved(rows, w)
      /\ rows' = RollupToParent(approved, l)
      /\ WriteActionLog(pending, "APPROVED")
  BY DEF ApproveAllLgaWardResults
<1>2. \A u \in Unit : rows[u] \in Row
  BY DEF TypeOK
<1>3. "APPROVED" \in Status
  BY DEF Status
<1>4. approved \in [Unit -> Row]
  <2>1. ASSUME NEW u \in Unit PROVE [rows[u] EXCEPT !.status = "APPROVED"] \in Row
    <3>1. rows[u] \in Row
      BY <1>2
    <3>2. QED BY <1>3, <3>1, RowStatus
  <2>2. QED BY <1>2, <2>1
<1>5. /\ \A u \in Unit : u \notin pending => approved[u] = rows[u]
      /\ \A u \in pending : approved[u] = [rows[u] EXCEPT !.status = "APPROVED"]
      /\ \A u \in pending : approved[u].status = "APPROVED" /\ u \in Children(l) /\ u # l
  <2>1. \A u \in pending : u \in Unit /\ u \in Children(l) /\ u # l
    BY <1>0, Tree
  <2>2. \A u \in Unit : u \notin pending => approved[u] = rows[u]
    OBVIOUS
  <2>3. \A u \in pending : approved[u] = [rows[u] EXCEPT !.status = "APPROVED"]
    BY <2>1
  <2>4. ASSUME NEW u \in pending PROVE approved[u].status = "APPROVED"
    <3>1. rows[u] \in Row
      BY <1>2, <2>1
    <3> HIDE DEF approved, pending
    <3>2. QED BY <2>3, <3>1 DEF Row
  <2>5. QED BY <2>1, <2>2, <2>3, <2>4
<1>6. PICK w \in Children(l) : approved[w].status = "APPROVED"
  BY <1>1, <1>5
<1> HIDE DEF approved
<1>7. /\ rows' \in [Unit -> Row]
      /\ \A u \in Unit : u # l => rows'[u] = approved[u]
      /\ rows'[l].photo = approved[l].photo
      /\ rows'[l].status = "APPROVED"
      /\ rows'[l].tally = AggregateTally(rows', l)
      /\ rows'[l].reason = FALSE
  BY <1>0, <1>1, <1>4, <1>6, ApprovalRollup
<1>8. rows'[l].flagged = approved[l].flagged
  BY <1>0, <1>1, <1>4, RollupEffect
<1>9. lastLog' \in [Unit -> LogEntry]
  BY <1>1, <1>3, LogType
<1>10. TypeOK'
  BY <1>7, <1>9 DEF TypeOK
<1>11. l \notin pending /\ \A w2 \in pending : w2 \in Unit /\ w2 # l
  BY <1>0, Tree
<1>12. QED BY <1>0, <1>1, <1>5, <1>7, <1>8, <1>10, <1>11

LEMMA RejectEffect ==
    ASSUME TypeOK, NEW c \in DOMAIN Parent, NEW flags, RejectResult(c, flags)
    PROVE  /\ TypeOK'
           /\ \A v \in Unit : v # c /\ v # Parent[c] => rows'[v] = rows[v]
           /\ rows'[c].status = "REJECTED" /\ rows'[c].tally = rows[c].tally
           /\ rows'[c].photo = rows[c].photo /\ rows'[c].reason = TRUE
           /\ \/ rows'[c].flagged = rows[c].flagged
              \/ c \in Wards /\ rows'[c].flagged \subseteq Children(c)
           /\ \/ rows[c].status = "SUBMITTED" /\ rows'[Parent[c]] = rows[Parent[c]]
              \/ /\ rows[c].status = "APPROVED" /\ c \in PollingUnits
                 /\ rows[Parent[c]].status = "REJECTED"
                 /\ rows'[Parent[c]].status = "REJECTED"
                 /\ rows'[Parent[c]].tally = AggregateTally(rows', Parent[c])
                 /\ rows'[Parent[c]].reason = rows[Parent[c]].reason
                 /\ rows'[Parent[c]].photo = rows[Parent[c]].photo
                 /\ rows'[Parent[c]].flagged = rows[Parent[c]].flagged
<1> DEFINE returned == Decide(rows, {c}, "REJECTED")
<1>0. c \in Unit /\ Parent[c] \in Unit /\ Parent[c] # c /\ c \in Children(Parent[c])
  BY Tree
<1>1. "REJECTED" \in Status /\ rows \in [Unit -> Row] /\ {c} \in SUBSET Unit
  BY <1>0 DEF Status, TypeOK
<1>2. /\ returned \in [Unit -> Row]
      /\ \A u \in Unit : u # c => returned[u] = rows[u]
      /\ returned[c].tally = rows[c].tally /\ returned[c].photo = rows[c].photo
      /\ returned[c].flagged = rows[c].flagged
      /\ returned[c].status = "REJECTED" /\ returned[c].reason = TRUE
  <2>1. /\ returned \in [Unit -> Row]
        /\ \A u \in Unit \ {c} : returned[u] = rows[u]
        /\ returned[c].tally = rows[c].tally /\ returned[c].photo = rows[c].photo
        /\ returned[c].flagged = rows[c].flagged
        /\ returned[c].status = "REJECTED" /\ returned[c].reason = TRUE
    BY <1>0, <1>1, DecideRejected
  <2>2. QED BY <2>1
<1>3. lastLog' \in [Unit -> LogEntry]
  BY <1>1, LogType DEF RejectResult
<1>4. /\ Returnable(c)
      /\ flags \subseteq (IF LevelOf[c] = "WARD" THEN Children(c) ELSE {})
      /\ rows' = IF LevelOf[c] = "WARD"
                 THEN [returned EXCEPT ![c].flagged = flags]
                 ELSE IF rows[c].status = "APPROVED"
                      THEN RebuildWardRollup(returned, Parent[c], FALSE)
                      ELSE returned
  BY DEF RejectResult
<1> HIDE DEF returned
<1>5. CASE c \in Wards
  <2>1. /\ LevelOf[c] = "WARD" /\ rows[c].status = "SUBMITTED"
        /\ flags \subseteq Children(c) /\ flags \in SUBSET Unit
    BY <1>4, <1>5, TreeAssumption DEF Returnable, Wards, Children
  <2>2. rows' = [returned EXCEPT ![c] = [returned[c] EXCEPT !.flagged = flags]]
    BY <1>0, <1>2, <1>4, <2>1
  <2>3. returned[c] \in Row /\ [returned[c] EXCEPT !.flagged = flags] \in Row
    BY <1>0, <1>2, <2>1, RowFlagged
  <2>4. rows' \in [Unit -> Row] /\ rows'[c] = [returned[c] EXCEPT !.flagged = flags]
        /\ \A u \in Unit : u # c => rows'[u] = returned[u]
    BY <1>0, <1>2, <2>2, <2>3
  <2>5. TypeOK'
    BY <1>3, <2>4 DEF TypeOK
  <2>6. /\ rows'[c].flagged = flags /\ rows'[c].status = "REJECTED"
        /\ rows'[c].tally = rows[c].tally /\ rows'[c].photo = rows[c].photo
        /\ rows'[c].reason = TRUE
    BY <1>2, <2>3, <2>4 DEF Row
  <2>7. QED BY <1>0, <1>2, <1>5, <2>1, <2>4, <2>5, <2>6
<1>6. CASE c \notin Wards /\ rows[c].status = "SUBMITTED"
  <2>1. rows' = returned
    BY <1>0, <1>4, <1>6 DEF Wards
  <2>2. TypeOK'
    BY <1>2, <1>3, <2>1 DEF TypeOK
  <2>3. /\ \A v \in Unit : v # c => rows'[v] = rows[v]
        /\ rows'[c].status = "REJECTED" /\ rows'[c].tally = rows[c].tally
        /\ rows'[c].photo = rows[c].photo /\ rows'[c].reason = TRUE
        /\ rows'[c].flagged = rows[c].flagged
    BY <1>2, <2>1
  <2>4. rows'[Parent[c]] = rows[Parent[c]]
    BY <1>0, <2>3
  <2>5. rows[c].status = "SUBMITTED" /\ rows'[Parent[c]] = rows[Parent[c]]
    BY <1>6, <2>4
  <2>6. \A v \in Unit : v # c /\ v # Parent[c] => rows'[v] = rows[v]
    BY <2>3
  <2>7. QED BY <2>2, <2>3, <2>5, <2>6, Zenon
<1>7. CASE c \notin Wards /\ rows[c].status # "SUBMITTED"
  <2>1. /\ rows[c].status = "APPROVED" /\ c \in PollingUnits
        /\ rows[Parent[c]].status = "REJECTED"
        /\ rows' = RebuildWardRollup(returned, Parent[c], FALSE)
    BY <1>0, <1>4, <1>7 DEF Wards, PollingUnits, Returnable
  <2>2. /\ rows' \in [Unit -> Row]
        /\ \A u \in Unit : u # Parent[c] => rows'[u] = returned[u]
        /\ rows'[Parent[c]].status = "REJECTED"
        /\ rows'[Parent[c]].tally = AggregateTally(returned, Parent[c])
        /\ rows'[Parent[c]].photo = returned[Parent[c]].photo
        /\ rows'[Parent[c]].reason = returned[Parent[c]].reason
        /\ rows'[Parent[c]].flagged = returned[Parent[c]].flagged
    <3>1. LET R == RebuildWardRollup(returned, Parent[c], FALSE) IN
          /\ R \in [Unit -> Row]
          /\ \A u \in Unit : u # Parent[c] => R[u] = returned[u]
          /\ R[Parent[c]].status = "REJECTED"
          /\ R[Parent[c]].tally = AggregateTally(returned, Parent[c])
          /\ R[Parent[c]].photo = returned[Parent[c]].photo
          /\ R[Parent[c]].reason = returned[Parent[c]].reason
          /\ R[Parent[c]].flagged = returned[Parent[c]].flagged
      BY <1>0, <1>2, KeepRejectedEffect
    <3>2. QED BY <2>1, <3>1
  <2>3. \A u \in Children(Parent[c]) : u \in Unit /\ u # Parent[c]
    BY Tree DEF Children
  <2>4. AggregateTally(rows', Parent[c]) = AggregateTally(returned, Parent[c])
    BY <2>2, <2>3, AggregateDepends
  <2>5. TypeOK'
    BY <1>3, <2>2 DEF TypeOK
  <2>6. /\ \A v \in Unit : v # c /\ v # Parent[c] => rows'[v] = rows[v]
        /\ rows'[c].status = "REJECTED" /\ rows'[c].tally = rows[c].tally
        /\ rows'[c].photo = rows[c].photo /\ rows'[c].reason = TRUE
        /\ rows'[c].flagged = rows[c].flagged
    BY <1>0, <1>2, <2>2
  <2>7. /\ rows'[Parent[c]].tally = AggregateTally(rows', Parent[c])
        /\ rows'[Parent[c]].reason = rows[Parent[c]].reason
        /\ rows'[Parent[c]].photo = rows[Parent[c]].photo
        /\ rows'[Parent[c]].flagged = rows[Parent[c]].flagged
    BY <1>0, <1>2, <2>2, <2>4
  <2>8. QED BY <2>1, <2>2, <2>5, <2>6, <2>7, Zenon
<1>8. QED BY <1>5, <1>6, <1>7

LEMMA ResubmitEffect ==
    ASSUME TypeOK, NEW w \in Wards, ResubmitWardToLga(w)
    PROVE  /\ TypeOK'
           /\ \A v \in Unit : v # w => rows'[v] = rows[v]
           /\ rows[w].status = "REJECTED"
           /\ rows'[w].status = "SUBMITTED" /\ rows'[w].reason = FALSE
           /\ rows'[w].tally = AggregateTally(rows', w)
           /\ rows'[w].photo = rows[w].photo
           /\ rows'[w].flagged = {}
<1>1. w \in Unit /\ rows \in [Unit -> Row] /\ "SUBMITTED" \in Status
  BY UnitClasses DEF TypeOK, Status
<1>2. rows' = RebuildWardRollup(rows, w, TRUE) /\ WriteActionLog({w}, "SUBMITTED")
      /\ rows[w].status = "REJECTED"
  BY DEF ResubmitWardToLga
<1>3. /\ rows' \in [Unit -> Row]
      /\ \A u \in Unit : u # w => rows'[u] = rows[u]
      /\ rows'[w].status = "SUBMITTED"
      /\ rows'[w].tally = AggregateTally(rows, w)
      /\ rows'[w].photo = rows[w].photo
      /\ rows'[w].reason = FALSE
      /\ rows'[w].flagged = {}
  BY <1>1, <1>2, ForceSubmitEffect
<1>4. \A u \in Children(w) : u \in Unit /\ u # w
  BY Tree DEF Children
<1>5. AggregateTally(rows', w) = AggregateTally(rows, w)
  BY <1>3, <1>4, AggregateDepends
<1>6. lastLog' \in [Unit -> LogEntry]
  BY <1>1, <1>2, LogType
<1>7. TypeOK'
  BY <1>3, <1>6 DEF TypeOK
<1>8. QED BY <1>2, <1>3, <1>5, <1>7

LEMMA ReturnFlaggedEffect ==
    ASSUME TypeOK, FlagsInWard, NEW w \in Wards, ReturnLgaFlaggedPus(w)
    PROVE  LET toReturn == {p \in rows[w].flagged :
                              rows[p].status \in {"APPROVED", "SUBMITTED"}} IN
           /\ TypeOK'
           /\ toReturn \subseteq Children(w)
           /\ \A v \in Unit : v \notin toReturn /\ v # w => rows'[v] = rows[v]
           /\ \A p \in toReturn : /\ rows'[p].status = "REJECTED"
                                  /\ rows'[p].tally = rows[p].tally
                                  /\ rows'[p].photo = rows[p].photo
                                  /\ rows'[p].flagged = rows[p].flagged
                                  /\ rows'[p].reason = TRUE
           /\ rows[w].status = "REJECTED" /\ rows'[w].status = "REJECTED"
           /\ rows'[w].reason = rows[w].reason /\ rows'[w].flagged = rows[w].flagged
           /\ \/ /\ rows'[w] = rows[w]
                 /\ \A p \in toReturn : rows[p].status = "SUBMITTED"
              \/ rows'[w].tally = AggregateTally(rows', w)
<1> DEFINE toReturn == {p \in rows[w].flagged :
                          rows[p].status \in {"APPROVED", "SUBMITTED"}}
           returned == Decide(rows, toReturn, "REJECTED")
<1>1. /\ rows[w].status = "REJECTED"
      /\ rows' = IF \E p \in toReturn : rows[p].status = "APPROVED"
                 THEN RebuildWardRollup(returned, w, FALSE)
                 ELSE returned
      /\ WriteActionLog(toReturn, "REJECTED")
  BY DEF ReturnLgaFlaggedPus
<1>2. /\ w \in Unit /\ rows \in [Unit -> Row] /\ "REJECTED" \in Status
      /\ \A u \in Children(w) : u \in Unit /\ u # w
  BY UnitClasses, Tree DEF TypeOK, Status, Children
<1>3. /\ toReturn \subseteq Children(w) /\ toReturn \in SUBSET Unit
      /\ \A p \in toReturn : rows[p].status \in {"APPROVED", "SUBMITTED"}
      /\ w \notin toReturn
  BY <1>2 DEF FlagsInWard
<1> HIDE DEF toReturn
<1>4. /\ returned \in [Unit -> Row]
      /\ \A u \in Unit \ toReturn : returned[u] = rows[u]
      /\ \A u \in Unit : /\ returned[u].tally = rows[u].tally
                         /\ returned[u].photo = rows[u].photo
                         /\ returned[u].flagged = rows[u].flagged
      /\ \A u \in toReturn : returned[u].status = "REJECTED" /\ returned[u].reason = TRUE
  <2>1. rows \in [Unit -> Row] /\ toReturn \in SUBSET Unit
    BY <1>2, <1>3
  <2>2. QED BY <2>1, DecideRejected, Zenon
<1> HIDE DEF returned
<1>5. lastLog' \in [Unit -> LogEntry]
  BY <1>1, <1>2, LogType
<1>6. CASE \E p \in toReturn : rows[p].status = "APPROVED"
  <2>1. /\ rows' \in [Unit -> Row]
        /\ \A u \in Unit : u # w => rows'[u] = returned[u]
        /\ rows'[w].status = "REJECTED" /\ rows'[w].tally = AggregateTally(returned, w)
        /\ rows'[w].reason = returned[w].reason /\ rows'[w].flagged = returned[w].flagged
    <3>1. LET R == RebuildWardRollup(returned, w, FALSE) IN
          /\ R \in [Unit -> Row]
          /\ \A u \in Unit : u # w => R[u] = returned[u]
          /\ R[w].status = "REJECTED" /\ R[w].tally = AggregateTally(returned, w)
          /\ R[w].reason = returned[w].reason /\ R[w].flagged = returned[w].flagged
          /\ R[w].photo = returned[w].photo
      BY <1>2, <1>4, KeepRejectedEffect
    <3>2. rows' = RebuildWardRollup(returned, w, FALSE)
      BY <1>1, <1>6
    <3>3. QED BY <3>1, <3>2
  <2>2. AggregateTally(rows', w) = AggregateTally(returned, w)
    BY <1>2, <2>1, AggregateDepends
  <2>3. TypeOK'
    BY <1>5, <2>1 DEF TypeOK
  <2>4. returned[w] = rows[w]
    BY <1>2, <1>3, <1>4
  <2>5. \A v \in Unit : v \notin toReturn /\ v # w => rows'[v] = rows[v]
    BY <1>4, <2>1
  <2>6. \A p \in toReturn : /\ rows'[p].status = "REJECTED"
                            /\ rows'[p].tally = rows[p].tally
                            /\ rows'[p].photo = rows[p].photo
                            /\ rows'[p].flagged = rows[p].flagged
                            /\ rows'[p].reason = TRUE
    BY <1>2, <1>3, <1>4, <2>1
  <2>7. QED BY <1>1, <1>3, <2>1, <2>2, <2>3, <2>4, <2>5, <2>6 DEF toReturn
<1>7. CASE ~ \E p \in toReturn : rows[p].status = "APPROVED"
  <2>1. rows' = returned
    BY <1>1, <1>7
  <2>2. rows'[w] = rows[w] /\ \A p \in toReturn : rows[p].status = "SUBMITTED"
    BY <1>2, <1>3, <1>4, <1>7, <2>1
  <2>3. TypeOK'
    BY <1>4, <1>5, <2>1 DEF TypeOK
  <2>4. \A p \in toReturn : /\ rows'[p].status = "REJECTED"
                            /\ rows'[p].tally = rows[p].tally
                            /\ rows'[p].photo = rows[p].photo
                            /\ rows'[p].flagged = rows[p].flagged
                            /\ rows'[p].reason = TRUE
    BY <1>3, <1>4, <2>1
  <2>5. \A v \in Unit : v \notin toReturn /\ v # w => rows'[v] = rows[v]
    BY <1>4, <2>1
  <2>6. QED BY <1>1, <1>3, <2>2, <2>3, <2>4, <2>5 DEF toReturn
<1>8. QED BY <1>6, <1>7

-----------------------------------------------------------------------------
(* Induction. *)

LEMMA InitIInv == Init => IInv
<1> SUFFICES ASSUME Init PROVE IInv
  OBVIOUS
<1>1. \A u \in Unit : rows[u] = Absent
  BY DEF Init
<1>2. Absent \in Row /\ NoLog \in LogEntry
  BY DEF Absent, NoLog, Row, LogEntry, Tallies
<1>3. TypeOK
  BY <1>2 DEF Init, TypeOK
<1>4. \A u \in Unit : /\ rows[u].status = "NONE" /\ rows[u].tally = {}
                     /\ rows[u].flagged = {}
  <2>1. Absent.status = "NONE" /\ Absent.tally = {} /\ Absent.flagged = {}
    BY DEF Absent
  <2>2. QED BY <1>1, <2>1
<1>5. FlagsInWard /\ PuTallyOwn /\ WardApprovedComplete
  BY <1>4, UnitClasses DEF FlagsInWard, PuTallyOwn, WardApprovedComplete
<1>6. ASSUME NEW u \in Unit PROVE ApprovedChildren(rows, u) = {}
  BY <1>4, Tree DEF ApprovedChildren, Children
<1>7. WardTallyFaithful /\ LgaCountsApprovedWards
  BY <1>4, <1>6, UnitClasses
     DEF WardTallyFaithful, LgaCountsApprovedWards, AggregateTally
<1>8. QED BY <1>3, <1>5, <1>7 DEF IInv

-----------------------------------------------------------------------------
(* The invariant, unit by unit, of a value rs of the rows. *)
PuSound(rs, p) ==
    \/ rs[p].status = "NONE" /\ rs[p].tally = {}
    \/ rs[p].status # "NONE" /\ \E f \in Figures : rs[p].tally = {<<p, f>>}
WardSound(rs, w) ==
    /\ rs[w].tally = AggregateTally(rs, w)
    /\ rs[w].status = "APPROVED" => AllPollingUnitsApproved(rs, w)
LgaSound(rs, l) ==
    ApprovedChildren(rs, l) # {} =>
        rs[l].status = "APPROVED" /\ rs[l].tally = AggregateTally(rs, l)
Sound(rs) ==
    /\ \A u \in Unit : rs[u].flagged \subseteq Children(u)
    /\ \A p \in PollingUnits : PuSound(rs, p)
    /\ \A w \in Wards : WardSound(rs, w)
    /\ \A l \in Lgas : LgaSound(rs, l)

LEMMA IInvSound ==
    /\ IInv <=> TypeOK /\ Sound(rows)
    /\ IInv' <=> TypeOK' /\ Sound(rows')
<1>1. IInv <=> TypeOK /\ Sound(rows)
  BY DEF IInv, Sound, PuSound, WardSound, LgaSound, FlagsInWard, PuTallyOwn,
         WardApprovedComplete, WardTallyFaithful, LgaCountsApprovedWards
<1>2. IInv' <=> TypeOK' /\ Sound(rows')
  BY DEF IInv, Sound, PuSound, WardSound, LgaSound, FlagsInWard, PuTallyOwn,
         WardApprovedComplete, WardTallyFaithful, LgaCountsApprovedWards,
         AggregateTally, ApprovedChildren, AllPollingUnitsApproved
<1>3. QED BY <1>1, <1>2

(* No child of p is approved, reopened or changed while approved. *)
Steady(rs, rt, p) ==
    \A c \in Children(p) :
        /\ rs[c].status = "APPROVED" <=> rt[c].status = "APPROVED"
        /\ rs[c].status = "APPROVED" => rs[c].tally = rt[c].tally

LEMMA SteadyAggregate ==
    ASSUME NEW rs, NEW rt, NEW p, Steady(rs, rt, p)
    PROVE  /\ ApprovedChildren(rs, p) = ApprovedChildren(rt, p)
           /\ AggregateTally(rs, p) = AggregateTally(rt, p)
           /\ AllPollingUnitsApproved(rs, p) <=> AllPollingUnitsApproved(rt, p)
<1>1. ApprovedChildren(rs, p) = ApprovedChildren(rt, p)
  BY DEF ApprovedChildren, Steady
<1>2. \A c \in ApprovedChildren(rt, p) : rs[c].tally = rt[c].tally
  BY DEF ApprovedChildren, Steady
<1>3. AggregateTally(rs, p) = AggregateTally(rt, p)
  BY <1>1, <1>2 DEF AggregateTally
<1>4. AllPollingUnitsApproved(rs, p) <=> AllPollingUnitsApproved(rt, p)
  BY DEF AllPollingUnitsApproved, Steady
<1>5. QED BY <1>1, <1>3, <1>4

(* A ward, or an LGA, stays sound while nothing happens to what it counts. *)
LEMMA WardFrame ==
    ASSUME NEW rs, NEW rt, NEW w, Steady(rs, rt, w), WardSound(rs, w),
           rt[w].tally = rs[w].tally,
           rt[w].status = "APPROVED" => rs[w].status = "APPROVED"
    PROVE  WardSound(rt, w)
BY SteadyAggregate DEF WardSound

LEMMA LgaFrame ==
    ASSUME NEW rs, NEW rt, NEW l, Steady(rs, rt, l), LgaSound(rs, l),
           \/ rt[l].tally = rs[l].tally /\ rt[l].status = rs[l].status
           \/ rs[l].status # "APPROVED"
    PROVE  LgaSound(rt, l)
BY SteadyAggregate DEF LgaSound

(***************************************************************************)
(* A step that moves one unit between statuses short of approval, and      *)
(* touches nothing else, keeps the rows sound.                             *)
(***************************************************************************)
LEMMA UnapprovedStep ==
    ASSUME NEW rs, NEW rt, Sound(rs), NEW u \in Unit,
           \A v \in Unit : v # u => rt[v] = rs[v],
           rs[u].status # "APPROVED", rt[u].status # "APPROVED",
           rt[u].flagged \subseteq Children(u),
           u \in PollingUnits => PuSound(rt, u),
           u \in Wards => rt[u].tally = rs[u].tally
    PROVE  Sound(rt)
<1>1. ASSUME NEW p PROVE Steady(rs, rt, p)
  <2>1. \A c \in Children(p) : c \in Unit
    BY Tree DEF Children
  <2>2. QED BY <2>1 DEF Steady
<1>2. \A p \in PollingUnits : PuSound(rt, p)
  BY UnitClasses DEF PuSound, Sound
<1>3. ASSUME NEW w \in Wards PROVE WardSound(rt, w)
  <2>1. WardSound(rs, w) /\ Steady(rs, rt, w)
    BY <1>1 DEF Sound
  <2>2. rt[w].tally = rs[w].tally /\ (rt[w].status = "APPROVED" => rs[w].status = "APPROVED")
    BY UnitClasses
  <2>3. QED BY <2>1, <2>2, WardFrame
<1>4. ASSUME NEW l \in Lgas PROVE LgaSound(rt, l)
  <2>1. LgaSound(rs, l) /\ Steady(rs, rt, l)
    BY <1>1 DEF Sound
  <2>2. \/ rt[l].tally = rs[l].tally /\ rt[l].status = rs[l].status
        \/ rs[l].status # "APPROVED"
    BY UnitClasses
  <2>3. QED BY <2>1, <2>2, LgaFrame
<1>5. \A v \in Unit : rt[v].flagged \subseteq Children(v)
  BY DEF Sound
<1>6. QED BY <1>2, <1>3, <1>4, <1>5 DEF Sound

LEMMA UpsertIInv ==
    ASSUME IInv, NEW u \in Unit, NEW fig \in Figures, NEW photo \in BOOLEAN,
           UpsertResult(u, fig, photo)
    PROVE  IInv'
<1>1. TypeOK /\ Sound(rows)
  BY IInvSound
<1>2. /\ TypeOK'
      /\ \A v \in Unit : v # u => rows'[v] = rows[v]
      /\ rows'[u].status = "DRAFT" /\ rows'[u].tally = {<<u, fig>>}
      /\ rows'[u].flagged = rows[u].flagged
      /\ u \notin Wards
      /\ rows[u].status \in {"DRAFT", "REJECTED", "NONE"}
  BY <1>1, UpsertEffect
<1>3. PuSound(rows', u)
  BY <1>2 DEF PuSound
<1>4. Sound(rows')
  BY <1>1, <1>2, <1>3, UnapprovedStep DEF Sound
<1>5. QED BY <1>2, <1>4, IInvSound

LEMMA AttachIInv ==
    ASSUME IInv, NEW u \in Unit, AttachEc8aPhoto(u)
    PROVE  IInv'
<1>1. TypeOK /\ Sound(rows) /\ rows[u] \in Row
  BY IInvSound DEF TypeOK
<1>2. /\ TypeOK'
      /\ \A v \in Unit : v # u => rows'[v] = rows[v]
      /\ rows'[u] = [rows[u] EXCEPT !.photo = TRUE]
      /\ rows[u].status \in EditableStatuses
  BY <1>1, AttachEffect
<1>3. /\ rows'[u].status = rows[u].status /\ rows'[u].tally = rows[u].tally
      /\ rows'[u].flagged = rows[u].flagged
  BY <1>1, <1>2 DEF Row
<1>4. u \in PollingUnits => PuSound(rows', u)
  BY <1>1, <1>3 DEF PuSound, Sound
<1>5. Sound(rows')
  BY <1>1, <1>2, <1>3, <1>4, UnapprovedStep DEF Sound, EditableStatuses
<1>6. QED BY <1>2, <1>5, IInvSound

LEMMA SubmitIInv ==
    ASSUME IInv, NEW u \in Unit, SubmitResult(u)
    PROVE  IInv'
<1>1. TypeOK /\ Sound(rows) /\ rows[u] \in Row
  BY IInvSound DEF TypeOK
<1>2. /\ TypeOK'
      /\ \A v \in Unit : v # u => rows'[v] = rows[v]
      /\ rows'[u] = [rows[u] EXCEPT !.status = "SUBMITTED", !.reason = FALSE]
      /\ u \notin Wards
      /\ rows[u].status \in EditableStatuses
  BY <1>1, SubmitEffect
<1>3. /\ rows'[u].status = "SUBMITTED" /\ rows'[u].tally = rows[u].tally
      /\ rows'[u].flagged = rows[u].flagged
  BY <1>1, <1>2 DEF Row
<1>4. u \in PollingUnits => PuSound(rows', u)
  BY <1>1, <1>2, <1>3 DEF PuSound, Sound, EditableStatuses
<1>5. /\ \A v \in Unit : v # u => rows'[v] = rows[v]
      /\ rows[u].status # "APPROVED" /\ rows'[u].status # "APPROVED"
      /\ rows'[u].flagged \subseteq Children(u)
      /\ u \in Wards => rows'[u].tally = rows[u].tally
  <2>1. rows[u].status # "APPROVED"
    BY <1>2 DEF EditableStatuses
  <2>2. rows'[u].flagged \subseteq Children(u)
    BY <1>1, <1>3 DEF Sound
  <2>3. QED BY <1>2, <1>3, <2>1, <2>2
<1>6. Sound(rows')
  BY <1>1, <1>4, <1>5, UnapprovedStep
<1>7. QED BY <1>2, <1>6, IInvSound

(***************************************************************************)
(* Approving a polling unit recounts its ward.  The ward's LGA is not      *)
(* disturbed, because a ward with a submitted polling unit was not         *)
(* approved: this is where the invariant needs WardApprovedComplete.       *)
(***************************************************************************)
LEMMA ApproveIInv ==
    ASSUME IInv, NEW c \in DOMAIN Parent, ApproveResult(c)
    PROVE  IInv'
<1> DEFINE q == Parent[c]
<1>0. /\ c \in Unit /\ q \in Unit /\ q # c /\ c \in Children(q) /\ q \notin PollingUnits
      /\ q \in Wards <=> c \in PollingUnits
      /\ q \in Lgas <=> c \in Wards
  BY Tree
<1>1. TypeOK /\ Sound(rows) /\ rows[c] \in Row
  BY <1>0, IInvSound DEF TypeOK
<1>2. /\ TypeOK'
      /\ \A v \in Unit : v # c /\ v # q => rows'[v] = rows[v]
      /\ rows[c].status = "SUBMITTED"
      /\ c \in Wards => AllPollingUnitsApproved(rows, c)
      /\ rows'[c].status = "APPROVED" /\ rows'[c].tally = rows[c].tally
      /\ rows'[q].status = RollupStatus(q)
      /\ rows'[q].tally = AggregateTally(rows', q)
      /\ rows'[c].flagged = {} /\ rows'[q].flagged = rows[q].flagged
  BY <1>1, ApproveEffect
<1> HIDE DEF q
<1>3. \A u \in Unit : rows'[u].flagged \subseteq Children(u)
  BY <1>0, <1>1, <1>2 DEF Sound
<1>4. \A p \in PollingUnits : PuSound(rows', p)
  BY <1>0, <1>1, <1>2, UnitClasses DEF Sound, PuSound
<1>5. ASSUME NEW w \in Wards PROVE WardSound(rows', w)
  <2>1. w \in Unit /\ WardSound(rows, w) /\ \A p \in Children(w) : p \in Unit /\ p # q /\ p # w
    BY <1>0, <1>1, Tree, UnitClasses DEF Sound
  <2>2. CASE w = q
    <3>1. rows'[w].status = "SUBMITTED" /\ rows'[w].tally = AggregateTally(rows', w)
      BY <1>2, <2>2 DEF RollupStatus, Wards
    <3>2. QED BY <3>1 DEF WardSound
  <2>3. CASE w # q
    <3>1. \A p \in Children(w) : p # c
      BY <1>0, <2>3, Tree DEF q
    <3>2. Steady(rows, rows', w)
      BY <1>2, <2>1, <3>1 DEF Steady
    <3>3. CASE w # c
      BY <1>2, <2>1, <2>3, <3>2, <3>3, WardFrame
    <3>4. CASE w = c
      <4>1. AllPollingUnitsApproved(rows', w) /\ AggregateTally(rows', w) = AggregateTally(rows, w)
        BY <1>2, <3>2, <3>4, SteadyAggregate
      <4>2. QED BY <1>2, <2>1, <3>4, <4>1 DEF WardSound
    <3>5. QED BY <3>3, <3>4
  <2>4. QED BY <2>2, <2>3
<1>6. ASSUME NEW l \in Lgas PROVE LgaSound(rows', l)
  <2>1. l \in Unit /\ LgaSound(rows, l) /\ \A w \in Children(l) : w \in Unit /\ w \in Wards
    BY <1>1, Tree, UnitClasses DEF Sound
  <2>2. CASE l = q
    BY <1>2, <2>2, UnitClasses DEF LgaSound, RollupStatus, Lgas
  <2>3. CASE l # q
    <3>1. \A w \in Children(l) : w # c
      BY <1>0, <2>3, Tree DEF q
    <3>2. ASSUME NEW w \in Children(l), w = q
          PROVE  rows[w].status # "APPROVED" /\ rows'[w].status # "APPROVED"
      <4>1. w \in Wards /\ c \in Children(w) /\ WardSound(rows, w)
        BY <1>0, <1>1, <2>1, <3>2 DEF Sound
      <4>2. rows[w].status # "APPROVED"
        BY <1>2, <4>1 DEF WardSound, AllPollingUnitsApproved
      <4>3. QED BY <1>2, <3>2, <4>1, <4>2 DEF RollupStatus, Wards
    <3>3. Steady(rows, rows', l)
      BY <1>2, <2>1, <3>1, <3>2 DEF Steady
    <3>4. \/ rows'[l].tally = rows[l].tally /\ rows'[l].status = rows[l].status
          \/ rows[l].status # "APPROVED"
      BY <1>2, <2>1, <2>3
    <3>5. QED BY <2>1, <3>3, <3>4, LgaFrame
  <2>4. QED BY <2>2, <2>3
<1>7. QED BY <1>2, <1>3, <1>4, <1>5, <1>6, IInvSound DEF Sound

LEMMA ApproveAllIInv ==
    ASSUME IInv, NEW l \in Lgas, ApproveAllLgaWardResults(l)
    PROVE  IInv'
<1> DEFINE pending == {w \in Children(l) : rows[w].status = "SUBMITTED"}
<1>1. TypeOK /\ Sound(rows) /\ \A u \in Unit : rows[u] \in Row
  BY IInvSound DEF TypeOK
<1>2. /\ TypeOK'
      /\ \A w \in pending : AllPollingUnitsApproved(rows, w)
      /\ \A v \in Unit : v \notin pending /\ v # l => rows'[v] = rows[v]
      /\ \A w \in pending : rows'[w] = [rows[w] EXCEPT !.status = "APPROVED"]
      /\ rows'[l].status = "APPROVED"
      /\ rows'[l].tally = AggregateTally(rows', l)
      /\ rows'[l].flagged = rows[l].flagged
  BY <1>1, ApproveAllEffect
<1>3. /\ pending \subseteq Wards /\ pending \subseteq Unit /\ l \in Unit
      /\ pending \subseteq Children(l)
      /\ \A w \in pending : rows[w].status = "SUBMITTED"
  BY Tree, UnitClasses
<1> HIDE DEF pending
<1>4. \A w \in pending : /\ rows'[w].status = "APPROVED" /\ rows'[w].tally = rows[w].tally
                         /\ rows'[w].flagged = rows[w].flagged
  <2>1. ASSUME NEW w \in pending
        PROVE  /\ rows'[w].status = "APPROVED" /\ rows'[w].tally = rows[w].tally
               /\ rows'[w].flagged = rows[w].flagged
    <3>1. rows[w] \in Row /\ rows'[w] = [rows[w] EXCEPT !.status = "APPROVED"]
      BY <1>1, <1>2, <1>3
    <3>2. QED BY <3>1 DEF Row
  <2>2. QED BY <2>1
<1>5. \A v \in Unit : v \notin pending /\ v # l => rows'[v] = rows[v]
  BY <1>2
<1>6. \A u \in Unit : rows'[u].flagged \subseteq Children(u)
  <2>1. \A u \in Unit : rows'[u].flagged = rows[u].flagged
    BY <1>2, <1>4, <1>5
  <2>2. QED BY <1>1, <2>1 DEF Sound
<1>7. \A p \in PollingUnits : PuSound(rows', p)
  <2>1. \A p \in PollingUnits : rows'[p] = rows[p]
    BY <1>3, <1>5, UnitClasses
  <2>2. QED BY <1>1, <2>1 DEF Sound, PuSound
<1>8. ASSUME NEW w \in Wards PROVE WardSound(rows', w)
  <2>1. w \in Unit /\ WardSound(rows, w) /\ w # l
    BY <1>1, UnitClasses DEF Sound
  <2>2. \A p \in Children(w) : rows'[p] = rows[p]
    BY <1>3, <1>5, Tree, UnitClasses
  <2>3. Steady(rows, rows', w)
    BY <2>2 DEF Steady
  <2>4. CASE w \notin pending
    BY <1>5, <2>1, <2>3, <2>4, WardFrame
  <2>5. CASE w \in pending
    <3>1. AllPollingUnitsApproved(rows, w) /\ rows'[w].tally = rows[w].tally
      BY <1>2, <1>4, <2>5
    <3>2. QED BY <2>1, <2>3, <3>1, SteadyAggregate DEF WardSound
  <2>6. QED BY <2>4, <2>5
<1>9. ASSUME NEW m \in Lgas PROVE LgaSound(rows', m)
  <2>1. m \in Unit /\ LgaSound(rows, m) /\ m \notin pending
    BY <1>1, <1>3, UnitClasses DEF Sound
  <2>2. CASE m = l
    <3>1. rows'[l].status = "APPROVED" /\ rows'[l].tally = AggregateTally(rows', l)
      BY <1>2
    <3>2. QED BY <2>2, <3>1 DEF LgaSound
  <2>3. CASE m # l
    <3>1. \A w \in Children(m) : w \in Unit /\ w \notin pending /\ w # l
      BY <1>3, <2>3, Tree, UnitClasses
    <3>2. Steady(rows, rows', m)
      BY <1>5, <3>1 DEF Steady
    <3>3. rows'[m] = rows[m]
      BY <1>5, <2>1, <2>3
    <3>4. QED BY <2>1, <3>2, <3>3, LgaFrame
  <2>4. QED BY <2>2, <2>3
<1>10. TypeOK'
  BY <1>2
<1>11. QED BY <1>6, <1>7, <1>8, <1>9, <1>10, IInvSound DEF Sound

(***************************************************************************)
(* Steps below a returned ward: some of its polling units are reopened,    *)
(* none is approved, and the ward recounts them, or had none of them in    *)
(* its total.                                                              *)
(***************************************************************************)
LEMMA ReopeningStep ==
    ASSUME NEW rs, NEW rt, Sound(rs), NEW w \in Wards, NEW S, S \subseteq Children(w),
           \A v \in Unit : v \notin S /\ v # w => rt[v] = rs[v],
           \A p \in S : /\ rs[p].status # "NONE" /\ rt[p].status = "REJECTED"
                        /\ rt[p].tally = rs[p].tally
                        /\ rt[p].flagged = rs[p].flagged,
           rs[w].status # "APPROVED", rt[w].status # "APPROVED",
           rt[w].flagged = rs[w].flagged,
           \/ rt[w].tally = AggregateTally(rt, w)
           \/ rt[w].tally = rs[w].tally /\ \A p \in S : rs[p].status # "APPROVED"
    PROVE  Sound(rt)
<1>1. /\ S \subseteq PollingUnits /\ S \subseteq Unit /\ w \in Unit
      /\ \A p \in S : Parent[p] = w
  BY Tree, UnitClasses
<1>2. \A u \in Unit : rt[u].flagged \subseteq Children(u)
  BY <1>1 DEF Sound
<1>3. \A p \in PollingUnits : PuSound(rt, p)
  <2>1. ASSUME NEW p \in PollingUnits PROVE PuSound(rt, p)
    <3>1. PuSound(rs, p) /\ p \in Unit /\ p # w
      BY UnitClasses DEF Sound
    <3>2. CASE p \in S
      BY <3>1, <3>2 DEF PuSound
    <3>3. CASE p \notin S
      BY <3>1, <3>3 DEF PuSound
    <3>4. QED BY <3>2, <3>3
  <2>2. QED BY <2>1
<1>4. ASSUME NEW v \in Wards PROVE WardSound(rt, v)
  <2>1. v \in Unit /\ WardSound(rs, v) /\ v \notin S
    BY <1>1, UnitClasses DEF Sound
  <2>2. CASE v # w
    <3>1. \A p \in Children(v) : p \in Unit /\ p \notin S /\ p # w
      BY <1>1, <2>2, Tree, UnitClasses
    <3>2. Steady(rs, rt, v)
      BY <3>1 DEF Steady
    <3>3. QED BY <2>1, <2>2, <3>2, WardFrame
  <2>3. CASE v = w /\ rt[w].tally = AggregateTally(rt, w)
    BY <2>3 DEF WardSound
  <2>4. CASE v = w /\ rt[w].tally = rs[w].tally /\ \A p \in S : rs[p].status # "APPROVED"
    <3>1. \A p \in Children(w) : p \in Unit /\ p # w
      BY Tree, UnitClasses
    <3>2. Steady(rs, rt, w)
      BY <2>4, <3>1 DEF Steady
    <3>3. QED BY <2>1, <2>4, <3>2, WardFrame
  <2>5. QED BY <2>2, <2>3, <2>4
<1>5. ASSUME NEW l \in Lgas PROVE LgaSound(rt, l)
  <2>1. l \in Unit /\ LgaSound(rs, l) /\ l \notin S /\ l # w
    BY <1>1, UnitClasses DEF Sound
  <2>2. \A v \in Children(l) : v \in Unit /\ v \notin S
    <3>1. \A v \in Children(l) : v \in Wards /\ v \in Unit
      BY Tree
    <3>2. QED BY <1>1, <3>1, UnitClasses
  <2>3. Steady(rs, rt, l)
    BY <2>2 DEF Steady
  <2>4. QED BY <2>1, <2>3, LgaFrame
<1>6. QED BY <1>2, <1>3, <1>4, <1>5 DEF Sound

LEMMA RejectIInv ==
    ASSUME IInv, NEW c \in DOMAIN Parent, NEW flags, RejectResult(c, flags)
    PROVE  IInv'
<1> DEFINE q == Parent[c]
<1>0. /\ c \in Unit /\ q \in Unit /\ q # c /\ c \in Children(q)
      /\ q \in Wards <=> c \in PollingUnits
  BY Tree
<1>1. TypeOK /\ Sound(rows)
  BY IInvSound
<1>2. /\ TypeOK'
      /\ \A v \in Unit : v # c /\ v # q => rows'[v] = rows[v]
      /\ rows'[c].status = "REJECTED" /\ rows'[c].tally = rows[c].tally
      /\ \/ rows'[c].flagged = rows[c].flagged
         \/ c \in Wards /\ rows'[c].flagged \subseteq Children(c)
      /\ \/ rows[c].status = "SUBMITTED" /\ rows'[q] = rows[q]
         \/ /\ rows[c].status = "APPROVED" /\ c \in PollingUnits
            /\ rows[q].status = "REJECTED"
            /\ rows'[q].status = "REJECTED"
            /\ rows'[q].tally = AggregateTally(rows', q)
            /\ rows'[q].flagged = rows[q].flagged
  BY <1>1, RejectEffect
<1> HIDE DEF q
<1>3. CASE rows[c].status = "SUBMITTED" /\ rows'[q] = rows[q]
  <2>1. \A v \in Unit : v # c => rows'[v] = rows[v]
    BY <1>2, <1>3
  <2>2. rows'[c].flagged \subseteq Children(c)
    BY <1>0, <1>1, <1>2 DEF Sound
  <2>3. c \in PollingUnits => PuSound(rows', c)
    BY <1>1, <1>2, <1>3 DEF Sound, PuSound
  <2>4. Sound(rows')
    BY <1>0, <1>1, <1>2, <1>3, <2>1, <2>2, <2>3, UnapprovedStep
  <2>5. QED BY <1>2, <2>4, IInvSound
<1>4. CASE /\ rows[c].status = "APPROVED" /\ c \in PollingUnits
           /\ rows[q].status = "REJECTED"
           /\ rows'[q].status = "REJECTED"
           /\ rows'[q].tally = AggregateTally(rows', q)
           /\ rows'[q].flagged = rows[q].flagged
  <2>1. q \in Wards /\ {c} \subseteq Children(q)
    BY <1>0, <1>4
  <2>2. \A v \in Unit : v \notin {c} /\ v # q => rows'[v] = rows[v]
    BY <1>2
  <2>3. c \notin Wards
    BY <1>4, UnitClasses
  <2>4. \A p \in {c} : /\ rows[p].status # "NONE" /\ rows'[p].status = "REJECTED"
                       /\ rows'[p].tally = rows[p].tally
                       /\ rows'[p].flagged = rows[p].flagged
    BY <1>2, <1>4, <2>3
  <2>5. Sound(rows')
    BY <1>1, <1>4, <2>1, <2>2, <2>4, ReopeningStep
  <2>6. QED BY <1>2, <2>5, IInvSound
<1>5. QED BY <1>2, <1>3, <1>4

LEMMA ResubmitIInv ==
    ASSUME IInv, NEW w \in Wards, ResubmitWardToLga(w)
    PROVE  IInv'
<1>1. TypeOK /\ Sound(rows)
  BY IInvSound
<1>2. /\ TypeOK'
      /\ \A v \in Unit : v # w => rows'[v] = rows[v]
      /\ rows[w].status = "REJECTED" /\ rows'[w].status = "SUBMITTED"
      /\ rows'[w].tally = AggregateTally(rows', w)
      /\ rows'[w].flagged = {}
  BY <1>1, ResubmitEffect
<1>3. /\ w \in Unit /\ w \notin PollingUnits
      /\ \A p \in Children(w) : p \in Unit /\ p # w
  BY Tree, UnitClasses
<1>4. Steady(rows, rows', w)
  BY <1>2, <1>3 DEF Steady
<1>5. rows'[w].tally = rows[w].tally
  <2>1. rows[w].tally = AggregateTally(rows, w)
    BY <1>1 DEF Sound, WardSound
  <2>2. QED BY <1>2, <1>4, <2>1, SteadyAggregate
<1>6. Sound(rows')
  BY <1>1, <1>2, <1>3, <1>5, UnapprovedStep
<1>7. QED BY <1>2, <1>6, IInvSound

LEMMA ReturnFlaggedIInv ==
    ASSUME IInv, NEW w \in Wards, ReturnLgaFlaggedPus(w)
    PROVE  IInv'
<1> DEFINE toReturn == {p \in rows[w].flagged :
                          rows[p].status \in {"APPROVED", "SUBMITTED"}}
<1>1. TypeOK /\ FlagsInWard /\ Sound(rows)
  BY IInvSound DEF IInv
<1>2. /\ TypeOK'
      /\ toReturn \subseteq Children(w)
      /\ \A v \in Unit : v \notin toReturn /\ v # w => rows'[v] = rows[v]
      /\ \A p \in toReturn : /\ rows'[p].status = "REJECTED"
                             /\ rows'[p].tally = rows[p].tally
                             /\ rows'[p].flagged = rows[p].flagged
      /\ rows[w].status = "REJECTED" /\ rows'[w].status = "REJECTED"
      /\ rows'[w].flagged = rows[w].flagged
      /\ \/ /\ rows'[w] = rows[w]
            /\ \A p \in toReturn : rows[p].status = "SUBMITTED"
         \/ rows'[w].tally = AggregateTally(rows', w)
  BY <1>1, ReturnFlaggedEffect
<1>3. \A p \in toReturn : rows[p].status \in {"APPROVED", "SUBMITTED"}
  OBVIOUS
<1> HIDE DEF toReturn
<1>4. \A p \in toReturn : /\ rows[p].status # "NONE" /\ rows'[p].status = "REJECTED"
                          /\ rows'[p].tally = rows[p].tally
                          /\ rows'[p].flagged = rows[p].flagged
  BY <1>2, <1>3
<1>5. /\ rows[w].status # "APPROVED" /\ rows'[w].status # "APPROVED"
      /\ \/ rows'[w].tally = AggregateTally(rows', w)
         \/ /\ rows'[w].tally = rows[w].tally
            /\ \A p \in toReturn : rows[p].status # "APPROVED"
  BY <1>2
<1>6. Sound(rows')
  BY <1>1, <1>2, <1>4, <1>5, ReopeningStep
<1>7. QED BY <1>2, <1>6, IInvSound

LEMMA NextIInv == IInv /\ [Next]_vars => IInv'
<1> SUFFICES ASSUME IInv, [Next]_vars PROVE IInv'
  OBVIOUS
<1>1. CASE UNCHANGED vars
  <2>1. rows' = rows /\ TypeOK' /\ TypeOK /\ Sound(rows)
    BY <1>1, IInvSound DEF vars, TypeOK
  <2>2. QED BY <2>1, IInvSound
<1>2. ASSUME NEW u \in Unit, NEW fig \in Figures, NEW photo \in BOOLEAN,
             UpsertResult(u, fig, photo)
      PROVE  IInv'
  BY <1>2, UpsertIInv
<1>3. ASSUME NEW u \in Unit, AttachEc8aPhoto(u) PROVE IInv'
  BY <1>3, AttachIInv
<1>4. ASSUME NEW u \in Unit, SubmitResult(u) PROVE IInv'
  BY <1>4, SubmitIInv
<1>5. ASSUME NEW c \in DOMAIN Parent, ApproveResult(c) PROVE IInv'
  BY <1>5, ApproveIInv
<1>6. ASSUME NEW c \in DOMAIN Parent, NEW flags \in SUBSET Children(c),
             RejectResult(c, flags)
      PROVE  IInv'
  BY <1>6, RejectIInv
<1>7. ASSUME NEW l \in Lgas, ApproveAllLgaWardResults(l) PROVE IInv'
  BY <1>7, ApproveAllIInv
<1>8. ASSUME NEW w \in Wards, ResubmitWardToLga(w) PROVE IInv'
  BY <1>8, ResubmitIInv
<1>9. ASSUME NEW w \in Wards, ReturnLgaFlaggedPus(w) PROVE IInv'
  BY <1>9, ReturnFlaggedIInv
<1>10. QED BY <1>1, <1>2, <1>3, <1>4, <1>5, <1>6, <1>7, <1>8, <1>9 DEF Next

(* The inductive invariant holds in every reachable state. *)
THEOREM Invariance == Spec => []IInv
BY InitIInv, NextIInv, PTL DEF Spec

(* Rows and log entries keep their shape under every handler. *)
THEOREM TypeCorrect == Spec => []TypeOK
<1>1. IInv => TypeOK
  BY DEF IInv
<1>2. QED BY Invariance, <1>1, PTL

(* A ward is approved only while every polling unit in it is: approveResult *)
(* and approveAllLgaWardResults check it once, the rest keep it.            *)
THEOREM WardsApprovedComplete == Spec => []WardApprovedComplete
<1>1. IInv => WardApprovedComplete
  BY DEF IInv
<1>2. QED BY Invariance, <1>1, PTL

(* A ward's total is that of its approved polling units after every handler. *)
THEOREM WardTalliesFaithful == Spec => []WardTallyFaithful
<1>1. IInv => WardTallyFaithful
  BY DEF IInv
<1>2. QED BY Invariance, <1>1, PTL

(* An LGA with an approved ward is approved, with its approved wards' total. *)
THEOREM LgasCountApprovedWards == Spec => []LgaCountsApprovedWards
<1>1. IInv => LgaCountsApprovedWards
  BY DEF IInv
<1>2. QED BY Invariance, <1>1, PTL

-----------------------------------------------------------------------------
(* A returned unit, and its ward, as ApprovedPuReopensOnlyInReturnedWard   *)
(* has them.                                                               *)
Reopened(p) ==
    /\ rows'[p].status = "REJECTED"
    /\ rows'[p].tally = rows[p].tally
    /\ rows[Parent[p]].status = "REJECTED"
    /\ rows'[Parent[p]].status = "REJECTED"

LEMMA ApprovedPuStep ==
    ASSUME IInv, [Next]_vars, NEW p \in PollingUnits,
           rows[p].status = "APPROVED", rows'[p] # rows[p]
    PROVE  Reopened(p)
<1>1. TypeOK /\ FlagsInWard
  BY DEF IInv
<1>2. p \in Unit /\ p \notin Wards /\ p \notin Lgas
  BY UnitClasses
<1>3. CASE UNCHANGED vars
  BY <1>3 DEF vars
<1>4. ASSUME NEW u \in Unit, NEW fig \in Figures, NEW photo \in BOOLEAN,
             UpsertResult(u, fig, photo)
      PROVE  FALSE
  BY <1>1, <1>2, <1>4, UpsertEffect
<1>5. ASSUME NEW u \in Unit, AttachEc8aPhoto(u)
      PROVE  FALSE
  BY <1>1, <1>2, <1>5, AttachEffect DEF EditableStatuses
<1>6. ASSUME NEW u \in Unit, SubmitResult(u)
      PROVE  FALSE
  BY <1>1, <1>2, <1>6, SubmitEffect DEF EditableStatuses
<1>7. ASSUME NEW c \in DOMAIN Parent, ApproveResult(c)
      PROVE  FALSE
  <2>1. Parent[c] # p /\ c \in DOMAIN Parent
    BY Tree
  <2>2. /\ \A v \in Unit : v # c /\ v # Parent[c] => rows'[v] = rows[v]
        /\ rows[c].status = "SUBMITTED"
    BY <1>1, <1>7, ApproveEffect
  <2> QED BY <1>2, <2>1, <2>2
<1>8. ASSUME NEW l \in Lgas, ApproveAllLgaWardResults(l)
      PROVE  FALSE
  BY <1>1, <1>2, <1>8, ApproveAllEffect
<1>9. ASSUME NEW c \in DOMAIN Parent, NEW flags \in SUBSET Children(c), RejectResult(c, flags)
      PROVE  Reopened(p)
  <2>1. p = c
    <3>1. Parent[c] # p
      BY Tree
    <3>2. \A v \in Unit : v # c /\ v # Parent[c] => rows'[v] = rows[v]
      BY <1>1, <1>9, RejectEffect
    <3> QED BY <1>2, <3>1, <3>2
  <2> QED BY <1>1, <1>9, <2>1, RejectEffect DEF Reopened
<1>10. ASSUME NEW w \in Wards, ResubmitWardToLga(w)
       PROVE  FALSE
  BY <1>1, <1>2, <1>10, ResubmitEffect
<1>11. ASSUME NEW w \in Wards, ReturnLgaFlaggedPus(w)
       PROVE  Reopened(p)
  <2> DEFINE toReturn == {q \in rows[w].flagged : rows[q].status \in {"APPROVED", "SUBMITTED"}}
  <2>1. /\ toReturn \subseteq Children(w)
        /\ \A v \in Unit : v \notin toReturn /\ v # w => rows'[v] = rows[v]
        /\ \A q \in toReturn : rows'[q].status = "REJECTED" /\ rows'[q].tally = rows[q].tally
        /\ rows[w].status = "REJECTED" /\ rows'[w].status = "REJECTED"
    BY <1>1, <1>11, ReturnFlaggedEffect
  <2> HIDE DEF toReturn
  <2>2. p \in toReturn /\ Parent[p] = w
    BY <1>2, <2>1, Tree
  <2> QED BY <2>1, <2>2 DEF Reopened
<1> QED BY <1>3, <1>4, <1>5, <1>6, <1>7, <1>8, <1>9, <1>10, <1>11 DEF Next

(* An approved polling unit only changes by being returned, with its       *)
(* figures, in a ward that is and stays returned (rejectResult 1145-1158). *)
THEOREM ApprovedPusReopenInReturnedWards == Spec => ApprovedPuReopensOnlyInReturnedWard
<1>1. IInv /\ [Next]_vars =>
        [\A p \in PollingUnits :
            rows[p].status = "APPROVED" /\ rows'[p] # rows[p] =>
               /\ rows'[p].status = "REJECTED"
               /\ rows'[p].tally = rows[p].tally
               /\ rows[Parent[p]].status = "REJECTED"
               /\ rows'[Parent[p]].status = "REJECTED"]_vars
  BY ApprovedPuStep DEF Reopened
<1> QED BY <1>1, Invariance, PTL DEF Spec, ApprovedPuReopensOnlyInReturnedWard

-----------------------------------------------------------------------------
(***************************************************************************)
(* How a step treats the trail of a unit: nothing of it, an entry about    *)
(* its new status, a draft typed, or a ward whose rollup forwards it.      *)
(***************************************************************************)
Left(u)  == rows'[u].status = rows[u].status /\ lastLog'[u] = lastLog[u]
Told(u)  == /\ lastLog'[u] = [from |-> rows[u].status, to |-> rows'[u].status]
            /\ rows'[u].status \in {"SUBMITTED", "APPROVED", "REJECTED"}
Drafted(u) == /\ rows'[u].status = "DRAFT"
              /\ rows[u].status \in {"DRAFT", "REJECTED", "NONE"}
              /\ lastLog'[u] = lastLog[u]
RolledUp(u) == rows'[u].status \notin {"APPROVED", "REJECTED"} /\ lastLog'[u] = lastLog[u]

Trail ==
    /\ \A p \in PollingUnits : Left(p) \/ Told(p) \/ Drafted(p)
    /\ \A w \in Wards : Left(w) \/ Told(w) \/ RolledUp(w)

LEMMA UpsertTrail ==
    ASSUME TypeOK, NEW u \in Unit, NEW fig \in Figures, NEW photo \in BOOLEAN,
           UpsertResult(u, fig, photo)
    PROVE  Trail
<1>1. lastLog' = lastLog
  BY DEF UpsertResult
<1>2. /\ \A v \in Unit : v # u => rows'[v] = rows[v]
      /\ rows'[u].status = "DRAFT" /\ u \notin Wards
      /\ rows[u].status \in {"DRAFT", "REJECTED", "NONE"}
  BY UpsertEffect
<1>3. Drafted(u)
  BY <1>1, <1>2 DEF Drafted
<1>4. \A v \in Unit : v # u => Left(v)
  BY <1>1, <1>2 DEF Left
<1> QED BY <1>2, <1>3, <1>4, UnitClasses DEF Trail

LEMMA AttachTrail ==
    ASSUME TypeOK, NEW u \in Unit, AttachEc8aPhoto(u)
    PROVE  Trail
<1>1. lastLog' = lastLog
  BY DEF AttachEc8aPhoto
<1>2. rows[u] \in Row
  BY DEF TypeOK
<1>3. rows'[u].status = rows[u].status
  BY <1>2, AttachEffect DEF Row
<1>4. \A v \in Unit : v # u => rows'[v] = rows[v]
  BY AttachEffect
<1>5. \A v \in Unit : Left(v)
  BY <1>1, <1>3, <1>4 DEF Left
<1> QED BY <1>5, UnitClasses DEF Trail

LEMMA SubmitTrail ==
    ASSUME TypeOK, NEW u \in Unit, SubmitResult(u)
    PROVE  Trail
<1>1. /\ \A v \in Unit : v # u => rows'[v] = rows[v]
      /\ rows'[u] = [rows[u] EXCEPT !.status = "SUBMITTED", !.reason = FALSE]
  BY SubmitEffect
<1>2. rows[u] \in Row
  BY DEF TypeOK
<1>3. rows'[u].status = "SUBMITTED"
  BY <1>1, <1>2 DEF Row
<1>4. /\ \A v \in Unit : v # u => lastLog'[v] = lastLog[v]
      /\ lastLog'[u] = [from |-> rows[u].status, to |-> "SUBMITTED"]
  BY DEF SubmitResult, WriteActionLog
<1> QED BY <1>1, <1>3, <1>4, UnitClasses DEF Trail, Left, Told

LEMMA ApproveTrail ==
    ASSUME TypeOK, NEW c \in DOMAIN Parent, ApproveResult(c)
    PROVE  Trail
<1>1. /\ \A v \in Unit : v # c /\ v # Parent[c] => rows'[v] = rows[v]
      /\ rows'[c].status = "APPROVED"
      /\ rows'[Parent[c]].status = RollupStatus(Parent[c])
  BY ApproveEffect
<1>2. c \in Unit /\ Parent[c] # c /\ Parent[c] \notin PollingUnits
  BY Tree
<1>3. /\ \A v \in Unit : v # c => lastLog'[v] = lastLog[v]
      /\ lastLog'[c] = [from |-> rows[c].status, to |-> "APPROVED"]
  BY <1>2 DEF ApproveResult, WriteActionLog
<1>4. Parent[c] \in Wards => RolledUp(Parent[c])
  BY <1>1, <1>2, <1>3, UnitClasses DEF RolledUp, RollupStatus, Wards
<1>5. Told(c)
  BY <1>1, <1>3 DEF Told
<1>6. \A v \in Unit : v # c /\ v # Parent[c] => Left(v)
  BY <1>1, <1>3 DEF Left
<1> QED BY <1>2, <1>4, <1>5, <1>6, UnitClasses DEF Trail

LEMMA ApproveAllTrail ==
    ASSUME TypeOK, NEW l \in Lgas, ApproveAllLgaWardResults(l)
    PROVE  Trail
<1> DEFINE pending == {w \in Children(l) : rows[w].status = "SUBMITTED"}
<1>1. /\ \A v \in Unit : v \notin pending /\ v # l => rows'[v] = rows[v]
      /\ \A w \in pending : rows'[w] = [rows[w] EXCEPT !.status = "APPROVED"]
  BY ApproveAllEffect
<1>2. \A w \in pending : w \in Unit /\ rows[w] \in Row
  BY Tree DEF TypeOK
<1>3. WriteActionLog(pending, "APPROVED")
  BY DEF ApproveAllLgaWardResults
<1> HIDE DEF pending
<1>4. \A w \in pending : rows'[w].status = "APPROVED"
  BY <1>1, <1>2 DEF Row
<1>5. /\ \A v \in Unit : v \notin pending => lastLog'[v] = lastLog[v]
      /\ \A w \in pending : lastLog'[w] = [from |-> rows[w].status, to |-> "APPROVED"]
  BY <1>2, <1>3 DEF WriteActionLog
<1>6. \A v \in Unit : v \in pending => Told(v)
  BY <1>4, <1>5 DEF Told
<1>7. \A v \in Unit : v \notin pending /\ v # l => Left(v)
  BY <1>1, <1>5 DEF Left
<1>8. ASSUME NEW v \in Unit, v # l PROVE Left(v) \/ Told(v)
  BY <1>6, <1>7, <1>8
<1>9. /\ \A p \in PollingUnits : Left(p) \/ Told(p)
      /\ \A w \in Wards : Left(w) \/ Told(w)
  BY <1>8, UnitClasses
<1> QED BY <1>9 DEF Trail

LEMMA RejectTrail ==
    ASSUME TypeOK, NEW c \in DOMAIN Parent, NEW flags, RejectResult(c, flags)
    PROVE  Trail
<1>1. /\ \A v \in Unit : v # c /\ v # Parent[c] => rows'[v] = rows[v]
      /\ rows'[c].status = "REJECTED"
      /\ \/ rows'[Parent[c]] = rows[Parent[c]]
         \/ /\ rows[Parent[c]].status = "REJECTED"
            /\ rows'[Parent[c]].status = "REJECTED"
  BY RejectEffect
<1>2. c \in Unit
  BY Tree
<1>3. /\ \A v \in Unit : v # c => lastLog'[v] = lastLog[v]
      /\ lastLog'[c] = [from |-> rows[c].status, to |-> "REJECTED"]
  BY <1>2 DEF RejectResult, WriteActionLog
<1>4. Told(c)
  BY <1>1, <1>3 DEF Told
<1>5. rows'[Parent[c]].status = rows[Parent[c]].status
  BY <1>1
<1>6. \A v \in Unit : v # c => Left(v)
  BY <1>1, <1>3, <1>5 DEF Left
<1> QED BY <1>4, <1>6, UnitClasses DEF Trail

LEMMA ResubmitTrail ==
    ASSUME TypeOK, NEW w \in Wards, ResubmitWardToLga(w)
    PROVE  Trail
<1>1. /\ \A v \in Unit : v # w => rows'[v] = rows[v]
      /\ rows'[w].status = "SUBMITTED"
  BY ResubmitEffect
<1>2. /\ \A v \in Unit : v # w => lastLog'[v] = lastLog[v]
      /\ lastLog'[w] = [from |-> rows[w].status, to |-> "SUBMITTED"]
  BY UnitClasses DEF ResubmitWardToLga, WriteActionLog
<1> QED BY <1>1, <1>2, UnitClasses DEF Trail, Told, Left

LEMMA ReturnFlaggedTrail ==
    ASSUME TypeOK, FlagsInWard, NEW w \in Wards, ReturnLgaFlaggedPus(w)
    PROVE  Trail
<1> DEFINE toReturn == {p \in rows[w].flagged : rows[p].status \in {"APPROVED", "SUBMITTED"}}
<1>1. /\ toReturn \subseteq Children(w)
      /\ \A v \in Unit : v \notin toReturn /\ v # w => rows'[v] = rows[v]
      /\ \A p \in toReturn : rows'[p].status = "REJECTED"
      /\ rows'[w].status = rows[w].status
  BY ReturnFlaggedEffect
<1>2. WriteActionLog(toReturn, "REJECTED")
  BY DEF ReturnLgaFlaggedPus
<1> HIDE DEF toReturn
<1>3. w \in Unit /\ w \notin toReturn /\ \A p \in toReturn : p \in Unit
  BY <1>1, Tree, UnitClasses
<1>4. /\ \A v \in Unit : v \notin toReturn => lastLog'[v] = lastLog[v]
      /\ \A p \in toReturn : lastLog'[p] = [from |-> rows[p].status, to |-> "REJECTED"]
  BY <1>2, <1>3 DEF WriteActionLog
<1>5. \A p \in toReturn : Told(p)
  BY <1>1, <1>4 DEF Told
<1>6. \A v \in Unit : v \notin toReturn => Left(v)
  BY <1>1, <1>3, <1>4 DEF Left
<1> QED BY <1>5, <1>6, UnitClasses DEF Trail

LEMMA NextTrail == TypeOK /\ FlagsInWard /\ [Next]_vars => Trail
<1> SUFFICES ASSUME TypeOK, FlagsInWard, [Next]_vars
             PROVE  Trail
  OBVIOUS
<1>1. CASE UNCHANGED vars
  BY <1>1 DEF vars, Trail, Left
<1>2. ASSUME NEW u \in Unit, NEW fig \in Figures, NEW photo \in BOOLEAN,
             UpsertResult(u, fig, photo)
      PROVE  Trail
  BY <1>2, UpsertTrail
<1>9. ASSUME NEW u \in Unit, AttachEc8aPhoto(u) PROVE Trail
  BY <1>9, AttachTrail
<1>3. ASSUME NEW u \in Unit, SubmitResult(u) PROVE Trail
  BY <1>3, SubmitTrail
<1>4. ASSUME NEW c \in DOMAIN Parent, ApproveResult(c) PROVE Trail
  BY <1>4, ApproveTrail
<1>5. ASSUME NEW c \in DOMAIN Parent, NEW flags \in SUBSET Children(c), RejectResult(c, flags)
      PROVE  Trail
  BY <1>5, RejectTrail
<1>6. ASSUME NEW l \in Lgas, ApproveAllLgaWardResults(l) PROVE Trail
  BY <1>6, ApproveAllTrail
<1>7. ASSUME NEW w \in Wards, ResubmitWardToLga(w) PROVE Trail
  BY <1>7, ResubmitTrail
<1>8. ASSUME NEW w \in Wards, ReturnLgaFlaggedPus(w) PROVE Trail
  BY <1>8, ReturnFlaggedTrail
<1> QED BY <1>1, <1>2, <1>3, <1>4, <1>5, <1>6, <1>7, <1>8, <1>9 DEF Next

LEMMA TrailAccounts == AuditTrailAccounts /\ Trail => AuditTrailAccounts'
<1> SUFFICES ASSUME AuditTrailAccounts, Trail
             PROVE  AuditTrailAccounts'
  OBVIOUS
<1>1. ASSUME NEW p \in PollingUnits
      PROVE  IF rows'[p].status = "DRAFT" THEN lastLog'[p].to \in {"NONE", "REJECTED"}
             ELSE lastLog'[p].to = rows'[p].status
  <2>1. Left(p) \/ Told(p) \/ Drafted(p)
    BY DEF Trail
  <2> QED BY <2>1 DEF AuditTrailAccounts, Left, Told, Drafted
<1>2. ASSUME NEW w \in Wards, rows'[w].status \in {"APPROVED", "REJECTED"}
      PROVE  lastLog'[w].to = rows'[w].status
  <2>1. Left(w) \/ Told(w)
    BY <1>2 DEF Trail, RolledUp
  <2> QED BY <1>2, <2>1 DEF AuditTrailAccounts, Left, Told
<1> QED BY <1>1, <1>2 DEF AuditTrailAccounts

(* The latest entry about a unit accounts for its status, whatever orders  *)
(* the handlers are called in (writeActionLog 1693).                       *)
THEOREM TrailsAccount == Spec => []AuditTrailAccounts
<1>1. Init => AuditTrailAccounts
  BY UnitClasses DEF Init, Absent, NoLog, AuditTrailAccounts
<1>2. IInv => TypeOK /\ FlagsInWard
  BY DEF IInv
<1> QED BY <1>1, <1>2, Invariance, NextTrail, TrailAccounts, PTL DEF Spec

(* Each entry about a polling unit starts where the one before it ended,   *)
(* but for a draft typed in between.                                       *)
THEOREM TrailsContinue == Spec => AuditTrailContinuous
<1>1. AuditTrailAccounts /\ Trail =>
        [\A p \in PollingUnits :
           lastLog'[p] # lastLog[p] =>
              \/ lastLog'[p].from = lastLog[p].to
              \/ lastLog'[p].from = "DRAFT" /\ lastLog[p].to \in {"NONE", "REJECTED"}]_vars
  <2> SUFFICES ASSUME AuditTrailAccounts, Trail, NEW p \in PollingUnits,
                      lastLog'[p] # lastLog[p]
               PROVE  \/ lastLog'[p].from = lastLog[p].to
                      \/ lastLog'[p].from = "DRAFT" /\ lastLog[p].to \in {"NONE", "REJECTED"}
    OBVIOUS
  <2>1. Told(p)
    BY DEF Trail, Left, Drafted
  <2>2. IF rows[p].status = "DRAFT" THEN lastLog[p].to \in {"NONE", "REJECTED"}
        ELSE lastLog[p].to = rows[p].status
    BY DEF AuditTrailAccounts
  <2> QED BY <2>1, <2>2 DEF Told
<1>2. IInv => TypeOK /\ FlagsInWard
  BY DEF IInv
<1> QED BY <1>1, <1>2, Invariance, TrailsAccount, NextTrail, PTL DEF Spec, AuditTrailContinuous

-----------------------------------------------------------------------------
(***************************************************************************)
(* The handlers, run one after the other, implement Certification: the     *)
(* figures of a ward are certified once, complete, and for good, and an    *)
(* LGA publishes what is certified.                                        *)
(***************************************************************************)

(* The wards a step approves. *)
NewlyApproved == {w \in Wards : rows[w].status # "APPROVED" /\ rows'[w].status = "APPROVED"}

(* A step leaves approved wards alone, and approves wards of one LGA only. *)
ApprovalsOfOneLga ==
    /\ \A w \in Wards : rows[w].status = "APPROVED" =>
          rows'[w].status = "APPROVED" /\ rows'[w].tally = rows[w].tally
    /\ \/ NewlyApproved = {}
       \/ \E l \in Lgas : NewlyApproved \subseteq Children(l)

-----------------------------------------------------------------------------
LEMMA UpsertApprovals ==
    ASSUME IInv, NEW u \in Unit, NEW fig \in Figures, NEW photo \in BOOLEAN,
           UpsertResult(u, fig, photo)
    PROVE  ApprovalsOfOneLga
<1>1. \A w \in Wards : rows'[w] = rows[w]
  BY UpsertEffect, UnitClasses DEF IInv
<1> QED BY <1>1 DEF ApprovalsOfOneLga, NewlyApproved

LEMMA AttachApprovals ==
    ASSUME IInv, NEW u \in Unit, AttachEc8aPhoto(u)
    PROVE  ApprovalsOfOneLga
<1>1. /\ \A v \in Unit : v # u => rows'[v] = rows[v]
      /\ rows'[u] = [rows[u] EXCEPT !.photo = TRUE]
      /\ rows[u].status \in EditableStatuses
      /\ rows[u] \in Row
  BY AttachEffect DEF IInv, TypeOK
<1>2. rows'[u].status = rows[u].status /\ rows[u].status # "APPROVED"
  BY <1>1 DEF Row, EditableStatuses
<1> QED BY <1>1, <1>2, UnitClasses DEF ApprovalsOfOneLga, NewlyApproved

LEMMA SubmitApprovals ==
    ASSUME IInv, NEW u \in Unit, SubmitResult(u)
    PROVE  ApprovalsOfOneLga
<1>1. \A w \in Wards : rows'[w] = rows[w]
  BY SubmitEffect, UnitClasses DEF IInv
<1> QED BY <1>1 DEF ApprovalsOfOneLga, NewlyApproved

(* A unit awaiting approval is in no approved ward, so its rollup undoes none. *)
LEMMA ApproveApprovals ==
    ASSUME IInv, NEW c \in DOMAIN Parent, ApproveResult(c)
    PROVE  ApprovalsOfOneLga
<1>1. /\ \A v \in Unit : v # c /\ v # Parent[c] => rows'[v] = rows[v]
      /\ rows[c].status = "SUBMITTED"
      /\ rows'[c].status = "APPROVED"
      /\ rows'[Parent[c]].status = RollupStatus(Parent[c])
  BY ApproveEffect DEF IInv
<1>2. CASE c \in PollingUnits
  <2>1. Parent[c] \in Wards /\ c \in Children(Parent[c]) /\ c \notin Wards
    BY <1>2, Tree, UnitClasses
  <2>2. rows[Parent[c]].status # "APPROVED"
    BY <1>1, <2>1 DEF IInv, WardApprovedComplete, AllPollingUnitsApproved
  <2>3. rows'[Parent[c]].status = "SUBMITTED"
    BY <1>1, <2>1 DEF RollupStatus, Wards
  <2> QED BY <1>1, <2>1, <2>2, <2>3, UnitClasses DEF ApprovalsOfOneLga, NewlyApproved
<1>3. CASE c \in Wards
  <2>1. Parent[c] \in Lgas /\ Parent[c] \notin Wards /\ c \in Children(Parent[c])
    BY <1>3, Tree, UnitClasses
  <2>2. NewlyApproved = {c}
    BY <1>1, <1>3, <2>1, UnitClasses DEF NewlyApproved
  <2> QED BY <1>1, <1>3, <2>1, <2>2, UnitClasses DEF ApprovalsOfOneLga
<1>4. CASE c \notin PollingUnits /\ c \notin Wards
  <2>1. Parent[c] \notin Wards
    BY <1>4, Tree
  <2> QED BY <1>1, <1>4, <2>1, UnitClasses DEF ApprovalsOfOneLga, NewlyApproved
<1> QED BY <1>2, <1>3, <1>4

LEMMA ApproveAllApprovals ==
    ASSUME IInv, NEW l \in Lgas, ApproveAllLgaWardResults(l)
    PROVE  ApprovalsOfOneLga
<1> DEFINE pending == {w \in Children(l) : rows[w].status = "SUBMITTED"}
<1>1. \A v \in Unit : v \notin pending /\ v # l => rows'[v] = rows[v]
  BY ApproveAllEffect DEF IInv
<1>2. l \notin Wards
  BY UnitClasses
<1>3. \A w \in Wards \ pending : rows'[w] = rows[w]
  BY <1>1, <1>2, UnitClasses
<1> QED BY <1>3 DEF ApprovalsOfOneLga, NewlyApproved

LEMMA RejectApprovals ==
    ASSUME IInv, NEW c \in DOMAIN Parent, NEW flags, RejectResult(c, flags)
    PROVE  ApprovalsOfOneLga
<1>1. /\ \A v \in Unit : v # c /\ v # Parent[c] => rows'[v] = rows[v]
      /\ rows'[c].status = "REJECTED"
      /\ \/ rows[c].status = "SUBMITTED" /\ rows'[Parent[c]] = rows[Parent[c]]
         \/ /\ c \in PollingUnits
            /\ rows[Parent[c]].status = "REJECTED"
            /\ rows'[Parent[c]].status = "REJECTED"
  BY RejectEffect DEF IInv
<1>2. c \in Wards => rows[c].status = "SUBMITTED"
  BY <1>1, UnitClasses
<1> QED BY <1>1, <1>2, Tree, UnitClasses DEF ApprovalsOfOneLga, NewlyApproved

LEMMA ResubmitApprovals ==
    ASSUME IInv, NEW w \in Wards, ResubmitWardToLga(w)
    PROVE  ApprovalsOfOneLga
<1>1. /\ \A v \in Unit : v # w => rows'[v] = rows[v]
      /\ rows[w].status = "REJECTED" /\ rows'[w].status = "SUBMITTED"
  BY ResubmitEffect DEF IInv
<1> QED BY <1>1, UnitClasses DEF ApprovalsOfOneLga, NewlyApproved

LEMMA ReturnFlaggedApprovals ==
    ASSUME IInv, NEW w \in Wards, ReturnLgaFlaggedPus(w)
    PROVE  ApprovalsOfOneLga
<1> DEFINE toReturn == {p \in rows[w].flagged : rows[p].status \in {"APPROVED", "SUBMITTED"}}
<1>1. /\ toReturn \subseteq Children(w)
      /\ \A v \in Unit : v \notin toReturn /\ v # w => rows'[v] = rows[v]
      /\ rows[w].status = "REJECTED" /\ rows'[w].status = "REJECTED"
  BY ReturnFlaggedEffect DEF IInv
<1> HIDE DEF toReturn
<1>2. \A v \in Wards : v \notin toReturn
  BY <1>1, Tree, UnitClasses
<1> QED BY <1>1, <1>2, UnitClasses DEF ApprovalsOfOneLga, NewlyApproved

LEMMA StepApprovals == IInv /\ [Next]_vars => ApprovalsOfOneLga
<1> SUFFICES ASSUME IInv, [Next]_vars
             PROVE  ApprovalsOfOneLga
  OBVIOUS
<1>1. CASE UNCHANGED vars
  BY <1>1 DEF vars, ApprovalsOfOneLga, NewlyApproved
<1>2. CASE Next
  BY <1>2, UpsertApprovals, AttachApprovals, SubmitApprovals, ApproveApprovals,
     RejectApprovals, ApproveAllApprovals, ResubmitApprovals, ReturnFlaggedApprovals
     DEF Next
<1> QED BY <1>1, <1>2

-----------------------------------------------------------------------------
(* What certified and published are in a state with rows rs. *)
CertifiedIn(rs) ==
    [w \in Wards |-> IF rs[w].status = "APPROVED" THEN rs[w].tally ELSE {}]
PublishedIn(rs) ==
    [l \in Lgas |-> IF ApprovedChildren(rs, l) # {} THEN rs[l].tally ELSE {}]

LEMMA UnitsOfWard == \A w \in Wards : Cert!UnitsOf(w) = Children(w)
BY Tree DEF Cert!UnitsOf, Children

(* The total of an approved ward has one figure of each of its units. *)
LEMMA ApprovedComplete ==
    ASSUME NEW rs, Sound(rs), NEW w \in Wards, rs[w].status = "APPROVED"
    PROVE  /\ Children(w) # {}
           /\ Cert!Complete(rs[w].tally, Children(w))
           /\ rs[w].tally \subseteq PollingUnits \X Figures
<1>1. /\ AllPollingUnitsApproved(rs, w)
      /\ rs[w].tally = AggregateTally(rs, w)
  BY DEF Sound, WardSound
<1>2. \A p \in Children(w) :
         /\ p \in PollingUnits
         /\ rs[p].status = "APPROVED"
         /\ \E fig \in Figures : rs[p].tally = {<<p, fig>>}
  BY <1>1, Tree DEF AllPollingUnitsApproved, Sound, PuSound
<1> DEFINE f == [p \in Children(w) |-> CHOOSE fig \in Figures : rs[p].tally = {<<p, fig>>}]
<1>3. \A p \in Children(w) : f[p] \in Figures /\ rs[p].tally = {<<p, f[p]>>}
  BY <1>2
<1>4. f \in [Children(w) -> Figures]
  BY <1>3
<1> HIDE DEF f
<1>5. ApprovedChildren(rs, w) = Children(w)
  BY <1>2 DEF ApprovedChildren
<1>6. rs[w].tally = {<<p, f[p]>> : p \in Children(w)}
  BY <1>1, <1>3, <1>5 DEF AggregateTally
<1>7. rs[w].tally \subseteq PollingUnits \X Figures
  BY <1>2, <1>3, <1>6
<1> QED BY <1>1, <1>4, <1>6, <1>7 DEF Cert!Complete, AllPollingUnitsApproved

(* An LGA publishes what its wards have certified. *)
LEMMA PublishedIsCertified ==
    ASSUME NEW rs, Sound(rs), NEW l \in Lgas
    PROVE  PublishedIn(rs)[l] = UNION {CertifiedIn(rs)[w] : w \in Children(l)}
<1>1. Children(l) \subseteq Wards
  BY Tree
<1>2. UNION {CertifiedIn(rs)[w] : w \in Children(l)} = AggregateTally(rs, l)
  BY <1>1 DEF CertifiedIn, AggregateTally, ApprovedChildren
<1>3. ApprovedChildren(rs, l) = {} => AggregateTally(rs, l) = {}
  BY DEF AggregateTally
<1>4. ApprovedChildren(rs, l) # {} => rs[l].tally = AggregateTally(rs, l)
  BY DEF Sound, LgaSound
<1> QED BY <1>2, <1>3, <1>4 DEF PublishedIn

(* A step certifies the wards it approves, or certifies nothing. *)
LEMMA CertifyStep ==
    IInv /\ IInv' /\ ApprovalsOfOneLga => Cert!Next \/ UNCHANGED Cert!vars
<1> SUFFICES ASSUME IInv, IInv', ApprovalsOfOneLga
             PROVE  Cert!Next \/ UNCHANGED Cert!vars
  OBVIOUS
<1> DEFINE C0 == CertifiedIn(rows)
           C1 == CertifiedIn(rows')
           P0 == PublishedIn(rows)
           P1 == PublishedIn(rows')
           W  == NewlyApproved
<1>1. Sound(rows) /\ Sound(rows')
  BY IInvSound
<1>2. certified = C0 /\ certified' = C1 /\ published = P0 /\ published' = P1
  BY DEF certified, published, CertifiedIn, PublishedIn
<1>3. /\ W \subseteq Wards
      /\ \A w \in W : C0[w] = {} /\ C1[w] = rows'[w].tally
      /\ \A w \in Wards \ W : C1[w] = C0[w]
  BY DEF ApprovalsOfOneLga, NewlyApproved, CertifiedIn
<1>4. \A w \in W : /\ Children(w) # {}
                   /\ Cert!Complete(C1[w], Children(w))
  BY <1>1, <1>3, ApprovedComplete DEF NewlyApproved
<1>5. C1 \in [Wards -> SUBSET (PollingUnits \X Figures)]
  BY <1>1, ApprovedComplete DEF CertifiedIn
<1>6. \A l \in Lgas : /\ P0[l] = UNION {C0[w] : w \in Children(l)}
                      /\ P1[l] = UNION {C1[w] : w \in Children(l)}
                      /\ Children(l) \subseteq Wards
  BY <1>1, PublishedIsCertified, Tree
<1>7. P0 = [l \in Lgas |-> P0[l]] /\ P1 = [l \in Lgas |-> P1[l]]
  BY DEF PublishedIn
<1>8. C0 = [w \in Wards |-> C0[w]] /\ C1 = [w \in Wards |-> C1[w]]
  BY DEF CertifiedIn
<1>9. W = {} \/ \E l \in Lgas : W \subseteq Children(l)
  BY DEF ApprovalsOfOneLga
<1> HIDE DEF C0, C1, P0, P1, W
<1>10. CASE W = {}
  <2>1. C1 = C0
    BY <1>3, <1>8, <1>10
  <2>2. P1 = P0
    BY <1>6, <1>7, <2>1
  <2> QED BY <1>2, <2>1, <2>2 DEF Cert!vars
<1>11. CASE W # {}
  <2>1. PICK l \in Lgas : W \subseteq Children(l)
    BY <1>9, <1>11
  <2>2. \A w \in W : Parent[w] = l
    BY <2>1 DEF Children
  <2>3. P1[l] = P0[l] \union UNION {C1[w] : w \in W}
    <3>1. \A w \in Children(l) : IF w \in W THEN C0[w] = {} ELSE C1[w] = C0[w]
      BY <1>3, <1>6
    <3> QED BY <1>6, <2>1, <3>1
  <2>4. ASSUME NEW m \in Lgas, m # l
        PROVE  P1[m] = P0[m]
    <3>1. \A w \in Children(m) : C1[w] = C0[w]
      BY <1>3, <1>6, <2>2, <2>4 DEF Children
    <3>2. {C1[w] : w \in Children(m)} = {C0[w] : w \in Children(m)}
      BY <3>1
    <3> QED BY <1>6, <3>2
  <2>5. P1 = [P0 EXCEPT ![l] = @ \union UNION {C1[w] : w \in W}]
    BY <1>7, <2>3, <2>4
  <2>6. Cert!Certify(l, W)
    BY <1>2, <1>3, <1>4, <1>5, <1>11, <2>2, <2>5, UnitsOfWard DEF Cert!Certify
  <2> QED BY <1>3, <2>6 DEF Cert!Next
<1> QED BY <1>10, <1>11

LEMMA CertInit == Init => Cert!Init
<1> SUFFICES ASSUME Init PROVE Cert!Init
  OBVIOUS
<1>1. \A u \in Unit : rows[u].status = "NONE"
  BY DEF Init, Absent
<1>2. \A l \in Lgas : ApprovedChildren(rows, l) = {}
  BY <1>1, Tree DEF ApprovedChildren
<1>3. \A w \in Wards : rows[w].status # "APPROVED"
  BY <1>1, UnitClasses
<1> QED BY <1>2, <1>3 DEF Cert!Init, certified, published

(***************************************************************************)
(* The handlers implement Certification, whatever the hierarchy: a ward is *)
(* certified once, complete and for good, and an LGA publishes its         *)
(* certified wards.                                                        *)
(***************************************************************************)
THEOREM ImplementsCertification == Spec => CertifiesOnceAndForGood
<1>1. IInv /\ IInv' /\ [Next]_vars => [Cert!Next]_(Cert!vars)
  BY StepApprovals, CertifyStep
<1> QED BY <1>1, CertInit, Invariance, PTL DEF Spec, CertifiesOnceAndForGood, Cert!Spec

-----------------------------------------------------------------------------
(* Where all units of a ward are approved, the counts say so. *)
LEMMA CountsOfComplete ==
    ASSUME NEW w \in Wards, AllPollingUnitsApproved(rows, w)
    PROVE  /\ Readiness(w).readyForLgaApproval
           /\ Cardinality(Children(w)) > 0
           /\ StatusCounts(w)["APPROVED"] = Cardinality(Children(w))
<1>1. \A p \in Children(w) : Shown(p) = "APPROVED"
  BY DEF AllPollingUnitsApproved, Shown
<1>2. {p \in Children(w) : Shown(p) = "APPROVED"} = Children(w)
  BY <1>1
<1>3. CountOf(Children(w), "APPROVED") = Cardinality(Children(w))
  BY <1>2 DEF CountOf
<1>4. IsFiniteSet(Children(w))
  <2>1. Children(w) \subseteq Unit
    BY Tree DEF Children
  <2> QED BY <2>1, FiniteAssumption, FS_Subset
<1>5. Cardinality(Children(w)) > 0
  <2>1. Cardinality(Children(w)) \in Nat /\ Cardinality(Children(w)) # 0
    BY <1>4, FS_CardinalityType, FS_EmptySet DEF AllPollingUnitsApproved
  <2> QED BY <2>1
<1>6. StatusCounts(w)["APPROVED"] = CountOf(Children(w), "APPROVED")
  BY DEF StatusCounts, Status
<1>7. Readiness(w).readyForLgaApproval
  BY <1>3 DEF Readiness, AllPollingUnitsApproved
<1> QED BY <1>3, <1>5, <1>6, <1>7

(* A ward that was forwarded once it had an approved unit is asked about. *)
LEMMA ForwardedIsAsked ==
    ASSUME rows \in [Unit -> Row], WardForwarded
    PROVE  SomebodyIsAsked
<1> SUFFICES ASSUME NEW w \in Wards, Children(w) # {}, Shown(w) # "APPROVED",
                    \A p \in Children(w) : Shown(p) \notin {"NOT_STARTED", "DRAFT", "REJECTED"},
                    PendingApprovals(w) = {}
             PROVE  \/ WardMeta(w).canResubmitToLga
                    \/ w \in PendingApprovals(Parent[w]) /\ Readiness(w).readyForLgaApproval
  BY DEF SomebodyIsAsked
<1>1. \A p \in Children(w) : rows[p].status = "APPROVED"
  <2>1. \A p \in Children(w) : rows[p].status \in Status \union {"NONE"}
    BY Tree DEF Row
  <2> QED BY <2>1 DEF PendingApprovals, Shown, Status
<1>2. AllPollingUnitsApproved(rows, w)
  BY <1>1 DEF AllPollingUnitsApproved
<1>3. rows[w].status \in {"SUBMITTED", "REJECTED"}
  BY <1>1 DEF WardForwarded, ApprovedChildren, Shown
<1>4. /\ Readiness(w).readyForLgaApproval
      /\ Cardinality(Children(w)) > 0
      /\ StatusCounts(w)["APPROVED"] = Cardinality(Children(w))
  BY <1>2, CountsOfComplete
<1>5. CASE rows[w].status = "SUBMITTED"
  BY <1>4, <1>5, Tree DEF PendingApprovals, Shown
<1>6. CASE rows[w].status = "REJECTED"
  BY <1>4, <1>6 DEF WardMeta, Shown
<1> QED BY <1>3, <1>5, <1>6
=============================================================================
