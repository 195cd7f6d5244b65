------------------------- MODULE CollationAsyncProofs -------------------------
(***************************************************************************)
(* Theorems about the handlers of the collation split at their awaits, for *)
(* every hierarchy and any number of sessions of each office.              *)
(*                                                                         *)
(* Where requests overlap, a request takes nothing for granted of what it  *)
(* read (Carries).  Still no ward is left on nobody's screen: a ward that  *)
(* was forwarded stays so through every write, and one that was not has no *)
(* approved unit, or is owed a recount.                                    *)
(*                                                                         *)
(* Where requests do not overlap, all that happened since the lone request *)
(* came in is known from the call it makes next (UnderWay); each call      *)
(* carries that on, and with the last one it is a step of Collation.       *)
(***************************************************************************)
EXTENDS CollationAsyncProperties, CollationOneAtATime, CollationProofs

(* What a step of request r comes to. *)
Outcome(r) ==
    /\ rows' \in [Unit -> Row]
    /\ FlagsInWard'
    /\ DOMAIN req' = Client
    /\ \A s \in Client : s # r => req'[s] = req[s]
    /\ Carries(OfficerOf[r], req'[r])
    /\ \A w \in Wards :
          /\ Forwarded(rows, w) => Forwarded(rows', w)
          /\ w \in req[r].owes =>
                \/ w \in req'[r].owes \/ Forwarded(rows', w)
                \/ ApprovedChildren(rows', w) = {}
          /\ ApprovedChildren(rows', w) # {} =>
                \/ ApprovedChildren(rows, w) # {} \/ w \in req'[r].owes

LEMMA Continued ==
    ASSUME AsyncIInv, NEW r \in Client, NEW q, Continue(r, q)
    PROVE  /\ DOMAIN req' = Client /\ req'[r] = q
           /\ \A s \in Client : s # r => req'[s] = req[s]
BY DEF AsyncIInv, Continue

(* A call that only reads; it may find that a recount has nothing to count. *)
LEMMA ReadOutcome ==
    ASSUME AsyncIInv, NEW r \in Client, NEW q, Reads, Continue(r, q),
           Carries(OfficerOf[r], q),
           \A w \in Wards : w \in req[r].owes =>
              w \in q.owes \/ ApprovedChildren(rows, w) = {}
    PROVE  Outcome(r)
<1>1. rows' = rows
  BY DEF Reads
<1>2. rows' \in [Unit -> Row] /\ FlagsInWard'
  BY <1>1 DEF AsyncIInv, FlagsInWard
<1> QED BY <1>1, <1>2, Continued DEF Outcome

(* A call that writes: wards are forwarded or stay as they are, and no unit *)
(* is approved without a recount being owed to its ward.                    *)
LEMMA WriteOutcome ==
    ASSUME AsyncIInv, NEW r \in Client, NEW q, Continue(r, q), Carries(OfficerOf[r], q),
           rows' \in [Unit -> Row],
           \A v \in Unit : rows'[v].flagged \subseteq Children(v),
           \A w \in Wards : rows'[w].status = rows[w].status \/ Forwarded(rows', w),
           \A p \in PollingUnits : rows'[p].status = "APPROVED" =>
              rows[p].status = "APPROVED" \/ Parent[p] \in q.owes,
           \A w \in Wards : w \in req[r].owes => w \in q.owes \/ Forwarded(rows', w)
    PROVE  Outcome(r)
<1>1. FlagsInWard'
  BY DEF FlagsInWard
<1>2. \A w \in Wards : Forwarded(rows, w) => Forwarded(rows', w)
  BY DEF Forwarded
<1>3. ASSUME NEW w \in Wards, ApprovedChildren(rows', w) # {}
      PROVE  ApprovedChildren(rows, w) # {} \/ w \in q.owes
  <2>1. PICK p \in Children(w) : rows'[p].status = "APPROVED"
    BY <1>3 DEF ApprovedChildren
  <2>2. p \in PollingUnits /\ Parent[p] = w
    BY Tree
  <2>3. rows[p].status = "APPROVED" \/ w \in q.owes
    BY <2>1, <2>2
  <2> QED BY <2>3 DEF ApprovedChildren
<1> QED BY <1>1, <1>2, <1>3, Continued DEF Outcome

(* The same where the row of v alone is written. *)
LEMMA RowOutcome ==
    ASSUME AsyncIInv, NEW r \in Client, NEW q, Continue(r, q), Carries(OfficerOf[r], q),
           NEW v \in Unit, NEW row \in Row, rows' = [rows EXCEPT ![v] = row],
           row.flagged \subseteq Children(v),
           v \in Wards => row.status = rows[v].status \/ row.status \in {"SUBMITTED", "APPROVED", "REJECTED"},
           v \in PollingUnits /\ row.status = "APPROVED" =>
              rows[v].status = "APPROVED" \/ Parent[v] \in q.owes,
           \A w \in Wards : w \in req[r].owes => w \in q.owes \/ Forwarded(rows', w)
    PROVE  Outcome(r)
<1>1. /\ rows \in [Unit -> Row] /\ \A x \in Unit : rows[x].flagged \subseteq Children(x)
  BY DEF AsyncIInv, FlagsInWard
<1>2. /\ rows' \in [Unit -> Row] /\ rows'[v] = row
      /\ \A x \in Unit : x # v => rows'[x] = rows[x]
  BY <1>1
<1>3. \A x \in Unit : rows'[x].flagged \subseteq Children(x)
  BY <1>1, <1>2
<1>4. \A w \in Wards : rows'[w].status = rows[w].status \/ Forwarded(rows', w)
  BY <1>2, UnitClasses DEF Forwarded
<1>5. \A p \in PollingUnits : rows'[p].status = "APPROVED" =>
         rows[p].status = "APPROVED" \/ Parent[p] \in q.owes
  BY <1>2, UnitClasses
<1> QED BY <1>2, <1>3, <1>4, <1>5, WriteOutcome

(* A request without a recount to make. *)
LEMMA Owing ==
    ASSUME NEW r \in Client, NEW q, req[r].owes \subseteq q.owes
    PROVE  /\ \A w \in Wards : w \in req[r].owes => w \in q.owes \/ ApprovedChildren(rows, w) = {}
           /\ \A w \in Wards : w \in req[r].owes => w \in q.owes \/ Forwarded(rows', w)
OBVIOUS

-----------------------------------------------------------------------------
(* The first calls of the handlers. *)
LEMMA ArrivesOwing == ASSUME NEW r, MayArrive(r) PROVE req[r].owes = {}
BY DEF MayArrive, Idle

LEMMA EditReads ==
    ASSUME AsyncIInv, NEW r \in Client,
           \/ \E fig \in Figures, photo \in BOOLEAN : UpsertRead(r, fig, photo)
           \/ AttachRead(r)
           \/ SubmitRead(r)
    PROVE  Outcome(r)
<1> DEFINE u == OfficerOf[r]
<1>1. ASSUME NEW fig \in Figures, NEW photo \in BOOLEAN, UpsertRead(r, fig, photo)
      PROVE  Outcome(r)
  <2> DEFINE q == [at |-> "upsert", fig |-> fig, photo |-> photo, owes |-> {}]
  <2>1. MayArrive(r) /\ u \notin Wards /\ Continue(r, q) /\ Reads
    BY <1>1 DEF UpsertRead, Wards
  <2>2. Carries(u, q)
    BY <2>1 DEF Carries, Editing
  <2>3. req[r].owes \subseteq q.owes
    BY <2>1, ArrivesOwing
  <2> QED BY <2>1, <2>2, <2>3, Owing, ReadOutcome
<1>2. CASE AttachRead(r)
  <2> DEFINE q == [at |-> "attach", owes |-> {}]
  <2>1. MayArrive(r) /\ Continue(r, q) /\ Reads
    BY <1>2 DEF AttachRead
  <2>2. Carries(u, q)
    BY DEF Carries
  <2>3. req[r].owes \subseteq q.owes
    BY <2>1, ArrivesOwing
  <2> QED BY <2>1, <2>2, <2>3, Owing, ReadOutcome
<1>3. CASE SubmitRead(r)
  <2> DEFINE q == [at |-> "submit", from |-> rows[u].status, owes |-> {}]
  <2>1. MayArrive(r) /\ u \notin Wards /\ Continue(r, q) /\ Reads
    BY <1>3 DEF SubmitRead, Wards
  <2>2. Carries(u, q)
    BY <2>1 DEF Carries
  <2>3. req[r].owes \subseteq q.owes
    BY <2>1, ArrivesOwing
  <2> QED BY <2>1, <2>2, <2>3, Owing, ReadOutcome
<1> QED BY <1>1, <1>2, <1>3

LEMMA ApprovalReads ==
    ASSUME AsyncIInv, NEW r \in Client,
           (\E c \in DOMAIN Parent : ApproveRead(r, c)) \/ ApproveAllRead(r)
    PROVE  Outcome(r)
<1> DEFINE u == OfficerOf[r]
<1>1. ASSUME NEW c \in DOMAIN Parent, ApproveRead(r, c)
      PROVE  Outcome(r)
  <2> DEFINE approve == [at |-> "approve", unit |-> c, owes |-> {}]
             q == IF LevelOf[c] = "WARD" THEN ReadyCheck({c}, approve) ELSE approve
  <2>1. MayArrive(r) /\ c \in Children(u) /\ Continue(r, q) /\ Reads
    BY <1>1 DEF ApproveRead, Children
  <2>2. Approving(u, approve)
    BY <2>1 DEF Approving
  <2>3. Carries(u, q) /\ q.owes = {}
    BY <2>2 DEF Carries, Checking, ReadyCheck
  <2>4. req[r].owes \subseteq q.owes
    BY <2>1, ArrivesOwing
  <2> HIDE DEF q
  <2> QED BY <2>1, <2>3, <2>4, Owing, ReadOutcome
<1>2. CASE ApproveAllRead(r)
  <2> DEFINE pending == {w \in Children(u) : rows[w].status = "SUBMITTED"}
             all == [at |-> "approveAll", units |-> pending, owes |-> {}]
             q == ReadyCheck(pending, all)
  <2>1. MayArrive(r) /\ u \in Lgas /\ Continue(r, q) /\ Reads
    BY <1>2, ClientAssumption DEF ApproveAllRead, Lgas
  <2>2. Approving(u, all)
    BY <2>1 DEF Approving
  <2>3. Carries(u, q) /\ q.owes = {}
    <3> HIDE DEF all
    <3> QED BY <2>2 DEF Carries, Checking, ReadyCheck
  <2>4. req[r].owes \subseteq q.owes
    BY <2>1, ArrivesOwing
  <2> HIDE DEF q
  <2> QED BY <2>1, <2>3, <2>4, Owing, ReadOutcome
<1> QED BY <1>1, <1>2

LEMMA RestCarries ==
    ASSUME NEW u, NEW P, P \subseteq Children(u), P # {} => u \in Wards
    PROVE  Rest(u, ReturnRest(P)) /\ Carries(u, ReturnRest(P)) /\ ReturnRest(P).owes = {}
BY DEF Rest, Carries, ReturnRest, Idle

(* rejectResult, by itself or as one of a bulk return. *)
LEMMA RejectOutcome ==
    ASSUME AsyncIInv, NEW r \in Client, NEW c \in Children(OfficerOf[r]), NEW flags, NEW P,
           flags \subseteq Children(c), P \subseteq Children(OfficerOf[r]),
           P # {} => OfficerOf[r] \in Wards,
           req[r].owes = {}, Reject(r, c, flags, P), Reads
    PROVE  Outcome(r)
<1> DEFINE u == OfficerOf[r]
           reject(reopened) == [at |-> "reject", unit |-> c, from |-> rows[c].status,
                                flags |-> flags, reopened |-> reopened, rest |-> P,
                                owes |-> {}]
           ask == [at |-> "ask", unit |-> c, owes |-> {}, next |-> reject(TRUE)]
<1>1. \/ Continue(r, reject(FALSE))
      \/ LevelOf[c] = "POLLING_UNIT" /\ Continue(r, ask)
      \/ Continue(r, Idle)
  BY DEF Reject, GiveUp
<1>2. Rejecting(u, reject(FALSE))
  BY DEF Rejecting
<1>3. LevelOf[c] = "POLLING_UNIT" => Rejecting(u, reject(TRUE))
  <2>1. LevelOf[c] = "POLLING_UNIT" => u \in Wards
    BY Tree DEF Children, PollingUnits
  <2> QED BY <2>1 DEF Rejecting
<1>4. Carries(u, reject(FALSE)) /\ Carries(u, Idle)
  BY <1>2 DEF Carries
<1>5. LevelOf[c] = "POLLING_UNIT" => Carries(u, ask)
  BY <1>3 DEF Carries
<1>6. PICK q : Continue(r, q) /\ Carries(u, q)
  <2> HIDE DEF reject, ask
  <2> QED BY <1>1, <1>4, <1>5
<1> QED BY <1>6, Owing, ReadOutcome

LEMMA RejectionReads ==
    ASSUME AsyncIInv, NEW r \in Client,
           \/ \E c \in DOMAIN Parent : \E flags \in SUBSET Children(c) : RejectRead(r, c, flags)
           \/ ReturnNext(r)
    PROVE  Outcome(r)
<1> DEFINE u == OfficerOf[r]
<1>1. ASSUME NEW c \in DOMAIN Parent, NEW flags \in SUBSET Children(c), RejectRead(r, c, flags)
      PROVE  Outcome(r)
  <2>1. MayArrive(r) /\ c \in Children(u) /\ Reject(r, c, flags, {}) /\ Reads
    BY <1>1 DEF RejectRead, Children
  <2> QED BY <2>1, ArrivesOwing, RejectOutcome
<1>2. CASE ReturnNext(r)
  <2>1. PICK p \in req[r].units : Reject(r, p, {}, req[r].units \ {p}) /\ Reads
    BY <1>2 DEF ReturnNext
  <2>2. u \in Wards /\ req[r].units \subseteq Children(u) /\ req[r].owes = {}
    BY <1>2 DEF ReturnNext, AsyncIInv, Carries, Rest, Idle
  <2>3. p \in Children(u) /\ req[r].units \ {p} \subseteq Children(u)
    BY <2>2
  <2> QED BY <2>1, <2>2, <2>3, RejectOutcome
<1> QED BY <1>1, <1>2

LEMMA ReturnedWardReads ==
    ASSUME AsyncIInv, NEW r \in Client, ResubmitRead(r) \/ ReturnRead(r) \/ ReturnFind(r)
    PROVE  Outcome(r)
<1> DEFINE u == OfficerOf[r]
<1>0. u \in Unit
  BY ClientAssumption
<1>1. CASE ResubmitRead(r)
  <2> DEFINE rebuild == RebuildOf(u, TRUE, {}, Log(u, "REJECTED", "SUBMITTED", {}, Idle))
             q == ReadyCheck({u}, rebuild)
  <2>1. MayArrive(r) /\ u \in Wards /\ Continue(r, q) /\ Reads
    BY <1>0, <1>1 DEF ResubmitRead, Wards
  <2>2. rebuild.at = "existing" /\ rebuild.force = TRUE /\ Rebuilding(u, rebuild)
    BY <2>1 DEF Rebuilding, RebuildOf, Log
  <2> HIDE DEF rebuild
  <2>3. Carries(u, q) /\ q.owes = {}
    BY <2>2 DEF Carries, Checking, ReadyCheck
  <2>4. req[r].owes \subseteq q.owes
    BY <2>1, ArrivesOwing
  <2> HIDE DEF q
  <2> QED BY <2>1, <2>3, <2>4, Owing, ReadOutcome
<1>2. CASE ReturnRead(r)
  <2> DEFINE q == [at |-> "find", units |-> rows[u].flagged, owes |-> {}]
  <2>1. MayArrive(r) /\ u \in Wards /\ Continue(r, q) /\ Reads
    BY <1>0, <1>2 DEF ReturnRead, Wards
  <2>2. Carries(u, q)
    BY <1>0, <2>1 DEF Carries, AsyncIInv, FlagsInWard
  <2>3. req[r].owes \subseteq q.owes
    BY <2>1, ArrivesOwing
  <2> HIDE DEF q
  <2> QED BY <2>1, <2>2, <2>3, Owing, ReadOutcome
<1>3. CASE ReturnFind(r)
  <2> DEFINE P == {p \in req[r].units : rows[p].status \in {"APPROVED", "SUBMITTED"}}
             q == ReturnRest(P)
  <2>1. Continue(r, q) /\ Reads /\ req[r].at = "find"
    BY <1>3 DEF ReturnFind
  <2>2. u \in Wards /\ P \subseteq Children(u) /\ req[r].owes = {}
    BY <2>1 DEF AsyncIInv, Carries, Idle
  <2> HIDE DEF P
  <2>3. Carries(u, q) /\ q.owes = {}
    BY <2>2, RestCarries
  <2> HIDE DEF q
  <2> QED BY <2>1, <2>2, <2>3, Owing, ReadOutcome
<1> QED BY <1>1, <1>2, <1>3

-----------------------------------------------------------------------------
(* The calls in between that read, and the log. *)
LEMMA GivesUpOutcome ==
    ASSUME AsyncIInv, NEW r \in Client, GiveUp(r), Reads,
           \A w \in Wards : w \in req[r].owes => ApprovedChildren(rows, w) = {}
    PROVE  Outcome(r)
BY ReadOutcome DEF GiveUp, Carries

LEMMA CheckReads ==
    ASSUME AsyncIInv, NEW r \in Client, Ready(r) \/ RejectAskWard(r)
    PROVE  Outcome(r)
<1> DEFINE u == OfficerOf[r]
<1>1. CASE Ready(r)
  <2>1. PICK w \in req[r].wards :
           /\ Reads
           /\ \/ GiveUp(r) \/ Continue(r, req[r].next)
              \/ Continue(r, ReadyCheck(req[r].wards \ {w}, req[r].next))
    BY <1>1 DEF Ready
  <2>2. Checking(u, req[r]) /\ req[r].owes = {}
    BY <1>1 DEF Ready, AsyncIInv, Carries, Checking, Idle
  <2>3. CASE GiveUp(r)
    BY <2>1, <2>2, <2>3, GivesUpOutcome
  <2>4. CASE Continue(r, req[r].next)
    <3>1. Carries(u, req[r].next)
      BY <2>2 DEF Carries, Checking, Approving
    <3> QED BY <2>1, <2>2, <2>4, <3>1, Owing, ReadOutcome
  <2>5. CASE Continue(r, ReadyCheck(req[r].wards \ {w}, req[r].next))
    <3>1. /\ Carries(u, ReadyCheck(req[r].wards \ {w}, req[r].next))
      BY <2>2 DEF Carries, Checking, ReadyCheck
    <3> QED BY <2>1, <2>2, <2>5, <3>1, Owing, ReadOutcome
  <2> QED BY <2>1, <2>3, <2>4, <2>5
<1>2. CASE RejectAskWard(r)
  <2>1. Reads /\ (GiveUp(r) \/ Continue(r, req[r].next))
    BY <1>2 DEF RejectAskWard
  <2>2. req[r].owes = {} /\ req[r].next.at = "reject" /\ Rejecting(u, req[r].next)
    BY <1>2 DEF RejectAskWard, AsyncIInv, Carries, Idle
  <2>3. Carries(u, req[r].next)
    BY <2>2 DEF Carries
  <2> QED BY <2>1, <2>2, <2>3, GivesUpOutcome, Owing, ReadOutcome
<1> QED BY <1>1, <1>2

LEMMA RollupReads ==
    ASSUME AsyncIInv, NEW r \in Client, RollupRead(r)
    PROVE  Outcome(r)
<1> DEFINE u == OfficerOf[r]
           q == [at |-> "rollup", unit |-> req[r].unit, owes |-> {req[r].unit},
                 tally |-> AggregateTally(rows, req[r].unit)]
<1>1. req[r].unit = u /\ req[r].owes = {u} /\ u \notin PollingUnits
  BY DEF RollupRead, AsyncIInv, Carries, Counting, Idle
<1>2. Reads /\ u \in Unit /\ rows \in [Unit -> Row]
  BY ClientAssumption DEF RollupRead, AsyncIInv
<1>3. CASE ApprovedChildren(rows, u) = {}
  <2>1. GiveUp(r)
    BY <1>1, <1>3 DEF RollupRead
  <2> QED BY <1>1, <1>2, <1>3, <2>1, GivesUpOutcome
<1>4. CASE ApprovedChildren(rows, u) # {}
  <2>1. Continue(r, q)
    BY <1>1, <1>4 DEF RollupRead
  <2>2. AggregateTally(rows, u) \in Tallies
    BY <1>2, AggregateType
  <2>3. Carries(u, q) /\ q.owes = {u}
    BY <1>1, <2>2 DEF Carries, Counting
  <2> HIDE DEF q
  <2> QED BY <1>1, <1>2, <2>1, <2>3, Owing, ReadOutcome
<1> QED BY <1>3, <1>4

LEMMA RebuildCarried ==
    ASSUME AsyncIInv, NEW r \in Client, req[r].at \in {"existing", "recount", "rebuild"}
    PROVE  Rebuilding(OfficerOf[r], req[r])
BY DEF AsyncIInv, Carries, Idle

LEMMA RebuildReads ==
    ASSUME AsyncIInv, NEW r \in Client, RebuildExisting(r) \/ RebuildRead(r)
    PROVE  Outcome(r)
<1> DEFINE u == OfficerOf[r]
           o == req[r]
<1>1. u \in Unit /\ rows \in [Unit -> Row] /\ rows[u].reason \in BOOLEAN
      /\ rows[u].flagged \subseteq Children(u) /\ AggregateTally(rows, u) \in Tallies
  BY ClientAssumption, AggregateType DEF AsyncIInv, FlagsInWard, Row
<1>2. Reads
  BY DEF RebuildExisting, RebuildRead
<1>3. CASE RebuildExisting(r)
  <2> DEFINE q == [at |-> "recount", unit |-> o.unit, force |-> o.force,
                   reason |-> rows[o.unit].reason, flagged |-> rows[o.unit].flagged,
                   owes |-> o.owes, next |-> o.next]
  <2>1. Continue(r, q) /\ Rebuilding(u, o)
    BY <1>3, RebuildCarried DEF RebuildExisting
  <2>2. Rebuilding(u, q)
    BY <1>1, <2>1 DEF Rebuilding
  <2>3. Carries(u, q) /\ o.owes \subseteq q.owes
    BY <2>2 DEF Carries
  <2> HIDE DEF q
  <2> QED BY <1>2, <2>1, <2>3, Owing, ReadOutcome
<1>4. CASE RebuildRead(r)
  <2> DEFINE q == [at |-> "rebuild", unit |-> o.unit, force |-> o.force,
                   reason |-> o.reason, flagged |-> o.flagged,
                   tally |-> AggregateTally(rows, o.unit),
                   owes |-> o.owes, next |-> o.next]
  <2>1. Continue(r, q) /\ Rebuilding(u, o) /\ o.at = "recount"
    BY <1>4, RebuildCarried DEF RebuildRead
  <2>2. Rebuilding(u, q)
    BY <1>1, <2>1 DEF Rebuilding
  <2>3. Carries(u, q) /\ o.owes \subseteq q.owes
    BY <2>2 DEF Carries
  <2> HIDE DEF q
  <2> QED BY <1>2, <2>1, <2>3, Owing, ReadOutcome
<1> QED BY <1>3, <1>4

LEMMA LogWrites ==
    ASSUME AsyncIInv, NEW r \in Client, LogWrite(r)
    PROVE  Outcome(r)
<1> DEFINE u == OfficerOf[r]
           q == req[r].next
<1>1. Continue(r, q) /\ rows' = rows
  BY DEF LogWrite
<1>2. Logging(u, req[r])
  BY DEF LogWrite, AsyncIInv, Carries, Idle
<1>3. Carries(u, q) /\ req[r].owes \subseteq q.owes
  BY <1>2 DEF Logging, Carries, Rest, Counting, Rebuilding, Idle
<1>4. rows' \in [Unit -> Row] /\ FlagsInWard'
  BY <1>1 DEF AsyncIInv, FlagsInWard
<1> HIDE DEF q
<1>5. req'[r] = q
  BY <1>1, Continued
<1> QED BY <1>1, <1>3, <1>4, <1>5, Continued DEF Outcome

-----------------------------------------------------------------------------
(* The calls that write rows. *)
LEMMA RowOf ==
    ASSUME AsyncIInv, NEW v \in Unit
    PROVE  /\ rows \in [Unit -> Row] /\ rows[v] \in Row
           /\ rows[v].flagged \subseteq Children(v)
BY DEF AsyncIInv, FlagsInWard

LEMMA EditWrites ==
    ASSUME AsyncIInv, NEW r \in Client, UpsertWrite(r) \/ AttachWrite(r) \/ SubmitWrite(r)
    PROVE  Outcome(r)
<1> DEFINE u == OfficerOf[r]
<1>0. u \in Unit /\ rows \in [Unit -> Row] /\ rows[u] \in Row /\ rows[u].flagged \subseteq Children(u)
  BY ClientAssumption, RowOf
<1>1. Carries(u, Idle)
  BY DEF Carries
<1>2. CASE UpsertWrite(r)
  <2> DEFINE row == [rows[u] EXCEPT !.status = "DRAFT", !.tally = {<<u, req[r].fig>>},
                                    !.photo = req[r].photo, !.reason = FALSE]
  <2>1. Editing(u, req[r])
    BY <1>2 DEF UpsertWrite, AsyncIInv, Carries, Idle
  <2>2. "DRAFT" \in Status /\ {<<u, req[r].fig>>} \in Tallies
    BY <1>0, <2>1 DEF Status, Tallies, Editing
  <2>3. row \in Row
    BY <1>0, <2>1, <2>2, RowTyped DEF Editing
  <2>4. row.status = "DRAFT" /\ row.flagged = rows[u].flagged
    BY <1>0 DEF Row
  <2>5. rows' = [rows EXCEPT ![u] = row] /\ Continue(r, Idle)
    BY <1>0, <1>2 DEF UpsertWrite, GiveUp
  <2>6. u \notin Wards /\ req[r].owes = {}
    BY <2>1 DEF Editing
  <2> HIDE DEF row
  <2> QED BY <1>0, <1>1, <2>3, <2>4, <2>5, <2>6, RowOutcome
<1>3. CASE AttachWrite(r)
  <2> DEFINE row == [rows[u] EXCEPT !.photo = TRUE]
  <2>1. row \in Row /\ row.status = rows[u].status /\ row.flagged = rows[u].flagged
    BY <1>0 DEF Row
  <2>2. rows' = [rows EXCEPT ![u] = row] /\ Continue(r, Idle)
    BY <1>0, <1>3 DEF AttachWrite, GiveUp
  <2>3. req[r].owes = {}
    BY <1>3 DEF AttachWrite, AsyncIInv, Carries, Idle
  <2> HIDE DEF row
  <2> QED BY <1>0, <1>1, <2>1, <2>2, <2>3, RowOutcome
<1>4. CASE SubmitWrite(r)
  <2> DEFINE row == [rows[u] EXCEPT !.status = "SUBMITTED", !.reason = FALSE]
             q == Log(u, req[r].from, "SUBMITTED", {}, Idle)
  <2>1. "SUBMITTED" \in Status
    BY DEF Status
  <2>2. row \in Row
    BY <1>0, <2>1, RowDecided
  <2>3. row.status = "SUBMITTED" /\ row.flagged = rows[u].flagged
    BY <1>0 DEF Row
  <2>4. rows' = [rows EXCEPT ![u] = row] /\ Continue(r, q)
    BY <1>0, <1>4 DEF SubmitWrite
  <2>5. Carries(u, q) /\ q.owes = {}
    BY DEF Carries, Logging, Log, Rest
  <2>6. req[r].owes = {}
    BY <1>4 DEF SubmitWrite, AsyncIInv, Carries, Idle
  <2> HIDE DEF row, q
  <2> QED BY <1>0, <2>2, <2>3, <2>4, <2>5, <2>6, RowOutcome
<1> QED BY <1>2, <1>3, <1>4

(* The ward is forwarded. *)
LEMMA RollupWrites ==
    ASSUME AsyncIInv, NEW r \in Client, RollupWrite(r)
    PROVE  Outcome(r)
<1> DEFINE u == OfficerOf[r]
           row == [rows[u] EXCEPT !.status = RollupStatus(u), !.tally = req[r].tally,
                                  !.reason = FALSE]
<1>1. u \in Unit /\ rows \in [Unit -> Row] /\ rows[u] \in Row /\ rows[u].flagged \subseteq Children(u)
  BY ClientAssumption, RowOf
<1>2. Counting(u, req[r]) /\ req[r].at = "rollup"
  BY DEF RollupWrite, AsyncIInv, Carries, Idle
<1>3. RollupStatus(u) \in Status /\ (u \in Wards => RollupStatus(u) = "SUBMITTED")
  BY DEF RollupStatus, Status, Wards
<1>4. row \in Row
  BY <1>1, <1>2, <1>3, RowRollup DEF Counting
<1>5. row.status = RollupStatus(u) /\ row.flagged = rows[u].flagged
  BY <1>1 DEF Row
<1>6. rows' = [rows EXCEPT ![u] = row] /\ Continue(r, Idle)
  BY <1>1, <1>2 DEF RollupWrite, GiveUp, Counting
<1>7. Carries(u, Idle)
  BY DEF Carries
<1>8. u \notin PollingUnits /\ req[r].owes = {u}
  BY <1>2 DEF Counting
<1> HIDE DEF row
<1>9. \A w \in Wards : w \in req[r].owes => w \in Idle.owes \/ Forwarded(rows', w)
  BY <1>1, <1>3, <1>5, <1>6, <1>8 DEF Forwarded
<1> QED BY <1>1, <1>3, <1>4, <1>5, <1>6, <1>7, <1>8, <1>9, RowOutcome

LEMMA RebuildWrites ==
    ASSUME AsyncIInv, NEW r \in Client, RebuildWrite(r)
    PROVE  Outcome(r)
<1> DEFINE u == OfficerOf[r]
           o == req[r]
           status == IF o.force THEN "SUBMITTED" ELSE "REJECTED"
           reason == o.reason /\ ~o.force
           flagged == IF o.force THEN {} ELSE o.flagged
           row == [rows[u] EXCEPT !.status = status, !.tally = o.tally,
                                  !.reason = reason, !.flagged = flagged]
<1>1. u \in Unit /\ rows \in [Unit -> Row] /\ rows[u] \in Row
  BY ClientAssumption, RowOf
<1>2. Rebuilding(u, o) /\ o.at = "rebuild"
  BY RebuildCarried DEF RebuildWrite
<1>3. /\ u \in Wards /\ o.unit = u /\ o.tally \in Tallies
      /\ flagged \subseteq Children(u) /\ flagged \in SUBSET Unit
  BY <1>2, Tree DEF Rebuilding
<1>4. rows' = [rows EXCEPT ![u] = row] /\ Continue(r, o.next)
  BY <1>1, <1>3 DEF RebuildWrite
<1>5. status \in {"SUBMITTED", "REJECTED"} /\ status \in Status /\ reason \in BOOLEAN
  BY DEF Status
<1>6. Carries(u, o.next)
  BY <1>2 DEF Rebuilding, Carries, Rest, Logging
<1> HIDE DEF status, reason, flagged
<1>7. row \in Row
  BY <1>1, <1>3, <1>5, RowRebuild
<1>8. row.status = status /\ row.flagged = flagged
  BY <1>1 DEF Row
<1>9. o.owes = {} \/ o.owes = {u}
  BY <1>2 DEF Rebuilding
<1> HIDE DEF row
<1>10. \A w \in Wards : w \in o.owes => w \in o.next.owes \/ Forwarded(rows', w)
  BY <1>1, <1>4, <1>5, <1>8, <1>9 DEF Forwarded
<1>11. u \notin PollingUnits
  BY <1>3, UnitClasses
<1> QED BY <1>1, <1>3, <1>4, <1>5, <1>6, <1>7, <1>8, <1>10, <1>11, RowOutcome

(* An approval owes its ward the rollup. *)
LEMMA ApproveWrites ==
    ASSUME AsyncIInv, NEW r \in Client, ApproveWrite(r)
    PROVE  Outcome(r)
<1> DEFINE u == OfficerOf[r]
           c == req[r].unit
           decided == Decide(rows, {c}, "APPROVED")
           q == Log(c, "SUBMITTED", "APPROVED", {u}, RollupOf(u))
<1>1. req[r].owes = {} /\ c \in Children(u)
  BY DEF ApproveWrite, AsyncIInv, Carries, Approving, Idle
<1>2. c \in Unit /\ Parent[c] = u /\ u \in Unit /\ u \notin PollingUnits
  BY <1>1, Tree, ClientAssumption DEF Children
<1>3. rows' = [decided EXCEPT ![c].flagged = {}] /\ Continue(r, q)
  BY <1>2 DEF ApproveWrite
<1>4. Carries(u, q) /\ q.owes = {u}
  BY <1>2 DEF Carries, Logging, Counting, Log, RollupOf
<1>5. rows \in [Unit -> Row] /\ \A v \in Unit : rows[v].flagged \subseteq Children(v)
  BY RowOf DEF AsyncIInv
<1>6. {c} \in SUBSET Unit
  BY <1>2
<1>7. /\ decided \in [Unit -> Row]
      /\ \A v \in Unit \ {c} : decided[v] = rows[v]
      /\ decided[c].status = "APPROVED"
  BY <1>5, <1>6, DecideApproved
<1> HIDE DEF decided, q
<1>8. rows' = [decided EXCEPT ![c] = [decided[c] EXCEPT !.flagged = {}]]
  BY <1>2, <1>3, <1>7
<1>9. [decided[c] EXCEPT !.flagged = {}] \in Row
  BY <1>2, <1>7, RowFlagged
<1>10. rows' \in [Unit -> Row] /\ \A v \in Unit : v # c => rows'[v] = rows[v]
  BY <1>2, <1>7, <1>8, <1>9
<1>11. rows'[c].status = "APPROVED" /\ rows'[c].flagged = {}
  BY <1>2, <1>7, <1>8 DEF Row
<1>12. \A v \in Unit : rows'[v].flagged \subseteq Children(v)
  BY <1>5, <1>10, <1>11
<1>13. \A w \in Wards : rows'[w].status = rows[w].status \/ Forwarded(rows', w)
  BY <1>10, <1>11, UnitClasses DEF Forwarded
<1>14. \A p \in PollingUnits : rows'[p].status = "APPROVED" =>
          rows[p].status = "APPROVED" \/ Parent[p] \in q.owes
  BY <1>2, <1>4, <1>10, UnitClasses
<1> QED BY <1>1, <1>3, <1>4, <1>10, <1>12, <1>13, <1>14, WriteOutcome

LEMMA ApproveAllWrites ==
    ASSUME AsyncIInv, NEW r \in Client, ApproveAllWrite(r)
    PROVE  Outcome(r)
<1> DEFINE u == OfficerOf[r]
           W == req[r].units
           q == RollupOf(u)
<1>1. req[r].owes = {} /\ u \in Lgas /\ W \subseteq Children(u)
  BY DEF ApproveAllWrite, AsyncIInv, Carries, Approving, Idle
<1>2. W \subseteq Wards /\ u \in Unit /\ u \notin PollingUnits
  BY <1>1, Tree, UnitClasses
<1>3. rows \in [Unit -> Row] /\ \A v \in Unit : rows[v].flagged \subseteq Children(v)
  BY RowOf DEF AsyncIInv
<1>4. /\ rows' = [v \in Unit |-> IF v \in W THEN [rows[v] EXCEPT !.status = "APPROVED"] ELSE rows[v]]
      /\ Continue(r, q)
  BY DEF ApproveAllWrite
<1>5. Carries(u, q) /\ q.owes = {u}
  BY <1>2 DEF Carries, Counting, RollupOf
<1> HIDE DEF W, q
<1>6. ASSUME NEW v \in Unit
      PROVE  /\ rows'[v] \in Row /\ rows'[v].flagged \subseteq Children(v)
             /\ IF v \in W THEN rows'[v].status = "APPROVED" ELSE rows'[v] = rows[v]
  <2>1. "APPROVED" \in Status /\ rows[v] \in Row
    BY <1>3 DEF Status
  <2>2. /\ [rows[v] EXCEPT !.status = "APPROVED"] \in Row
        /\ [rows[v] EXCEPT !.status = "APPROVED"].status = "APPROVED"
        /\ [rows[v] EXCEPT !.status = "APPROVED"].flagged = rows[v].flagged
    BY <2>1 DEF Row
  <2> QED BY <1>3, <1>4, <2>1, <2>2
<1>7. rows' \in [Unit -> Row]
  BY <1>4, <1>6
<1>8. \A w \in Wards : rows'[w].status = rows[w].status \/ Forwarded(rows', w)
  BY <1>6, UnitClasses DEF Forwarded
<1>9. \A p \in PollingUnits : rows'[p].status = "APPROVED" =>
         rows[p].status = "APPROVED" \/ Parent[p] \in q.owes
  BY <1>2, <1>6, UnitClasses
<1> QED BY <1>1, <1>4, <1>5, <1>6, <1>7, <1>8, <1>9, WriteOutcome

LEMMA RejectWrites ==
    ASSUME AsyncIInv, NEW r \in Client, RejectWrite(r)
    PROVE  Outcome(r)
<1> DEFINE u == OfficerOf[r]
           o == req[r]
           c == o.unit
           decided == Decide(rows, {c}, "REJECTED")
           rest == ReturnRest(o.rest)
           q == IF o.reopened
                THEN Log(c, o.from, "REJECTED", {u}, RebuildOf(u, FALSE, {u}, rest))
                ELSE Log(c, o.from, "REJECTED", {}, rest)
<1>1. Rejecting(u, o)
  BY DEF RejectWrite, AsyncIInv, Carries, Idle
<1>2. c \in Unit /\ Parent[c] = u /\ o.owes = {} /\ o.flags \subseteq Children(c)
  BY <1>1, Tree DEF Rejecting, Children
<1>3. /\ rows' = IF LevelOf[c] = "WARD" THEN [decided EXCEPT ![c].flagged = o.flags] ELSE decided
      /\ Continue(r, q)
  BY <1>2 DEF RejectWrite
<1>4. Carries(u, q)
  <2>1. Rest(u, rest) /\ rest.owes = {}
    BY <1>1, RestCarries DEF Rejecting
  <2> HIDE DEF rest
  <2>2. CASE o.reopened
    <3>1. Rebuilding(u, RebuildOf(u, FALSE, {u}, rest))
      BY <1>1, <2>1, <2>2 DEF Rejecting, Rebuilding, RebuildOf
    <3>2. /\ RebuildOf(u, FALSE, {u}, rest).at = "existing"
          /\ RebuildOf(u, FALSE, {u}, rest).force = FALSE
      BY DEF RebuildOf
    <3> QED BY <2>2, <3>1, <3>2 DEF Carries, Logging, Log
  <2>3. CASE ~o.reopened
    BY <2>1, <2>3 DEF Carries, Logging, Log
  <2> QED BY <2>2, <2>3
<1>5. rows \in [Unit -> Row] /\ \A v \in Unit : rows[v].flagged \subseteq Children(v)
  BY RowOf DEF AsyncIInv
<1>6. {c} \in SUBSET Unit
  BY <1>2
<1>7. /\ decided \in [Unit -> Row]
      /\ \A v \in Unit \ {c} : decided[v] = rows[v]
      /\ decided[c].status = "REJECTED" /\ decided[c].flagged = rows[c].flagged
  BY <1>2, <1>5, <1>6, DecideRejected, ZenonT(40)
<1> HIDE DEF decided, q
<1>8. /\ rows' \in [Unit -> Row] /\ \A v \in Unit : v # c => rows'[v] = rows[v]
      /\ rows'[c].status = "REJECTED" /\ rows'[c].flagged \subseteq Children(c)
  <2>1. CASE LevelOf[c] = "WARD"
    <3>1. rows' = [decided EXCEPT ![c] = [decided[c] EXCEPT !.flagged = o.flags]]
      BY <1>2, <1>3, <1>7, <2>1
    <3>2. o.flags \in SUBSET Unit
      BY <1>2, <2>1, Tree DEF Wards
    <3>3. [decided[c] EXCEPT !.flagged = o.flags] \in Row
      BY <1>2, <1>7, <3>2, RowFlagged
    <3>4. /\ [decided[c] EXCEPT !.flagged = o.flags].status = "REJECTED"
          /\ [decided[c] EXCEPT !.flagged = o.flags].flagged = o.flags
      BY <1>2, <1>7 DEF Row
    <3> QED BY <1>2, <1>7, <3>1, <3>3, <3>4
  <2>2. CASE LevelOf[c] # "WARD"
    BY <1>2, <1>3, <1>5, <1>7, <2>2
  <2> QED BY <2>1, <2>2
<1>9. \A v \in Unit : rows'[v].flagged \subseteq Children(v)
  BY <1>5, <1>8
<1>10. \A w \in Wards : rows'[w].status = rows[w].status \/ Forwarded(rows', w)
  BY <1>8, UnitClasses DEF Forwarded
<1>11. \A p \in PollingUnits : rows'[p].status = "APPROVED" => rows[p].status = "APPROVED"
  BY <1>8, UnitClasses
<1> QED BY <1>2, <1>3, <1>4, <1>8, <1>9, <1>10, <1>11, WriteOutcome

-----------------------------------------------------------------------------
LEMMA StepOutcome ==
    ASSUME AsyncIInv, NEW r \in Client, Arrive(r) \/ Resume(r)
    PROVE  Outcome(r)
<1>1. CASE Arrive(r)
  BY <1>1, EditReads, ApprovalReads, RejectionReads, ReturnedWardReads DEF Arrive
<1>2. CASE Resume(r)
  BY <1>2, EditWrites, LogWrites, CheckReads, ApproveWrites, ApproveAllWrites, RollupReads,
     RollupWrites, RejectWrites, RebuildReads, RebuildWrites, ReturnedWardReads, RejectionReads
     DEF Resume
<1> QED BY <1>1, <1>2

LEMMA OutcomeIInv ==
    ASSUME AsyncIInv, NEW r \in Client, Outcome(r)
    PROVE  AsyncIInv'
<1>1. \A s \in Client : Carries(OfficerOf[s], req'[s])
  BY DEF Outcome, AsyncIInv
<1>2. ASSUME NEW w \in Wards, ApprovedChildren(rows', w) # {}
      PROVE  Forwarded(rows', w) \/ \E s \in Client : w \in req'[s].owes
  <2>1. CASE ApprovedChildren(rows, w) = {}
    BY <1>2, <2>1 DEF Outcome
  <2>2. CASE Forwarded(rows, w)
    BY <2>2 DEF Outcome
  <2>3. ASSUME NEW s \in Client, w \in req[s].owes
        PROVE  Forwarded(rows', w) \/ \E t \in Client : w \in req'[t].owes
    <3>1. CASE s = r
      BY <1>2, <2>3, <3>1 DEF Outcome
    <3>2. CASE s # r
      BY <2>3, <3>2 DEF Outcome
    <3> QED BY <3>1, <3>2
  <2> QED BY <2>1, <2>2, <2>3 DEF AsyncIInv
<1>3. rows' \in [Unit -> Row] /\ FlagsInWard' /\ DOMAIN req' = Client
  BY DEF Outcome
<1> QED BY <1>1, <1>2, <1>3 DEF AsyncIInv

LEMMA AsyncInitIInv == AsyncInit => AsyncIInv
<1> SUFFICES ASSUME AsyncInit
             PROVE  AsyncIInv
  OBVIOUS
<1>1. Absent \in Row /\ Absent.flagged = {} /\ Absent.status = "NONE"
  BY DEF Absent, Row, Tallies, Status
<1>2. rows \in [Unit -> Row] /\ \A v \in Unit : rows[v].flagged = {} /\ rows[v].status = "NONE"
  BY <1>1 DEF AsyncInit, Init
<1>3. \A w \in Wards : ApprovedChildren(rows, w) = {}
  BY <1>2, Tree DEF ApprovedChildren
<1>4. DOMAIN req = Client /\ \A r \in Client : Carries(OfficerOf[r], req[r])
  BY DEF AsyncInit, Carries
<1> QED BY <1>2, <1>3, <1>4 DEF AsyncIInv, FlagsInWard

(***************************************************************************)
(* The inductive invariant of overlapping requests.                        *)
(***************************************************************************)
THEOREM AsyncInvariance == AsyncSpec => []AsyncIInv
<1>1. AsyncIInv /\ [AsyncNext]_asyncVars => AsyncIInv'
  <2>1. ASSUME AsyncIInv, NEW r \in Client, Arrive(r) \/ Resume(r)
        PROVE  AsyncIInv'
    BY <2>1, StepOutcome, OutcomeIInv
  <2>2. ASSUME AsyncIInv, UNCHANGED asyncVars
        PROVE  AsyncIInv'
    BY <2>2 DEF AsyncIInv, asyncVars, FlagsInWard
  <2> QED BY <2>1, <2>2 DEF AsyncNext
<1> QED BY <1>1, AsyncInitIInv, PTL DEF AsyncSpec

(***************************************************************************)
(* However requests overlap, of however many sessions of each office, once *)
(* all have ended every ward that is not approved is on the screen of      *)
(* somebody who can move it (approveResult 1080-1126, rollupToParent       *)
(* 1852-1938, rebuildWardRollupAfterPuChange 1422-1506).                   *)
(***************************************************************************)
THEOREM NobodyForgotten == AsyncSpec => []SomebodyIsAskedAtRest
<1>1. AsyncIInv => SomebodyIsAskedAtRest
  <2> SUFFICES ASSUME AsyncIInv, \A r \in Client : req[r] = Idle
               PROVE  SomebodyIsAsked
    BY DEF SomebodyIsAskedAtRest
  <2>1. \A r \in Client : req[r].owes = {}
    BY DEF Idle
  <2>2. rows \in [Unit -> Row] /\ WardForwarded
    BY <2>1 DEF AsyncIInv, WardForwarded, Forwarded
  <2> QED BY <2>2, ForwardedIsAsked
<1> QED BY <1>1, AsyncInvariance, PTL

-----------------------------------------------------------------------------
(* One request at a time: the operators of the abstract collation are those *)
(* of the collation.                                                        *)
LEMMA SerialOperators ==
    /\ \A p : Serial!Children(p) = Children(p)
    /\ Serial!Wards = Wards /\ Serial!Lgas = Lgas
    /\ \A rs, w : Serial!AllPollingUnitsApproved(rs, w) <=> AllPollingUnitsApproved(rs, w)
    /\ \A rs, p : Serial!RollupToParent(rs, p) = RollupToParent(rs, p)
    /\ \A rs, w, f : Serial!RebuildWardRollup(rs, w, f) = RebuildWardRollup(rs, w, f)
    /\ \A rs, S, st : Serial!Decide(rs, S, st) = Decide(rs, S, st)
    /\ Serial!EditableStatuses = EditableStatuses
<1>1. \A p : Serial!Children(p) = Children(p)
  BY DEF Serial!Children, Children
<1>2. Serial!Wards = Wards /\ Serial!Lgas = Lgas
  BY DEF Serial!Wards, Wards, Serial!Lgas, Lgas
<1>3. \A rs, w : Serial!AllPollingUnitsApproved(rs, w) <=> AllPollingUnitsApproved(rs, w)
  BY <1>1 DEF Serial!AllPollingUnitsApproved, AllPollingUnitsApproved
<1>4. \A rs, p : Serial!ApprovedChildren(rs, p) = ApprovedChildren(rs, p)
  BY <1>1 DEF Serial!ApprovedChildren, ApprovedChildren
<1>5. \A rs, p : Serial!AggregateTally(rs, p) = AggregateTally(rs, p)
  BY <1>4 DEF Serial!AggregateTally, AggregateTally
<1>6. \A p : Serial!RollupStatus(p) = RollupStatus(p)
  BY DEF Serial!RollupStatus, RollupStatus
<1>7. ASSUME NEW rs, NEW p
      PROVE  Serial!RollupToParent(rs, p) = RollupToParent(rs, p)
  <2>1. /\ Serial!ApprovedChildren(rs, p) = ApprovedChildren(rs, p)
        /\ Serial!AggregateTally(rs, p) = AggregateTally(rs, p)
        /\ Serial!RollupStatus(p) = RollupStatus(p)
    BY <1>4, <1>5, <1>6
  <2> QED BY <2>1 DEF Serial!RollupToParent, RollupToParent
<1>8. ASSUME NEW rs, NEW w, NEW f
      PROVE  Serial!RebuildWardRollup(rs, w, f) = RebuildWardRollup(rs, w, f)
  <2>1. Serial!AggregateTally(rs, w) = AggregateTally(rs, w)
    BY <1>5
  <2> QED BY <2>1 DEF Serial!RebuildWardRollup, RebuildWardRollup
<1>9. \A rs, S, st : Serial!Decide(rs, S, st) = Decide(rs, S, st)
  BY DEF Serial!Decide, Decide
<1>10. Serial!EditableStatuses = EditableStatuses
  BY DEF Serial!EditableStatuses, EditableStatuses
<1> QED BY <1>1, <1>2, <1>3, <1>7, <1>8, <1>9, <1>10

(* The steps of the collation, as seen. *)
LEMMA SerialUpsert ==
    ASSUME NEW u \in Unit, NEW fig \in Figures, NEW photo \in BOOLEAN,
           LevelOf[u] # "WARD", seen.rows[u].status \in EditableStatuses \union {"NONE"},
           seen'.rows = [seen.rows EXCEPT ![u].status = "DRAFT", ![u].tally = {<<u, fig>>},
                                          ![u].photo = photo, ![u].reason = FALSE],
           seen'.lastLog = seen.lastLog
    PROVE  Serial!Next
<1>1. Serial!UpsertResult(u, fig, photo)
  BY SerialOperators DEF Serial!UpsertResult
<1> QED BY <1>1 DEF Serial!Next

LEMMA SerialAttach ==
    ASSUME NEW u \in Unit, seen.rows[u].status \in EditableStatuses,
           seen'.rows = [seen.rows EXCEPT ![u].photo = TRUE],
           seen'.lastLog = seen.lastLog
    PROVE  Serial!Next
<1>1. Serial!AttachEc8aPhoto(u)
  BY SerialOperators DEF Serial!AttachEc8aPhoto
<1> QED BY <1>1 DEF Serial!Next

LEMMA SerialSubmit ==
    ASSUME NEW u \in Unit, MaySubmit(u),
           seen'.rows = [seen.rows EXCEPT ![u].status = "SUBMITTED", ![u].reason = FALSE],
           seen'.lastLog = LoggedSince({u}, "SUBMITTED")
    PROVE  Serial!Next
<1>1. Serial!SubmitResult(u)
  BY SerialOperators DEF Serial!SubmitResult, MaySubmit, Serial!WriteActionLog, LoggedSince
<1> QED BY <1>1 DEF Serial!Next

LEMMA SerialApprove ==
    ASSUME NEW u \in Unit, NEW c \in Children(u), MayApprove(c),
           seen'.rows = RollupToParent(Approved(c), u),
           seen'.lastLog = LoggedSince({c}, "APPROVED")
    PROVE  Serial!Next
<1>1. c \in DOMAIN Parent /\ Parent[c] = u
  BY DEF Children
<1>2. Serial!ApproveResult(c)
  BY <1>1, SerialOperators DEF Serial!ApproveResult, MayApprove, Approved,
     Serial!WriteActionLog, LoggedSince
<1> QED BY <1>1, <1>2 DEF Serial!Next

LEMMA SerialApproveAll ==
    ASSUME NEW u \in Unit, MayApproveAll(u),
           seen'.rows = RollupToParent(AllApproved(u), u),
           seen'.lastLog = LoggedSince(Pending(u), "APPROVED")
    PROVE  Serial!Next
<1>1. u \in Lgas
  BY DEF MayApproveAll, Lgas
<1>2. Serial!ApproveAllLgaWardResults(u)
  BY SerialOperators DEF Serial!ApproveAllLgaWardResults, MayApproveAll, AllApproved, Pending,
     Serial!WriteActionLog, LoggedSince
<1> QED BY <1>1, <1>2, SerialOperators DEF Serial!Next

LEMMA SerialReject ==
    ASSUME NEW u \in Unit, NEW c \in Children(u) \ PollingUnits, NEW flags,
           flags \subseteq (IF LevelOf[c] = "WARD" THEN Children(c) ELSE {}),
           seen.rows[c].status = "SUBMITTED",
           seen'.rows = SentDown(c, flags),
           seen'.lastLog = LoggedSince({c}, "REJECTED")
    PROVE  Serial!Next
<1>1. c \in DOMAIN Parent /\ Parent[c] = u /\ flags \in SUBSET Children(c)
  BY DEF Children
<1>2. Serial!RejectResult(c, flags)
  BY <1>1, SerialOperators DEF Serial!RejectResult, Serial!Returnable, SentDown,
     Serial!WriteActionLog, LoggedSince
<1> QED BY <1>1, <1>2, SerialOperators DEF Serial!Next

LEMMA SerialResubmit ==
    ASSUME NEW u \in Wards, seen.rows[u].status = "REJECTED",
           AllPollingUnitsApproved(seen.rows, u),
           seen'.rows = RebuildWardRollup(seen.rows, u, TRUE),
           seen'.lastLog = LoggedSince({u}, "SUBMITTED")
    PROVE  Serial!Next
<1>1. Serial!ResubmitWardToLga(u)
  BY SerialOperators DEF Serial!ResubmitWardToLga, Serial!WriteActionLog, LoggedSince
<1> QED BY <1>1, SerialOperators DEF Serial!Next

(* A ward kept as it was returned: only its total is written. *)
LEMMA RecountedIsRebuilt ==
    ASSUME NEW u \in Wards, NEW D \in SUBSET Children(u), seen.rows \in [Unit -> Row],
           Reopens(D), seen.rows[u].status = "REJECTED"
    PROVE  Recounted(u, D) = RebuildWardRollup(Decide(seen.rows, D, "REJECTED"), u, FALSE)
<1> DEFINE rs == Decide(seen.rows, D, "REJECTED")
<1>1. u \in Unit /\ u \notin D
  BY Tree DEF Wards
<1>2. rs[u] = seen.rows[u] /\ rs[u] \in Row /\ rs = [v \in Unit |-> rs[v]]
  BY <1>1 DEF Decide
<1>3. rs[u].status = "REJECTED" /\ rs[u].reason \in BOOLEAN
  BY <1>2 DEF Row
<1> HIDE DEF rs
<1>4. [rs EXCEPT ![u].tally = AggregateTally(rs, u)] = RebuildWardRollup(rs, u, FALSE)
  BY <1>1, <1>2, <1>3, ZenonT(40) DEF RebuildWardRollup, Row
<1> QED BY <1>4 DEF Recounted, rs

LEMMA SerialReturn ==
    ASSUME NEW u \in Wards, NEW T \in SUBSET Children(u), seen.rows \in [Unit -> Row],
           MayReturn(u, T), Reopens(T) => seen.rows[u].status = "REJECTED",
           seen'.rows = Recounted(u, T),
           seen'.lastLog = LoggedSince(T, "REJECTED")
    PROVE  Serial!Next
<1>1. seen'.rows = IF Reopens(T)
                   THEN RebuildWardRollup(Decide(seen.rows, T, "REJECTED"), u, FALSE)
                   ELSE Decide(seen.rows, T, "REJECTED")
  <2>1. CASE Reopens(T)
    BY <2>1, RecountedIsRebuilt
  <2>2. CASE ~Reopens(T)
    BY <2>2 DEF Recounted
  <2> QED BY <2>1, <2>2
<1>2. ASSUME NEW p \in T, T = {p}
      PROVE  Serial!Next
  <2>1. p \in DOMAIN Parent /\ Parent[p] = u /\ {} \in SUBSET Children(p)
    BY DEF Children
  <2>2. LevelOf[p] = "POLLING_UNIT"
    BY Tree DEF PollingUnits
  <2>3. Reopens(T) <=> seen.rows[p].status = "APPROVED"
    BY <1>2 DEF Reopens
  <2>4. Serial!RejectResult(p, {})
    BY <1>1, <1>2, <2>1, <2>2, <2>3, SerialOperators DEF Serial!RejectResult, Serial!Returnable,
       MayReturn, Serial!WriteActionLog, LoggedSince
  <2> QED BY <2>1, <2>4, SerialOperators DEF Serial!Next
<1>3. CASE seen.rows[u].status = "REJECTED" /\ seen.rows[u].flagged # {} /\ T = Flagged(u)
  <2>1. Serial!ReturnLgaFlaggedPus(u)
    BY <1>1, <1>3, SerialOperators DEF Serial!ReturnLgaFlaggedPus, Flagged, Reopens,
       Serial!WriteActionLog, LoggedSince
  <2> QED BY <2>1, SerialOperators DEF Serial!Next
<1> QED BY <1>2, <1>3 DEF MayReturn

-----------------------------------------------------------------------------
(* What is seen next, and what a step has to come to. *)
Sees == seen' = IF AllIdle' THEN [rows |-> rows', lastLog |-> lastLog'] ELSE seen
Fits == SerialInv' /\ (UNCHANGED seen \/ Serial!Next)

(* A step of request r, when no other request runs. *)
LEMMA Alone ==
    ASSUME SerialInv, NEW r \in Client, NEW q, Continue(r, q), Sees, AllIdle \/ req[r] # Idle
    PROVE  /\ DOMAIN req' = Client /\ req'[r] = q
           /\ \A s \in Client : s # r => req'[s] = Idle
           /\ q = Idle => seen' = [rows |-> rows', lastLog |-> lastLog'] /\ AllIdle'
           /\ q # Idle => seen' = seen /\ ~AllIdle'
<1>1. \A s \in Client : s # r => req[s] = Idle
  BY DEF SerialInv, AllIdle
<1>2. DOMAIN req' = Client /\ req'[r] = q /\ \A s \in Client : s # r => req'[s] = Idle
  BY <1>1 DEF Continue, SerialInv
<1>3. AllIdle' <=> q = Idle
  BY <1>2 DEF AllIdle
<1> QED BY <1>2, <1>3 DEF Sees

LEMMA GoesOn ==
    ASSUME SerialInv, NEW r \in Client, NEW q, Continue(r, q), Sees, AllIdle \/ req[r] # Idle,
           q # Idle, UnderWay(OfficerOf[r], req[r])'
    PROVE  Fits
<1>1. /\ DOMAIN req' = Client /\ req'[r] = q
      /\ \A s \in Client : s # r => req'[s] = Idle
      /\ seen' = seen /\ ~AllIdle'
  BY Alone
<1>2. WellFormed(seen.rows)'
  BY <1>1 DEF SerialInv, WellFormed
<1>3. \A s \in Client : req'[s] # Idle => s = r
  BY <1>1
<1>4. SerialInv'
  BY <1>1, <1>2, <1>3 DEF SerialInv
<1> QED BY <1>1, <1>4 DEF Fits

LEMMA Ends ==
    ASSUME SerialInv, NEW r \in Client, Continue(r, Idle), Sees, AllIdle \/ req[r] # Idle,
           WellFormed(rows'), lastLog' = [v \in Unit |-> lastLog'[v]]
    PROVE  SerialInv' /\ seen'.rows = rows' /\ seen'.lastLog = lastLog'
<1>1. /\ DOMAIN req' = Client /\ \A s \in Client : req'[s] = Idle
      /\ seen' = [rows |-> rows', lastLog |-> lastLog']
  BY Alone
<1>2. seen'.rows = rows' /\ seen'.lastLog = lastLog'
  BY <1>1
<1>3. Untouched' /\ WellFormed(seen.rows)'
  BY <1>2 DEF Untouched, WellFormed
<1>4. SerialInv'
  BY <1>1, <1>2, <1>3 DEF SerialInv
<1> QED BY <1>2, <1>4

(* A request that leaves everything as it was. *)
LEMMA GivesUp ==
    ASSUME SerialInv, NEW r \in Client, Continue(r, Idle), Sees, AllIdle \/ req[r] # Idle,
           Untouched, Reads
    PROVE  Fits
<1>1. rows' = seen.rows /\ lastLog' = seen.lastLog
  BY DEF Untouched, Reads
<1>2. WellFormed(rows') /\ lastLog' = [v \in Unit |-> lastLog'[v]]
  BY <1>1 DEF SerialInv
<1>3. SerialInv' /\ seen' = [rows |-> seen.rows, lastLog |-> seen.lastLog]
  BY <1>1, <1>2, Ends, Alone
<1>4. seen' = seen
  BY <1>3 DEF SerialInv
<1> QED BY <1>3, <1>4 DEF Fits

(* Which call a request makes next. *)
LEMMA ResumeAt ==
    ASSUME NEW r \in Client, Resume(r)
    PROVE  /\ req[r].at = "upsert"     => UpsertWrite(r)
           /\ req[r].at = "attach"     => AttachWrite(r)
           /\ req[r].at = "submit"     => SubmitWrite(r)
           /\ req[r].at = "log"        => LogWrite(r)
           /\ req[r].at = "ready"      => Ready(r)
           /\ req[r].at = "approve"    => ApproveWrite(r)
           /\ req[r].at = "approveAll" => ApproveAllWrite(r)
           /\ req[r].at = "count"      => RollupRead(r)
           /\ req[r].at = "rollup"     => RollupWrite(r)
           /\ req[r].at = "ask"        => RejectAskWard(r)
           /\ req[r].at = "reject"     => RejectWrite(r)
           /\ req[r].at = "existing"   => RebuildExisting(r)
           /\ req[r].at = "recount"    => RebuildRead(r)
           /\ req[r].at = "rebuild"    => RebuildWrite(r)
           /\ req[r].at = "find"       => ReturnFind(r)
           /\ req[r].at = "return"     => ReturnNext(r)
           /\ req[r].at # "idle"
<1>1. UpsertWrite(r) => req[r].at = "upsert"        BY DEF UpsertWrite
<1>2. AttachWrite(r) => req[r].at = "attach"        BY DEF AttachWrite
<1>3. SubmitWrite(r) => req[r].at = "submit"        BY DEF SubmitWrite
<1>4. LogWrite(r) => req[r].at = "log"              BY DEF LogWrite
<1>5. Ready(r) => req[r].at = "ready"               BY DEF Ready
<1>6. ApproveWrite(r) => req[r].at = "approve"      BY DEF ApproveWrite
<1>7. ApproveAllWrite(r) => req[r].at = "approveAll" BY DEF ApproveAllWrite
<1>8. RollupRead(r) => req[r].at = "count"          BY DEF RollupRead
<1>9. RollupWrite(r) => req[r].at = "rollup"        BY DEF RollupWrite
<1>10. RejectAskWard(r) => req[r].at = "ask"        BY DEF RejectAskWard
<1>11. RejectWrite(r) => req[r].at = "reject"       BY DEF RejectWrite
<1>12. RebuildExisting(r) => req[r].at = "existing" BY DEF RebuildExisting
<1>13. RebuildRead(r) => req[r].at = "recount"      BY DEF RebuildRead
<1>14. RebuildWrite(r) => req[r].at = "rebuild"     BY DEF RebuildWrite
<1>15. ReturnFind(r) => req[r].at = "find"          BY DEF ReturnFind
<1>16. ReturnNext(r) => req[r].at = "return"        BY DEF ReturnNext
<1> QED BY <1>1, <1>2, <1>3, <1>4, <1>5, <1>6, <1>7, <1>8, <1>9, <1>10, <1>11, <1>12,
           <1>13, <1>14, <1>15, <1>16 DEF Resume

(* One row is written. *)
LEMMA RowWritten ==
    ASSUME NEW rs, WellFormed(rs), NEW u \in Unit, NEW row \in Row,
           row.flagged \subseteq Children(u)
    PROVE  WellFormed([rs EXCEPT ![u] = row])
BY DEF WellFormed

LEMMA LoggedTyped ==
    ASSUME NEW S, NEW to
    PROVE  LoggedSince(S, to) = [v \in Unit |-> LoggedSince(S, to)[v]]
BY DEF LoggedSince

(* writeActionLog about one row more. *)
LEMMA LoggedOneMore ==
    ASSUME NEW r, LogWrite(r), NEW S, NEW u \in Unit, lastLog = LoggedSince(S, req[r].to),
           req[r].unit = u, req[r].from = seen.rows[u].status
    PROVE  lastLog' = LoggedSince(S \union {u}, req[r].to)
BY DEF LoggedSince, LogWrite

LEMMA NothingLogged ==
    ASSUME SerialInv, NEW to
    PROVE  seen.lastLog = LoggedSince({}, to)
BY DEF LoggedSince, SerialInv

-----------------------------------------------------------------------------
(* upsertResult, attachEc8aPhoto, submitResult *)
LEMMA EditResumes ==
    ASSUME SerialInv, NEW r \in Client, req[r] # Idle, EditUnderWay(OfficerOf[r], req[r]),
           Resume(r), Sees
    PROVE  Fits
<1> DEFINE u == OfficerOf[r]
           q == req[r]
<1>1. u \in Unit /\ WellFormed(seen.rows) /\ seen.rows \in [Unit -> Row] /\ seen.rows[u] \in Row
      /\ seen.rows[u].flagged \subseteq Children(u)
  BY ClientAssumption DEF SerialInv, WellFormed
<1>2. CASE q.at = "upsert"
  <2> DEFINE row == [seen.rows[u] EXCEPT !.status = "DRAFT", !.tally = {<<u, q.fig>>},
                                         !.photo = q.photo, !.reason = FALSE]
  <2>1. /\ UpsertWrite(r) /\ q.fig \in Figures /\ q.photo \in BOOLEAN /\ LevelOf[u] # "WARD"
        /\ Untouched /\ seen.rows[u].status \in EditableStatuses \union {"NONE"}
    BY <1>2, ResumeAt DEF EditUnderWay, Log, Untouched
  <2>2. /\ rows' = [seen.rows EXCEPT ![u].status = "DRAFT", ![u].tally  = {<<u, q.fig>>},
                                     ![u].photo  = q.photo, ![u].reason = FALSE]
        /\ lastLog' = seen.lastLog /\ Continue(r, Idle)
    BY <2>1 DEF UpsertWrite, Untouched, GiveUp
  <2>3. rows' = [seen.rows EXCEPT ![u] = row]
    BY <2>2
  <2>4. {<<u, q.fig>>} \in Tallies /\ "DRAFT" \in Status
    BY <1>1, <2>1 DEF Tallies, Status
  <2>5. row \in Row /\ row.flagged \subseteq Children(u)
    <3>1. row \in Row
      BY <1>1, <2>1, <2>4, RowTyped
    <3>2. row.flagged = seen.rows[u].flagged
      BY <1>1 DEF Row
    <3> QED BY <1>1, <3>1, <3>2
  <2> HIDE DEF row
  <2>6. WellFormed(rows')
    BY <1>1, <2>3, <2>5, RowWritten
  <2>7. SerialInv' /\ seen'.rows = rows' /\ seen'.lastLog = lastLog'
    BY <2>2, <2>6, Ends DEF SerialInv
  <2>8. PICK fig \in Figures, photo \in BOOLEAN : fig = q.fig /\ photo = q.photo
    BY <2>1
  <2>9. Serial!Next
    <3>1. /\ seen'.rows = [seen.rows EXCEPT ![u].status = "DRAFT", ![u].tally = {<<u, fig>>},
                                            ![u].photo = photo, ![u].reason = FALSE]
          /\ seen'.lastLog = seen.lastLog
      BY <2>2, <2>7, <2>8
    <3>2. /\ u \in Unit /\ LevelOf[u] # "WARD"
          /\ seen.rows[u].status \in EditableStatuses \union {"NONE"}
      BY <1>1, <2>1
    <3> HIDE DEF u, q
    <3> QED BY <3>1, <3>2, SerialUpsert
  <2> QED BY <2>7, <2>9 DEF Fits
<1>3. CASE q.at = "attach"
  <2> DEFINE row == [seen.rows[u] EXCEPT !.photo = TRUE]
  <2>1. AttachWrite(r) /\ Untouched /\ seen.rows[u].status \in EditableStatuses
    BY <1>3, ResumeAt DEF EditUnderWay, Log, Untouched
  <2>2. /\ rows' = [seen.rows EXCEPT ![u].photo = TRUE]
        /\ lastLog' = seen.lastLog /\ Continue(r, Idle)
    BY <2>1 DEF AttachWrite, Untouched, GiveUp
  <2>3. row \in Row /\ row.flagged \subseteq Children(u)
    BY <1>1 DEF Row
  <2>4. WellFormed(rows')
    BY <1>1, <2>2, <2>3, RowWritten
  <2>5. SerialInv' /\ seen'.rows = rows' /\ seen'.lastLog = lastLog'
    BY <2>2, <2>4, Ends DEF SerialInv
  <2>6. Serial!Next
    BY <1>1, <2>1, <2>2, <2>5, SerialAttach
  <2> QED BY <2>5, <2>6 DEF Fits
<1>4. CASE q.at = "submit"
  <2> DEFINE n == Log(u, q.from, "SUBMITTED", {}, Idle)
  <2>1. SubmitWrite(r) /\ Untouched /\ q.from = seen.rows[u].status /\ MaySubmit(u)
    BY <1>4, ResumeAt DEF EditUnderWay, Log, Untouched
  <2>2. /\ rows' = [seen.rows EXCEPT ![u].status = "SUBMITTED", ![u].reason = FALSE]
        /\ lastLog' = seen.lastLog /\ Continue(r, n) /\ n # Idle
    BY <2>1 DEF SubmitWrite, Untouched, Log, Idle
  <2>3. seen' = seen /\ req'[r] = n
    BY <2>2, Alone
  <2>4. EditUnderWay(u, req[r])'
    BY <2>1, <2>2, <2>3 DEF EditUnderWay, MaySubmit
  <2> QED BY <2>2, <2>4, GoesOn DEF UnderWay
<1>5. CASE q = Log(u, seen.rows[u].status, "SUBMITTED", {}, Idle)
  <2> DEFINE row == [seen.rows[u] EXCEPT !.status = "SUBMITTED", !.reason = FALSE]
  <2>1. /\ q.at = "log" /\ q.unit = u /\ q.from = seen.rows[u].status /\ q.to = "SUBMITTED"
        /\ q.next = Idle
    BY <1>5 DEF Log
  <2>2. /\ LogWrite(r) /\ MaySubmit(u) /\ lastLog = seen.lastLog
        /\ rows = [seen.rows EXCEPT ![u].status = "SUBMITTED", ![u].reason = FALSE]
    BY <2>1, ResumeAt DEF EditUnderWay
  <2>3. lastLog' = LoggedSince({u}, "SUBMITTED") /\ rows' = rows /\ Continue(r, Idle)
    <3>1. lastLog = LoggedSince({}, q.to)
      BY <2>2, NothingLogged
    <3>2. lastLog' = LoggedSince({} \union {u}, q.to)
      BY <1>1, <2>1, <2>2, <3>1, LoggedOneMore
    <3>3. {} \union {u} = {u}
      OBVIOUS
    <3>4. rows' = rows /\ Continue(r, q.next)
      BY <2>2 DEF LogWrite
    <3> QED BY <2>1, <3>2, <3>3, <3>4
  <2>4. row \in Row /\ row.flagged \subseteq Children(u)
    BY <1>1 DEF Row, Status
  <2>5. rows' = [seen.rows EXCEPT ![u] = row]
    BY <2>2, <2>3
  <2>6. WellFormed(rows')
    BY <1>1, <2>4, <2>5, RowWritten
  <2>7. SerialInv' /\ seen'.rows = rows' /\ seen'.lastLog = lastLog'
    BY <2>3, <2>6, Ends, LoggedTyped
  <2>8. Serial!Next
    BY <1>1, <2>2, <2>3, <2>7, SerialSubmit
  <2> QED BY <2>7, <2>8 DEF Fits
<1> QED BY <1>2, <1>3, <1>4, <1>5 DEF EditUnderWay

-----------------------------------------------------------------------------
(* approveResult, approveAllLgaWardResults, rollupToParent *)
LEMMA ApprovedWellFormed ==
    ASSUME WellFormed(seen.rows), NEW c \in Unit
    PROVE  WellFormed(Approved(c))
<1> DEFINE D == Decide(seen.rows, {c}, "APPROVED")
           row == [D[c] EXCEPT !.flagged = {}]
<1>1. D \in [Unit -> Row] /\ \A v \in Unit : D[v].flagged = seen.rows[v].flagged
  <2>1. seen.rows \in [Unit -> Row] /\ {c} \in SUBSET Unit
    BY DEF WellFormed
  <2> QED BY <2>1, DecideApproved
<1>2. Approved(c) = [D EXCEPT ![c].flagged = {}]
  BY DEF Approved
<1> HIDE DEF D
<1>3. WellFormed(D)
  BY <1>1 DEF WellFormed
<1>4. row \in Row /\ row.flagged = {}
  BY <1>1 DEF Row
<1> HIDE DEF row
<1>5. WellFormed([D EXCEPT ![c] = row])
  BY <1>3, <1>4, RowWritten
<1> QED BY <1>2, <1>5 DEF row

LEMMA AllApprovedWellFormed ==
    ASSUME WellFormed(seen.rows), NEW l
    PROVE  WellFormed(AllApproved(l))
<1>1. ASSUME NEW v \in Unit
      PROVE  AllApproved(l)[v] \in Row /\ AllApproved(l)[v].flagged \subseteq Children(v)
  <2>1. seen.rows[v] \in Row /\ seen.rows[v].flagged \subseteq Children(v)
    BY DEF WellFormed
  <2> DEFINE row == [seen.rows[v] EXCEPT !.status = "APPROVED"]
  <2>2. row \in Row /\ row.flagged = seen.rows[v].flagged
    BY <2>1 DEF Row, Status
  <2>3. AllApproved(l)[v] = row \/ AllApproved(l)[v] = seen.rows[v]
    BY DEF AllApproved
  <2> HIDE DEF row
  <2> QED BY <2>1, <2>2, <2>3
<1>2. AllApproved(l) = [v \in Unit |-> AllApproved(l)[v]]
  BY DEF AllApproved
<1> QED BY <1>1, <1>2 DEF WellFormed

LEMMA RollupWellFormed ==
    ASSUME NEW rs, WellFormed(rs), NEW p \in Unit
    PROVE  WellFormed(RollupToParent(rs, p))
<1> DEFINE R == RollupToParent(rs, p)
<1>1. /\ R \in [Unit -> Row] /\ R[p].flagged = rs[p].flagged
      /\ \A v \in Unit : v # p => R[v] = rs[v]
  BY RollupEffect DEF WellFormed
<1> HIDE DEF R
<1>2. WellFormed(R)
  BY <1>1 DEF WellFormed
<1> QED BY <1>2 DEF R

LEMMA HasApprovedWellFormed ==
    ASSUME SerialInv, NEW u \in Unit, HasApproved(u)
    PROVE  WellFormed(rows) /\ lastLog = [v \in Unit |-> lastLog[v]]
<1>1. ASSUME NEW c \in Children(u), rows = Approved(c), lastLog = LoggedSince({c}, "APPROVED")
      PROVE  WellFormed(rows) /\ lastLog = [v \in Unit |-> lastLog[v]]
  <2>1. c \in Unit /\ WellFormed(seen.rows)
    BY Tree DEF Children, SerialInv
  <2>2. WellFormed(Approved(c))
    BY <2>1, ApprovedWellFormed
  <2> QED BY <1>1, <2>2, LoggedTyped
<1>2. CASE rows = AllApproved(u) /\ lastLog = LoggedSince(Pending(u), "APPROVED")
  <2>1. WellFormed(AllApproved(u))
    BY AllApprovedWellFormed DEF SerialInv
  <2> QED BY <1>2, <2>1, LoggedTyped
<1> QED BY <1>1, <1>2 DEF HasApproved

(* The rollup, or its finding that there is nothing to add up, is the end. *)
LEMMA RollupEnds ==
    ASSUME SerialInv, NEW r \in Client, req[r] # Idle, Sees, HasApproved(OfficerOf[r]),
           Continue(r, Idle), rows' = RollupToParent(rows, OfficerOf[r]), lastLog' = lastLog
    PROVE  Fits
<1> DEFINE u == OfficerOf[r]
<1>1. u \in Unit
  BY ClientAssumption
<1>2. WellFormed(rows') /\ lastLog' = [v \in Unit |-> lastLog'[v]]
  BY <1>1, HasApprovedWellFormed, RollupWellFormed
<1>3. SerialInv' /\ seen'.rows = RollupToParent(rows, u) /\ seen'.lastLog = lastLog
  BY <1>2, Ends
<1>4. ASSUME NEW c \in Children(u), MayApprove(c), rows = Approved(c),
             lastLog = LoggedSince({c}, "APPROVED")
      PROVE  Serial!Next
  <2>1. /\ seen'.rows = RollupToParent(Approved(c), u)
        /\ seen'.lastLog = LoggedSince({c}, "APPROVED")
    BY <1>3, <1>4
  <2> QED BY <1>1, <1>4, <2>1, SerialApprove
<1>5. ASSUME MayApproveAll(u), rows = AllApproved(u),
             lastLog = LoggedSince(Pending(u), "APPROVED")
      PROVE  Serial!Next
  <2>1. /\ seen'.rows = RollupToParent(AllApproved(u), u)
        /\ seen'.lastLog = LoggedSince(Pending(u), "APPROVED")
    BY <1>3, <1>5
  <2> QED BY <1>1, <1>5, <2>1, SerialApproveAll
<1>6. Serial!Next
  BY <1>4, <1>5 DEF HasApproved
<1> QED BY <1>3, <1>6 DEF Fits

LEMMA RollupResumes ==
    ASSUME SerialInv, NEW r \in Client, req[r] # Idle, Resume(r), Sees, HasApproved(OfficerOf[r]),
           \/ req[r] = RollupOf(OfficerOf[r])
           \/ /\ req[r] = [at |-> "rollup", unit |-> OfficerOf[r], owes |-> {OfficerOf[r]},
                           tally |-> AggregateTally(rows, OfficerOf[r])]
              /\ ApprovedChildren(rows, OfficerOf[r]) # {}
    PROVE  Fits
<1> DEFINE u == OfficerOf[r]
           n == [at |-> "rollup", unit |-> u, owes |-> {u}, tally |-> AggregateTally(rows, u)]
<1>1. CASE req[r] = RollupOf(u)
  <2>1. RollupRead(r) /\ req[r].unit = u
    BY <1>1, ResumeAt DEF RollupOf
  <2>2. CASE ApprovedChildren(rows, u) = {}
    <3>1. Continue(r, Idle) /\ rows' = RollupToParent(rows, u) /\ lastLog' = lastLog
      BY <2>1, <2>2 DEF RollupRead, GiveUp, Reads, RollupToParent
    <3> QED BY <3>1, RollupEnds
  <2>3. CASE ApprovedChildren(rows, u) # {}
    <3>1. Continue(r, n) /\ n # Idle /\ rows' = rows /\ lastLog' = lastLog
      BY <2>1, <2>3 DEF RollupRead, Reads, Idle
    <3>2. seen' = seen /\ req'[r] = n
      BY <3>1, Alone
    <3>3. HasApproved(u)'
      BY <3>1, <3>2, ZenonT(40) DEF HasApproved, MayApprove, Approved, LoggedSince, MayApproveAll,
         AllApproved, Pending
    <3>4. ApprovalUnderWay(u, req[r])'
      BY <2>3, <3>1, <3>2, <3>3 DEF ApprovalUnderWay
    <3> QED BY <3>1, <3>4, GoesOn DEF UnderWay
  <2> QED BY <2>2, <2>3
<1>2. CASE req[r] = n /\ ApprovedChildren(rows, u) # {}
  <2>1. RollupWrite(r) /\ req[r].unit = u /\ req[r].tally = AggregateTally(rows, u)
    BY <1>2, ResumeAt
  <2>2. Continue(r, Idle) /\ rows' = RollupToParent(rows, u) /\ lastLog' = lastLog
    BY <1>2, <2>1 DEF RollupWrite, GiveUp, RollupToParent
  <2> QED BY <2>2, RollupEnds
<1> QED BY <1>1, <1>2

(* approveResult of c, until its rollup *)
LEMMA ApproveResumes ==
    ASSUME SerialInv, NEW r \in Client, req[r] # Idle, Resume(r), Sees,
           NEW c \in Children(OfficerOf[r]),
           \/ /\ req[r] = ReadyCheck({c}, Approve(c)) /\ LevelOf[c] = "WARD"
              /\ seen.rows[c].status = "SUBMITTED" /\ Untouched
           \/ req[r] = Approve(c) /\ MayApprove(c) /\ Untouched
           \/ /\ req[r] = Log(c, "SUBMITTED", "APPROVED", {OfficerOf[r]}, RollupOf(OfficerOf[r]))
              /\ MayApprove(c) /\ rows = Approved(c) /\ lastLog = seen.lastLog
    PROVE  Fits
<1> DEFINE u == OfficerOf[r]
           q == req[r]
<1>1. u \in Unit /\ c \in Unit /\ Parent[c] = u
  BY ClientAssumption, Tree DEF Children
<1>2. CASE /\ q = ReadyCheck({c}, Approve(c)) /\ LevelOf[c] = "WARD"
           /\ seen.rows[c].status = "SUBMITTED" /\ Untouched
  <2>1. Ready(r) /\ q.wards = {c} /\ q.next = Approve(c)
    BY <1>2, ResumeAt DEF ReadyCheck
  <2>2. /\ Reads
        /\ \/ ~AllPollingUnitsApproved(rows, c) /\ Continue(r, Idle)
           \/ AllPollingUnitsApproved(rows, c) /\ Continue(r, Approve(c))
    <3>1. Reads /\ \E w \in {c} :
             LET left == {c} \ {w}
             IN  IF ~AllPollingUnitsApproved(rows, w) THEN GiveUp(r)
                 ELSE Continue(r, IF left = {} THEN Approve(c)
                                  ELSE ReadyCheck(left, Approve(c)))
      BY <2>1 DEF Ready
    <3>2. {c} \ {c} = {}
      OBVIOUS
    <3> QED BY <3>1, <3>2 DEF GiveUp
  <2>3. CASE Continue(r, Idle)
    BY <1>2, <2>2, <2>3, GivesUp
  <2>4. CASE AllPollingUnitsApproved(rows, c) /\ Continue(r, Approve(c))
    <3>1. Approve(c) # Idle /\ rows' = rows /\ lastLog' = lastLog
      BY <2>2 DEF Approve, Idle, Reads
    <3>2. seen' = seen /\ req'[r] = Approve(c)
      BY <2>4, <3>1, Alone
    <3>3. MayApprove(c)' /\ Untouched'
      BY <1>2, <2>4, <3>1, <3>2 DEF MayApprove, Untouched
    <3>4. ApprovalUnderWay(u, req[r])'
      BY <3>2, <3>3 DEF ApprovalUnderWay
    <3> QED BY <2>4, <3>1, <3>4, GoesOn DEF UnderWay
  <2> QED BY <2>2, <2>3, <2>4
<1>3. CASE q = Approve(c) /\ MayApprove(c) /\ Untouched
  <2> DEFINE n == Log(c, "SUBMITTED", "APPROVED", {u}, RollupOf(u))
  <2>1. ApproveWrite(r) /\ q.unit = c
    BY <1>3, ResumeAt DEF Approve
  <2>2. /\ Continue(r, n) /\ n # Idle /\ rows' = Approved(c) /\ lastLog' = seen.lastLog
    BY <1>1, <1>3, <2>1 DEF ApproveWrite, Approved, Untouched, Log, Idle
  <2>3. seen' = seen /\ req'[r] = n
    BY <2>2, Alone
  <2>4. MayApprove(c)' /\ rows' = Approved(c)'
    BY <1>3, <2>2, <2>3 DEF MayApprove, Approved
  <2> HIDE DEF n
  <2>5. ApprovalUnderWay(u, req[r])'
    BY <2>2, <2>3, <2>4 DEF ApprovalUnderWay, n
  <2> QED BY <2>2, <2>5, GoesOn DEF UnderWay
<1>4. CASE /\ q = Log(c, "SUBMITTED", "APPROVED", {u}, RollupOf(u))
           /\ MayApprove(c) /\ rows = Approved(c) /\ lastLog = seen.lastLog
  <2>1. /\ LogWrite(r) /\ q.unit = c /\ q.from = "SUBMITTED" /\ q.to = "APPROVED"
        /\ q.next = RollupOf(u)
    BY <1>4, ResumeAt DEF Log
  <2>2. Continue(r, RollupOf(u)) /\ RollupOf(u) # Idle /\ rows' = rows
    BY <2>1 DEF LogWrite, RollupOf, Idle
  <2>3. lastLog' = LoggedSince({c}, "APPROVED")
    <3>1. lastLog = LoggedSince({}, "APPROVED")
      BY <1>4, NothingLogged
    <3>2. lastLog' = LoggedSince({} \union {c}, "APPROVED")
      BY <1>1, <1>4, <2>1, <3>1, LoggedOneMore DEF MayApprove
    <3>3. {} \union {c} = {c}
      OBVIOUS
    <3> QED BY <3>2, <3>3
  <2>4. seen' = seen /\ req'[r] = RollupOf(u)
    BY <2>2, Alone
  <2>5. HasApproved(u)'
    BY <1>4, <2>2, <2>3, <2>4 DEF HasApproved, MayApprove, Approved, LoggedSince
  <2>6. ApprovalUnderWay(u, req[r])'
    BY <2>4, <2>5 DEF ApprovalUnderWay
  <2> QED BY <2>2, <2>6, GoesOn DEF UnderWay
<1> QED BY <1>2, <1>3, <1>4

(* approveAllLgaWardResults, until its rollup *)
LEMMA ApproveAllResumes ==
    ASSUME SerialInv, NEW r \in Client, req[r] # Idle, Resume(r), Sees,
           \/ \E W \in SUBSET Pending(OfficerOf[r]) :
                 /\ req[r] = ReadyCheck(W, ApproveAll(OfficerOf[r])) /\ W # {}
                 /\ LevelOf[OfficerOf[r]] = "LGA"
                 /\ \A w \in Pending(OfficerOf[r]) \ W : AllPollingUnitsApproved(seen.rows, w)
                 /\ Untouched
           \/ req[r] = ApproveAll(OfficerOf[r]) /\ MayApproveAll(OfficerOf[r]) /\ Untouched
    PROVE  Fits
<1> DEFINE u == OfficerOf[r]
           q == req[r]
<1>1. ASSUME NEW W \in SUBSET Pending(u), q = ReadyCheck(W, ApproveAll(u)), W # {},
             LevelOf[u] = "LGA", Untouched,
             \A w \in Pending(u) \ W : AllPollingUnitsApproved(seen.rows, w)
      PROVE  Fits
  <2>1. Ready(r) /\ q.wards = W /\ q.next = ApproveAll(u)
    BY <1>1, ResumeAt DEF ReadyCheck
  <2>2. /\ Reads
        /\ \E w \in W : LET left == W \ {w}
                        IN  IF ~AllPollingUnitsApproved(rows, w) THEN GiveUp(r)
                            ELSE Continue(r, IF left = {} THEN ApproveAll(u)
                                             ELSE ReadyCheck(left, ApproveAll(u)))
    BY <2>1 DEF Ready
  <2>3. PICK w \in W :
             IF ~AllPollingUnitsApproved(rows, w) THEN GiveUp(r)
             ELSE Continue(r, IF W \ {w} = {} THEN ApproveAll(u)
                              ELSE ReadyCheck(W \ {w}, ApproveAll(u)))
    BY <2>2
  <2>4. CASE ~AllPollingUnitsApproved(rows, w)
    BY <1>1, <2>2, <2>3, <2>4, GivesUp DEF GiveUp
  <2>5. CASE AllPollingUnitsApproved(rows, w)
    <3> DEFINE n == IF W \ {w} = {} THEN ApproveAll(u) ELSE ReadyCheck(W \ {w}, ApproveAll(u))
    <3>1. Continue(r, n) /\ n # Idle /\ rows' = rows /\ lastLog' = lastLog
      BY <2>2, <2>3, <2>5 DEF ApproveAll, ReadyCheck, Idle, Reads
    <3>2. seen' = seen /\ req'[r] = n
      BY <3>1, Alone
    <3>3. Untouched' /\ Pending(u)' = Pending(u) /\ ApproveAll(u)' = ApproveAll(u)
      BY <1>1, <3>1, <3>2 DEF Untouched, Pending, ApproveAll
    <3>4. \A v \in Pending(u) \ (W \ {w}) : AllPollingUnitsApproved(seen.rows, v)
      BY <1>1, <2>5 DEF Untouched
    <3>5. CASE W \ {w} = {}
      <4>1. req'[r] = ApproveAll(u)'
        BY <3>2, <3>3, <3>5
      <4>2. MayApproveAll(u)'
        BY <1>1, <3>2, <3>3, <3>4, <3>5 DEF MayApproveAll
      <4>3. ApprovalUnderWay(u, req[r])'
        BY <3>3, <4>1, <4>2 DEF ApprovalUnderWay
      <4> QED BY <3>1, <4>3, GoesOn DEF UnderWay
    <3>6. CASE W \ {w} # {}
      <4>1. req'[r] = ReadyCheck(W \ {w}, ApproveAll(u))'
        BY <3>2, <3>3, <3>6 DEF ReadyCheck
      <4>2. W \ {w} \in SUBSET (Pending(u)')
        BY <3>3
      <4>3. \A v \in Pending(u)' \ (W \ {w}) : AllPollingUnitsApproved(seen.rows, v)'
        BY <3>2, <3>3, <3>4
      <4> DEFINE V == W \ {w}
      <4> HIDE DEF V
      <4>4. V \in SUBSET (Pending(u)') /\ V # {} /\ req'[r] = ReadyCheck(V, ApproveAll(u))'
            /\ \A v \in Pending(u)' \ V : AllPollingUnitsApproved(seen.rows, v)'
        BY <3>6, <4>1, <4>2, <4>3 DEF V
      <4>5. ApprovalUnderWay(u, req[r])'
        BY <1>1, <3>3, <4>4 DEF ApprovalUnderWay
      <4> QED BY <3>1, <4>5, GoesOn DEF UnderWay
    <3> QED BY <3>5, <3>6
  <2> QED BY <2>4, <2>5
<1>2. CASE q = ApproveAll(u) /\ MayApproveAll(u) /\ Untouched
  <2>1. ApproveAllWrite(r) /\ q.units = Pending(u)
    BY <1>2, ResumeAt DEF ApproveAll
  <2>2. Continue(r, RollupOf(u)) /\ RollupOf(u) # Idle /\ rows' = AllApproved(u)
    BY <1>2, <2>1 DEF ApproveAllWrite, AllApproved, Untouched, RollupOf, Idle
  <2>3. lastLog' = LoggedSince(Pending(u), "APPROVED")
    BY <1>2, <2>1 DEF ApproveAllWrite, LoggedSince, Pending, Untouched
  <2>4. seen' = seen /\ req'[r] = RollupOf(u)
    BY <2>2, Alone
  <2>5. HasApproved(u)'
    BY <1>2, <2>2, <2>3, <2>4 DEF HasApproved, MayApproveAll, AllApproved, LoggedSince, Pending
  <2>6. ApprovalUnderWay(u, req[r])'
    BY <2>4, <2>5 DEF ApprovalUnderWay
  <2> QED BY <2>2, <2>6, GoesOn DEF UnderWay
<1> QED BY <1>1, <1>2

LEMMA ApprovalResumes ==
    ASSUME SerialInv, NEW r \in Client, req[r] # Idle, ApprovalUnderWay(OfficerOf[r], req[r]),
           Resume(r), Sees
    PROVE  Fits
BY ApproveResumes, ApproveAllResumes, RollupResumes DEF ApprovalUnderWay

-----------------------------------------------------------------------------
(* rejectResult of a unit that is no polling unit *)
LEMMA SentDownWellFormed ==
    ASSUME WellFormed(seen.rows), NEW c \in Unit, NEW flags,
           flags \subseteq (IF LevelOf[c] = "WARD" THEN Children(c) ELSE {})
    PROVE  WellFormed(SentDown(c, flags))
<1> DEFINE D == Decide(seen.rows, {c}, "REJECTED")
           row == [D[c] EXCEPT !.flagged = flags]
<1>1. D \in [Unit -> Row] /\ \A v \in Unit : D[v].flagged = seen.rows[v].flagged
  <2>1. seen.rows \in [Unit -> Row] /\ {c} \in SUBSET Unit
    BY DEF WellFormed
  <2> QED BY <2>1, DecideRejected
<1>2. SentDown(c, flags) = IF LevelOf[c] = "WARD" THEN [D EXCEPT ![c].flagged = flags] ELSE D
  BY DEF SentDown
<1> HIDE DEF D
<1>3. WellFormed(D)
  BY <1>1 DEF WellFormed
<1>4. ASSUME LevelOf[c] = "WARD" PROVE WellFormed([D EXCEPT ![c] = row])
  <2>1. flags \subseteq Children(c) /\ flags \in SUBSET Unit
    BY <1>4, Tree DEF Children
  <2>2. row \in Row /\ row.flagged \subseteq Children(c)
    BY <1>1, <2>1 DEF Row
  <2> HIDE DEF row
  <2> QED BY <1>3, <2>2, RowWritten
<1> QED BY <1>2, <1>3, <1>4

LEMMA RejectionResumes ==
    ASSUME SerialInv, NEW r \in Client, req[r] # Idle, RejectionUnderWay(OfficerOf[r], req[r]),
           Resume(r), Sees
    PROVE  Fits
<1> DEFINE u == OfficerOf[r]
           q == req[r]
<1>1. PICK c \in Children(u) \ PollingUnits, flags \in SUBSET Unit :
         /\ seen.rows[c].status = "SUBMITTED"
         /\ flags \subseteq (IF LevelOf[c] = "WARD" THEN Children(c) ELSE {})
         /\ \/ q = RejectCall(c, flags, FALSE, {}) /\ Untouched
            \/ /\ q = Log(c, "SUBMITTED", "REJECTED", {}, Idle)
               /\ rows = SentDown(c, flags) /\ lastLog = seen.lastLog
  BY DEF RejectionUnderWay
<1> DEFINE n == Log(c, "SUBMITTED", "REJECTED", {}, Idle)
<1>2. u \in Unit /\ c \in Unit /\ WellFormed(seen.rows)
  BY ClientAssumption, Tree DEF Children, SerialInv
<1>3. CASE q = RejectCall(c, flags, FALSE, {}) /\ Untouched
  <2>1. /\ RejectWrite(r) /\ q.unit = c /\ q.flags = flags /\ q.reopened = FALSE
        /\ q.rest = {} /\ q.from = "SUBMITTED"
    BY <1>1, <1>3, ResumeAt DEF RejectCall
  <2>2. /\ rows' = IF LevelOf[c] = "WARD"
                   THEN [Decide(rows, {c}, "REJECTED") EXCEPT ![c].flagged = flags]
                   ELSE Decide(rows, {c}, "REJECTED")
        /\ Continue(r, Log(c, "SUBMITTED", "REJECTED", {}, ReturnRest({})))
        /\ lastLog' = lastLog
    BY <2>1 DEF RejectWrite
  <2>3. ReturnRest({}) = Idle
    BY DEF ReturnRest
  <2>4. Continue(r, n) /\ n # Idle /\ rows' = SentDown(c, flags) /\ lastLog' = seen.lastLog
    BY <1>3, <2>2, <2>3 DEF SentDown, Untouched, Log, Idle
  <2>5. seen' = seen /\ req'[r] = n
    BY <2>4, Alone
  <2>6. rows' = SentDown(c, flags)' /\ lastLog' = seen'.lastLog
        /\ seen'.rows[c].status = "SUBMITTED"
    BY <1>1, <2>4, <2>5 DEF SentDown
  <2>7. RejectionUnderWay(u, req[r])'
    BY <1>1, <2>5, <2>6 DEF RejectionUnderWay
  <2> QED BY <2>4, <2>7, GoesOn DEF UnderWay
<1>4. CASE q = n /\ rows = SentDown(c, flags) /\ lastLog = seen.lastLog
  <2>1. /\ LogWrite(r) /\ q.unit = c /\ q.from = "SUBMITTED" /\ q.to = "REJECTED"
        /\ q.next = Idle
    BY <1>4, ResumeAt DEF Log
  <2>2. Continue(r, Idle) /\ rows' = SentDown(c, flags)
    BY <1>4, <2>1 DEF LogWrite
  <2>3. lastLog' = LoggedSince({c}, "REJECTED")
    <3>1. lastLog = LoggedSince({}, "REJECTED")
      BY <1>4, NothingLogged
    <3>2. lastLog' = LoggedSince({} \union {c}, "REJECTED")
      BY <1>1, <1>2, <2>1, <3>1, LoggedOneMore
    <3>3. {} \union {c} = {c}
      OBVIOUS
    <3> QED BY <3>2, <3>3
  <2>4. WellFormed(rows')
    BY <1>1, <1>2, <2>2, SentDownWellFormed
  <2>5. /\ SerialInv' /\ seen'.rows = SentDown(c, flags)
        /\ seen'.lastLog = LoggedSince({c}, "REJECTED")
    BY <2>2, <2>3, <2>4, Ends, LoggedTyped
  <2>6. Serial!Next
    BY <1>1, <1>2, <2>5, SerialReject
  <2> QED BY <2>5, <2>6 DEF Fits
<1> QED BY <1>1, <1>3, <1>4

-----------------------------------------------------------------------------
(* resubmitWardToLga *)
LEMMA RebuildWellFormed ==
    ASSUME WellFormed(seen.rows), NEW u \in Unit
    PROVE  WellFormed(RebuildWardRollup(seen.rows, u, TRUE))
<1> DEFINE R == RebuildWardRollup(seen.rows, u, TRUE)
<1>1. /\ R \in [Unit -> Row] /\ R[u].flagged = {}
      /\ \A v \in Unit : v # u => R[v] = seen.rows[v]
  BY ForceSubmitEffect DEF WellFormed
<1> HIDE DEF R
<1>2. WellFormed(R)
  BY <1>1 DEF WellFormed
<1> QED BY <1>2 DEF R

LEMMA ResubmissionResumes ==
    ASSUME SerialInv, NEW r \in Client, req[r] # Idle,
           ResubmissionUnderWay(OfficerOf[r], req[r]), Resume(r), Sees
    PROVE  Fits
<1> DEFINE u == OfficerOf[r]
           q == req[r]
           done == Log(u, "REJECTED", "SUBMITTED", {}, Idle)
           recount == [at |-> "recount", unit |-> u, force |-> TRUE,
                       reason |-> seen.rows[u].reason, flagged |-> seen.rows[u].flagged,
                       owes |-> {}, next |-> done]
           rebuild == [at |-> "rebuild", unit |-> u, force |-> TRUE,
                       reason |-> seen.rows[u].reason, flagged |-> seen.rows[u].flagged,
                       tally |-> AggregateTally(rows, u), owes |-> {}, next |-> done]
<1>1. /\ u \in Wards /\ u \in Unit /\ WellFormed(seen.rows) /\ seen.rows[u] \in Row
      /\ seen.rows[u].status = "REJECTED" /\ lastLog = seen.lastLog /\ LevelOf[u] = "WARD"
  BY ClientAssumption DEF ResubmissionUnderWay, Wards, SerialInv, WellFormed
<1>2. CASE q = ReadyCheck({u}, RebuildOf(u, TRUE, {}, done)) /\ rows = seen.rows
  <2> DEFINE n == RebuildOf(u, TRUE, {}, done)
  <2>1. Ready(r) /\ q.wards = {u} /\ q.next = n
    BY <1>2, ResumeAt DEF ReadyCheck
  <2>2. n # Idle
    BY DEF RebuildOf, Idle
  <2> HIDE DEF n
  <2>3. /\ Reads
        /\ \/ ~AllPollingUnitsApproved(rows, u) /\ Continue(r, Idle)
           \/ AllPollingUnitsApproved(rows, u) /\ Continue(r, n)
    <3>1. Reads /\ \E w \in {u} :
             LET left == {u} \ {w}
             IN  IF ~AllPollingUnitsApproved(rows, w) THEN GiveUp(r)
                 ELSE Continue(r, IF left = {} THEN n ELSE ReadyCheck(left, n))
      BY <2>1 DEF Ready
    <3>2. {u} \ {u} = {}
      OBVIOUS
    <3> QED BY <3>1, <3>2 DEF GiveUp
  <2>4. CASE Continue(r, Idle)
    BY <1>1, <1>2, <2>3, <2>4, GivesUp DEF Untouched
  <2>5. CASE AllPollingUnitsApproved(rows, u) /\ Continue(r, n)
    <3>1. rows' = rows /\ lastLog' = lastLog
      BY <2>3 DEF Reads
    <3>2. seen' = seen /\ req'[r] = n
      BY <2>2, <2>5, Alone
    <3>3. ResubmissionUnderWay(u, req[r])'
      BY <1>1, <1>2, <2>5, <3>1, <3>2 DEF ResubmissionUnderWay, n
    <3> QED BY <2>2, <2>5, <3>3, GoesOn DEF UnderWay
  <2> QED BY <2>3, <2>4, <2>5
<1>3. CASE q = RebuildOf(u, TRUE, {}, done) /\ rows = seen.rows
           /\ AllPollingUnitsApproved(seen.rows, u)
  <2>1. /\ RebuildExisting(r) /\ q.unit = u /\ q.force = TRUE /\ q.owes = {} /\ q.next = done
    BY <1>3, ResumeAt DEF RebuildOf
  <2>2. /\ Continue(r, recount) /\ recount # Idle /\ rows' = rows /\ lastLog' = lastLog
    BY <1>3, <2>1 DEF RebuildExisting, Reads, Idle
  <2>3. seen' = seen /\ req'[r] = recount
    BY <2>2, Alone
  <2>4. ResubmissionUnderWay(u, req[r])'
    BY <1>1, <1>3, <2>2, <2>3 DEF ResubmissionUnderWay
  <2> QED BY <2>2, <2>4, GoesOn DEF UnderWay
<1>4. CASE q = recount /\ rows = seen.rows /\ AllPollingUnitsApproved(seen.rows, u)
  <2>1. /\ RebuildRead(r) /\ q.unit = u /\ q.force = TRUE /\ q.owes = {} /\ q.next = done
        /\ q.reason = seen.rows[u].reason /\ q.flagged = seen.rows[u].flagged
    BY <1>4, ResumeAt
  <2>2. /\ Continue(r, rebuild) /\ rebuild # Idle /\ rows' = rows /\ lastLog' = lastLog
    BY <1>4, <2>1 DEF RebuildRead, Reads, Idle
  <2>3. seen' = seen /\ req'[r] = rebuild
    BY <2>2, Alone
  <2>4. AggregateTally(rows, u)' = AggregateTally(rows, u)
    BY <2>2 DEF AggregateTally, ApprovedChildren
  <2>5. ResubmissionUnderWay(u, req[r])'
    BY <1>1, <1>4, <2>2, <2>3, <2>4 DEF ResubmissionUnderWay
  <2> QED BY <2>2, <2>5, GoesOn DEF UnderWay
<1>5. CASE q = rebuild /\ rows = seen.rows /\ AllPollingUnitsApproved(seen.rows, u)
  <2>1. /\ RebuildWrite(r) /\ q.unit = u /\ q.force = TRUE /\ q.next = done
        /\ q.reason = seen.rows[u].reason /\ q.tally = AggregateTally(rows, u)
    BY <1>5, ResumeAt
  <2>2. /\ Continue(r, done) /\ done # Idle /\ lastLog' = lastLog
        /\ rows' = RebuildWardRollup(seen.rows, u, TRUE)
    BY <1>1, <1>5, <2>1 DEF RebuildWrite, RebuildWardRollup, Log, Idle, Row
  <2>3. seen' = seen /\ req'[r] = done
    BY <2>2, Alone
  <2>4. ResubmissionUnderWay(u, req[r])'
    BY <1>1, <1>5, <2>2, <2>3 DEF ResubmissionUnderWay
  <2> QED BY <2>2, <2>4, GoesOn DEF UnderWay
<1>6. CASE q = done /\ rows = RebuildWardRollup(seen.rows, u, TRUE)
           /\ AllPollingUnitsApproved(seen.rows, u)
  <2>1. /\ LogWrite(r) /\ q.unit = u /\ q.from = "REJECTED" /\ q.to = "SUBMITTED"
        /\ q.next = Idle
    BY <1>6, ResumeAt DEF Log
  <2>2. Continue(r, Idle) /\ rows' = RebuildWardRollup(seen.rows, u, TRUE)
    BY <1>6, <2>1 DEF LogWrite
  <2>3. lastLog' = LoggedSince({u}, "SUBMITTED")
    <3>1. lastLog = LoggedSince({}, "SUBMITTED")
      BY <1>1, NothingLogged
    <3>2. lastLog' = LoggedSince({} \union {u}, "SUBMITTED")
      BY <1>1, <2>1, <3>1, LoggedOneMore
    <3>3. {} \union {u} = {u}
      OBVIOUS
    <3> QED BY <3>2, <3>3
  <2>4. WellFormed(rows')
    BY <1>1, <2>2, RebuildWellFormed
  <2>5. /\ SerialInv' /\ seen'.rows = RebuildWardRollup(seen.rows, u, TRUE)
        /\ seen'.lastLog = LoggedSince({u}, "SUBMITTED")
    BY <2>2, <2>3, <2>4, Ends, LoggedTyped
  <2>6. Serial!Next
    BY <1>1, <1>6, <2>5, SerialResubmit
  <2> QED BY <2>5, <2>6 DEF Fits
<1> QED BY <1>2, <1>3, <1>4, <1>5, <1>6 DEF ResubmissionUnderWay

-----------------------------------------------------------------------------
(* rejectResult of polling units: what the rows are between two of them. *)
LEMMA RecountedRows ==
    ASSUME WellFormed(seen.rows), NEW u \in Wards, NEW D \in SUBSET Children(u)
    PROVE  LET R == Recounted(u, D)
               S == Decide(seen.rows, D, "REJECTED")
           IN  /\ WellFormed(R)
               /\ S \in [Unit -> Row] /\ S[u] = seen.rows[u]
               /\ \A v \in Unit : v # u => R[v] = S[v]
               /\ R[u] = [seen.rows[u] EXCEPT !.tally = R[u].tally]
               /\ R[u].tally = IF Reopens(D) THEN AggregateTally(S, u) ELSE seen.rows[u].tally
               /\ \A v \in D : v \in Unit /\ v # u
<1> DEFINE R == Recounted(u, D)
           S == Decide(seen.rows, D, "REJECTED")
           row == [S[u] EXCEPT !.tally = AggregateTally(S, u)]
<1>1. u \in Unit /\ D \in SUBSET Unit /\ u \notin D /\ \A v \in D : v \in Unit /\ v # u
  BY Tree DEF Wards, Children
<1>2. /\ S \in [Unit -> Row] /\ \A v \in Unit : S[v].flagged = seen.rows[v].flagged
      /\ S[u] = seen.rows[u]
  <2>1. seen.rows \in [Unit -> Row] /\ u \in Unit \ D
    BY <1>1 DEF WellFormed
  <2> QED BY <1>1, <2>1, DecideRejected, ZenonT(40)
<1>3. R = IF Reopens(D) THEN [S EXCEPT ![u].tally = AggregateTally(S, u)] ELSE S
  BY DEF Recounted
<1>4. AggregateTally(S, u) \in Tallies
  BY <1>1, <1>2, AggregateType
<1> HIDE DEF S, R
<1>5. WellFormed(S) /\ S[u] \in Row
  BY <1>1, <1>2 DEF WellFormed
<1>6. row \in Row /\ row.flagged = S[u].flagged /\ row.tally = AggregateTally(S, u)
  BY <1>4, <1>5 DEF Row
<1>7. CASE Reopens(D)
  <2>1. R = [S EXCEPT ![u] = row]
    BY <1>3, <1>7
  <2>2. R[u] = row /\ \A v \in Unit : v # u => R[v] = S[v]
    BY <1>1, <1>2, <2>1
  <2>3. R[u] = [seen.rows[u] EXCEPT !.tally = R[u].tally]
    BY <1>2, <1>6, <2>2
  <2> HIDE DEF row
  <2>4. row.flagged \subseteq Children(u)
    BY <1>1, <1>5, <1>6 DEF WellFormed
  <2>5. WellFormed(R)
    BY <1>1, <1>5, <1>6, <2>1, <2>4, RowWritten
  <2> QED BY <1>1, <1>2, <1>6, <1>7, <2>2, <2>3, <2>5 DEF R, S
<1>8. CASE ~Reopens(D)
  <2>1. R = S
    BY <1>3, <1>8
  <2>2. R[u] = [seen.rows[u] EXCEPT !.tally = R[u].tally]
    BY <1>2, <1>5, <2>1 DEF Row
  <2> QED BY <1>1, <1>2, <1>5, <1>8, <2>1, <2>2 DEF R, S
<1> QED BY <1>7, <1>8

LEMMA NothingReturned ==
    ASSUME SerialInv, NEW u
    PROVE  Recounted(u, {}) = seen.rows /\ LoggedSince({}, "REJECTED") = seen.lastLog
<1>1. Decide(seen.rows, {}, "REJECTED") = seen.rows
  BY DEF Decide, SerialInv, WellFormed
<1>2. ~Reopens({})
  BY DEF Reopens
<1> QED BY <1>1, <1>2, NothingLogged DEF Recounted

(* A unit that was approved is returned: its ward has yet to be recounted. *)
LEMMA ApprovedReturned ==
    ASSUME WellFormed(seen.rows), NEW u \in Wards, NEW D \in SUBSET Children(u),
           NEW p \in Children(u), seen.rows[p].status = "APPROVED",
           rows = Recounted(u, D)
    PROVE  LET R == Decide(rows, {p}, "REJECTED")
           IN  /\ R = [Decide(seen.rows, D \union {p}, "REJECTED") EXCEPT ![u].tally = R[u].tally]
               /\ Reopens(D \union {p})
<1> DEFINE R == Decide(rows, {p}, "REJECTED")
           S == Decide(seen.rows, D, "REJECTED")
           S2 == Decide(seen.rows, D \union {p}, "REJECTED")
           Q == [S2 EXCEPT ![u].tally = R[u].tally]
<1>1. /\ u \in Unit /\ p \in Unit /\ p # u /\ seen.rows[p] \in Row
      /\ S[u] = seen.rows[u] /\ \A v \in Unit : v # u => rows[v] = S[v]
      /\ rows[u] = [seen.rows[u] EXCEPT !.tally = rows[u].tally]
      /\ u \notin D
  <2>1. /\ S[u] = seen.rows[u] /\ \A v \in Unit : v # u => rows[v] = S[v]
        /\ rows[u] = [seen.rows[u] EXCEPT !.tally = rows[u].tally]
        /\ u \notin D
    BY RecountedRows
  <2>2. u \in Unit /\ p \in Unit /\ p # u /\ seen.rows[p] \in Row
    BY Tree DEF Wards, WellFormed
  <2> HIDE DEF S
  <2> QED BY <2>1, <2>2
<1>2. \A v \in Unit : R[v] = IF v = p THEN [rows[p] EXCEPT !.status = "REJECTED", !.reason = TRUE]
                             ELSE rows[v]
  BY DEF Decide
<1>3. \A v \in Unit : S2[v] = IF v \in D \/ v = p
                              THEN [seen.rows[v] EXCEPT !.status = "REJECTED", !.reason = TRUE]
                              ELSE seen.rows[v]
  BY DEF Decide
<1>4. \A v \in Unit : S[v] = IF v \in D
                             THEN [seen.rows[v] EXCEPT !.status = "REJECTED", !.reason = TRUE]
                             ELSE seen.rows[v]
  BY DEF Decide
<1>5. R = [v \in Unit |-> R[v]] /\ S2 = [v \in Unit |-> S2[v]]
  BY DEF Decide
<1> HIDE DEF R, S, S2
<1>6. \A v \in Unit : v # u => Q[v] = S2[v]
  BY <1>5
<1>7. Q[u] = [S2[u] EXCEPT !.tally = R[u].tally]
  BY <1>1, <1>5
<1>8. Q = [v \in Unit |-> Q[v]]
  BY <1>5
<1> HIDE DEF Q
<1>9. R[u] = Q[u]
  <2>1. R[u] = rows[u] /\ S2[u] = seen.rows[u]
    BY <1>1, <1>2, <1>3
  <2> QED BY <1>1, <1>7, <2>1
<1>10. ASSUME NEW v \in Unit, v # u PROVE R[v] = Q[v]
  <2>1. Q[v] = S2[v] /\ rows[v] = S[v]
    BY <1>1, <1>6, <1>10
  <2>2. CASE v = p
    <3>1. R[p] = [S[p] EXCEPT !.status = "REJECTED", !.reason = TRUE]
      BY <1>1, <1>2, <2>1, <2>2
    <3>2. S2[p] = [seen.rows[p] EXCEPT !.status = "REJECTED", !.reason = TRUE]
      BY <1>1, <1>3
    <3>3. CASE p \in D
      <4>1. S[p] = [seen.rows[p] EXCEPT !.status = "REJECTED", !.reason = TRUE]
        BY <1>1, <1>4, <3>3
      <4>2. [S[p] EXCEPT !.status = "REJECTED", !.reason = TRUE] = S[p]
        BY <1>1, <4>1 DEF Row
      <4> QED BY <2>1, <2>2, <3>1, <3>2, <4>1, <4>2
    <3>4. CASE p \notin D
      <4>1. S[p] = seen.rows[p]
        BY <1>1, <1>4, <3>4
      <4> QED BY <2>1, <2>2, <3>1, <3>2, <4>1
    <3> QED BY <3>3, <3>4
  <2>3. CASE v # p
    <3>1. R[v] = S[v]
      BY <1>2, <2>1, <2>3
    <3>2. S[v] = S2[v]
      BY <1>3, <1>4, <2>3
    <3> QED BY <2>1, <3>1, <3>2
  <2> QED BY <2>2, <2>3
<1>11. R = Q
  BY <1>5, <1>8, <1>9, <1>10
<1>12. Reopens(D \union {p})
  BY DEF Reopens
<1> QED BY <1>11, <1>12 DEF Q, R, S2

(* A unit that was only submitted is returned: no total has to be changed. *)
LEMMA SubmittedReturned ==
    ASSUME WellFormed(seen.rows), NEW u \in Wards, NEW D \in SUBSET Children(u),
           NEW p \in Children(u), p \notin D, seen.rows[p].status = "SUBMITTED",
           rows = Recounted(u, D)
    PROVE  Decide(rows, {p}, "REJECTED") = Recounted(u, D \union {p})
<1> DEFINE E == D \union {p}
           R == Decide(rows, {p}, "REJECTED")
           Q == Recounted(u, E)
           S == Decide(seen.rows, D, "REJECTED")
           S2 == Decide(seen.rows, E, "REJECTED")
<1>1. E \in SUBSET Children(u) /\ (Reopens(E) <=> Reopens(D))
  BY DEF Reopens
<1>2. /\ u \in Unit /\ p \in Unit /\ p # u
      /\ S[u] = seen.rows[u] /\ \A v \in Unit : v # u => rows[v] = S[v]
      /\ rows[u] = [seen.rows[u] EXCEPT !.tally = rows[u].tally]
      /\ rows[u].tally = IF Reopens(D) THEN AggregateTally(S, u) ELSE seen.rows[u].tally
  <2>1. /\ S[u] = seen.rows[u] /\ \A v \in Unit : v # u => rows[v] = S[v]
        /\ rows[u] = [seen.rows[u] EXCEPT !.tally = rows[u].tally]
        /\ rows[u].tally = IF Reopens(D) THEN AggregateTally(S, u) ELSE seen.rows[u].tally
    BY RecountedRows
  <2>2. u \in Unit /\ p \in Unit /\ p # u
    BY Tree DEF Wards
  <2> HIDE DEF S
  <2> QED BY <2>1, <2>2
<1> HIDE DEF E
<1>3. /\ WellFormed(Q) /\ \A v \in Unit : v # u => Q[v] = S2[v]
      /\ Q[u] = [seen.rows[u] EXCEPT !.tally = Q[u].tally]
      /\ Q[u].tally = IF Reopens(E) THEN AggregateTally(S2, u) ELSE seen.rows[u].tally
  BY <1>1, RecountedRows
<1>4. /\ R = [v \in Unit |-> R[v]]
      /\ \A v \in Unit : R[v] = IF v = p
                                THEN [rows[p] EXCEPT !.status = "REJECTED", !.reason = TRUE]
                                ELSE rows[v]
  BY DEF Decide
<1>5. \A v \in Unit : S2[v] = IF v \in D \/ v = p
                              THEN [seen.rows[v] EXCEPT !.status = "REJECTED", !.reason = TRUE]
                              ELSE seen.rows[v]
  BY DEF Decide, E
<1>6. \A v \in Unit : S[v] = IF v \in D
                             THEN [seen.rows[v] EXCEPT !.status = "REJECTED", !.reason = TRUE]
                             ELSE seen.rows[v]
  BY DEF Decide
<1> HIDE DEF R, S, S2, Q
<1>7. S[p] = seen.rows[p] /\ S2[p] = [S[p] EXCEPT !.status = "REJECTED", !.reason = TRUE]
      /\ \A v \in Unit : v # p => S2[v] = S[v]
  BY <1>2, <1>5, <1>6
<1>8. AggregateTally(S2, u) = AggregateTally(S, u)
  <2>1. S[p].status = "SUBMITTED" /\ S2[p].status = "REJECTED"
    <3>1. seen.rows[p] \in Row
      BY <1>2 DEF WellFormed
    <3> QED BY <1>7, <3>1 DEF Row
  <2>2. \A c \in Children(u) : c \in Unit
    BY Tree DEF Children
  <2>3. ApprovedChildren(S2, u) = ApprovedChildren(S, u)
    BY <1>7, <2>1, <2>2 DEF ApprovedChildren
  <2>4. \A c \in ApprovedChildren(S, u) : S2[c].tally = S[c].tally
    BY <1>7, <2>1, <2>2 DEF ApprovedChildren
  <2> QED BY <2>3, <2>4 DEF AggregateTally
<1>9. R[u] = Q[u]
  <2>1. R[u] = rows[u]
    BY <1>2, <1>4
  <2>2. rows[u].tally = Q[u].tally
    BY <1>1, <1>2, <1>3, <1>8
  <2> QED BY <1>2, <1>3, <2>1, <2>2
<1>10. ASSUME NEW v \in Unit, v # u PROVE R[v] = Q[v]
  <2>1. Q[v] = S2[v] /\ rows[v] = S[v]
    BY <1>2, <1>3, <1>10
  <2>2. CASE v = p
    <3>1. R[p] = [rows[p] EXCEPT !.status = "REJECTED", !.reason = TRUE]
      BY <1>2, <1>4
    <3> QED BY <1>7, <2>1, <2>2, <3>1
  <2>3. CASE v # p
    BY <1>4, <1>7, <2>1, <2>3
  <2> QED BY <2>2, <2>3
<1>11. Q = [v \in Unit |-> Q[v]]
  BY <1>3 DEF WellFormed
<1> QED BY <1>4, <1>9, <1>10, <1>11 DEF R, Q, E

(* rebuildWardRollupAfterPuChange makes up for what was returned. *)
LEMMA UncountedRebuilt ==
    ASSUME WellFormed(seen.rows), NEW u \in Wards, NEW D \in SUBSET Children(u), Uncounted(u, D)
    PROVE  [rows EXCEPT ![u].status = "REJECTED", ![u].tally = AggregateTally(rows, u),
                        ![u].reason = seen.rows[u].reason, ![u].flagged = seen.rows[u].flagged]
              = Recounted(u, D)
<1> DEFINE S == Decide(seen.rows, D, "REJECTED")
<1>1. u \in Unit /\ S \in [Unit -> Row] /\ S[u] = seen.rows[u] /\ S[u] \in Row
  <2>1. S \in [Unit -> Row] /\ S[u] = seen.rows[u]
    BY RecountedRows
  <2>2. u \in Unit
    BY DEF Wards
  <2> HIDE DEF S
  <2> QED BY <2>1, <2>2
<1>2. rows = [S EXCEPT ![u].tally = rows[u].tally] /\ Reopens(D) /\ S[u].status = "REJECTED"
  BY <1>1 DEF Uncounted
<1> HIDE DEF S
<1>3. \A c \in Children(u) : rows[c] = S[c]
  BY <1>1, <1>2, Tree DEF Children
<1>4. AggregateTally(rows, u) = AggregateTally(S, u)
  BY <1>3, AggregateDepends
<1>5. Recounted(u, D) = [S EXCEPT ![u].tally = AggregateTally(S, u)]
  BY <1>2 DEF Recounted, S
<1> DEFINE row == [rows[u] EXCEPT !.status = "REJECTED", !.tally = AggregateTally(S, u),
                                  !.reason = S[u].reason, !.flagged = S[u].flagged]
           t == rows[u].tally
<1>6. rows[u] = [S[u] EXCEPT !.tally = t]
  BY <1>1, <1>2
<1>7. rows = [S EXCEPT ![u].tally = t]
  BY <1>2
<1> HIDE DEF t
<1>8. row = [S[u] EXCEPT !.tally = AggregateTally(S, u)]
  BY <1>1, <1>2, <1>6 DEF Row
<1>9. [rows EXCEPT ![u].status = "REJECTED", ![u].tally = AggregateTally(rows, u),
                   ![u].reason = seen.rows[u].reason, ![u].flagged = seen.rows[u].flagged]
         = [rows EXCEPT ![u] = row]
  BY <1>1, <1>4
<1>10. [S EXCEPT ![u].tally = AggregateTally(S, u)] = [S EXCEPT ![u] = row]
  BY <1>8
<1> HIDE DEF row
<1>11. [rows EXCEPT ![u] = row] = [S EXCEPT ![u] = row]
  BY <1>1, <1>7
<1> QED BY <1>5, <1>9, <1>10, <1>11

LEMMA SeenStays ==
    ASSUME seen' = seen, NEW u, NEW D
    PROVE  /\ Recounted(u, D)' = Recounted(u, D)
           /\ LoggedSince(D, "REJECTED")' = LoggedSince(D, "REJECTED")
           /\ MayReturn(u, D)' <=> MayReturn(u, D)
           /\ Reopens(D)' <=> Reopens(D)
           /\ Decide(seen.rows, D, "REJECTED")' = Decide(seen.rows, D, "REJECTED")
BY DEF Recounted, LoggedSince, MayReturn, Reopens, Decide, AggregateTally, ApprovedChildren, Flagged

(* Between two units, or after the last. *)
LEMMA ReturnGoesOn ==
    ASSUME SerialInv, NEW r \in Client, AllIdle \/ req[r] # Idle, Sees, OfficerOf[r] \in Wards,
           NEW T \in SUBSET Children(OfficerOf[r]), NEW P \in SUBSET T, MayReturn(OfficerOf[r], T),
           Reopens(T \ P) => seen.rows[OfficerOf[r]].status = "REJECTED",
           Continue(r, ReturnRest(P)), rows' = Recounted(OfficerOf[r], T \ P),
           lastLog' = LoggedSince(T \ P, "REJECTED")
    PROVE  Fits
<1> DEFINE u == OfficerOf[r]
<1>1. WellFormed(seen.rows) /\ seen.rows \in [Unit -> Row]
  BY DEF SerialInv, WellFormed
<1>2. CASE P = {}
  <2>1. ReturnRest(P) = Idle /\ T \ P = T
    BY <1>2 DEF ReturnRest
  <2>2. WellFormed(rows')
    BY <1>1, <2>1, RecountedRows
  <2>3. /\ SerialInv' /\ seen'.rows = Recounted(u, T) /\ seen'.lastLog = LoggedSince(T, "REJECTED")
    BY <2>1, <2>2, Ends, LoggedTyped
  <2>4. Serial!Next
    BY <1>1, <2>1, <2>3, SerialReturn
  <2> QED BY <2>3, <2>4 DEF Fits
<1>3. CASE P # {}
  <2>1. ReturnRest(P) # Idle
    BY <1>3 DEF ReturnRest, Idle
  <2>2. seen' = seen /\ req'[r] = ReturnRest(P)
    BY <2>1, Alone
  <2>3. AtWard(u, T, P, req[r])' /\ MayReturn(u, T)'
    BY <1>3, <2>2, SeenStays DEF AtWard
  <2>4. ReturnUnderWay(u, req[r])'
    BY <2>3 DEF ReturnUnderWay, Wards
  <2> QED BY <2>1, <2>4, GoesOn DEF UnderWay
<1> QED BY <1>2, <1>3

(* At unit p, which is yet to be returned. *)
LEMMA UnitGoesOn ==
    ASSUME SerialInv, NEW r \in Client, NEW q, Continue(r, q), AllIdle \/ req[r] # Idle, Sees,
           q # Idle, OfficerOf[r] \in Wards, NEW T \in SUBSET Children(OfficerOf[r]),
           NEW P \in SUBSET T, NEW p \in T \ P, MayReturn(OfficerOf[r], T),
           AtUnit(OfficerOf[r], T, P, p, req[r])'
    PROVE  Fits
<1>1. seen' = seen
  BY Alone
<1>2. MayReturn(OfficerOf[r], T)'
  BY <1>1, SeenStays
<1>3. ReturnUnderWay(OfficerOf[r], req[r])'
  BY <1>2 DEF ReturnUnderWay, Wards
<1> QED BY <1>3, GoesOn DEF UnderWay

LEMMA WardGoesOn ==
    ASSUME SerialInv, NEW r \in Client, NEW q, Continue(r, q), req[r] # Idle, Sees,
           q # Idle, OfficerOf[r] \in Wards, NEW T \in SUBSET Children(OfficerOf[r]),
           NEW P \in SUBSET T, MayReturn(OfficerOf[r], T), AtWard(OfficerOf[r], T, P, req[r])'
    PROVE  Fits
<1>1. seen' = seen
  BY Alone
<1>2. MayReturn(OfficerOf[r], T)'
  BY <1>1, SeenStays
<1>3. ReturnUnderWay(OfficerOf[r], req[r])'
  BY <1>2 DEF ReturnUnderWay, Wards
<1> QED BY <1>3, GoesOn DEF UnderWay

(* rejectResult reads p; it is as it was when the request arrived. *)
LEMMA UnitRead ==
    ASSUME SerialInv, NEW r \in Client, AllIdle \/ req[r] # Idle, Sees, OfficerOf[r] \in Wards,
           NEW T \in SUBSET Children(OfficerOf[r]), NEW P \in SUBSET T, NEW p \in T \ P,
           MayReturn(OfficerOf[r], T),
           rows = Recounted(OfficerOf[r], T \ (P \union {p})),
           lastLog = LoggedSince(T \ (P \union {p}), "REJECTED"),
           Reject(r, p, {}, P), Reads
    PROVE  Fits
<1> DEFINE u == OfficerOf[r]
           B == T \ (P \union {p})
           S == Decide(seen.rows, B, "REJECTED")
<1>1. /\ p \in Children(u) /\ p \in Unit /\ p # u /\ p \notin B /\ B \in SUBSET Children(u)
      /\ WellFormed(seen.rows) /\ LevelOf[p] = "POLLING_UNIT"
      /\ rows = Recounted(u, B)
  BY Tree DEF SerialInv, PollingUnits
<1> HIDE DEF B
<1>2. rows[p] = seen.rows[p]
  <2>1. \A v \in Unit : v # u => rows[v] = S[v]
    <3>1. B \in SUBSET Children(u) /\ WellFormed(seen.rows)
      BY <1>1
    <3>2. \A v \in Unit : v # u => Recounted(u, B)[v] = S[v]
      BY <3>1, RecountedRows, ZenonT(40)
    <3> HIDE DEF S
    <3> QED BY <1>1, <3>2
  <2>2. S[p] = seen.rows[p]
    BY <1>1 DEF Decide
  <2> QED BY <1>1, <2>1, <2>2
<1> HIDE DEF S
<1>3. seen.rows[p].status \in {"APPROVED", "SUBMITTED"}
  BY DEF MayReturn
<1>4. rows' = rows /\ lastLog' = lastLog
  BY DEF Reads
<1>5. CASE seen.rows[p].status = "SUBMITTED"
  <2> DEFINE n == RejectCall(p, {}, FALSE, P)
  <2>1. Continue(r, n) /\ n # Idle
    BY <1>2, <1>5 DEF Reject, RejectCall, Idle
  <2>2. seen' = seen /\ req'[r] = n
    BY <2>1, Alone
  <2>3. n = RejectCall(p, {}, FALSE, P)'
    BY <2>2 DEF RejectCall
  <2> HIDE DEF n
  <2>4. AtUnit(u, T, P, p, req[r])'
    <3>1. /\ rows' = Recounted(u, T \ (P \union {p}))'
          /\ lastLog' = LoggedSince(T \ (P \union {p}), "REJECTED")'
      BY <1>4, <2>2, SeenStays
    <3> QED BY <1>5, <2>2, <2>3, <3>1 DEF AtUnit
  <2> QED BY <2>1, <2>4, UnitGoesOn
<1>6. CASE seen.rows[p].status = "APPROVED"
  <2> DEFINE n == [at |-> "ask", unit |-> p, owes |-> {}, next |-> RejectCall(p, {}, TRUE, P)]
  <2>1. Continue(r, n) /\ n # Idle
    BY <1>1, <1>2, <1>6 DEF Reject, RejectCall, Idle
  <2>2. seen' = seen /\ req'[r] = n
    BY <2>1, Alone
  <2>3. RejectCall(p, {}, TRUE, P) = RejectCall(p, {}, TRUE, P)'
    BY <2>2 DEF RejectCall
  <2>4. AtUnit(u, T, P, p, req[r])'
    <3>1. /\ rows' = Recounted(u, T \ (P \union {p}))'
          /\ lastLog' = LoggedSince(T \ (P \union {p}), "REJECTED")'
      BY <1>4, <2>2, SeenStays
    <3> QED BY <1>6, <2>2, <2>3, <3>1 DEF AtUnit
  <2> HIDE DEF n
  <2> QED BY <2>1, <2>4, UnitGoesOn
<1> QED BY <1>3, <1>5, <1>6

(* The calls about one unit. *)
LEMMA UnitResumes ==
    ASSUME SerialInv, NEW r \in Client, req[r] # Idle, Resume(r), Sees, OfficerOf[r] \in Wards,
           NEW T \in SUBSET Children(OfficerOf[r]), NEW P \in SUBSET T, NEW p \in T \ P,
           MayReturn(OfficerOf[r], T), AtUnit(OfficerOf[r], T, P, p, req[r])
    PROVE  Fits
<1> DEFINE u == OfficerOf[r]
           q == req[r]
           B == T \ (P \union {p})
           D == T \ P
           approved == seen.rows[p].status = "APPROVED"
           rest == ReturnRest(P)
           reopen == Log(p, "APPROVED", "REJECTED", {u}, RebuildOf(u, FALSE, {u}, rest))
           return == Log(p, "SUBMITTED", "REJECTED", {}, rest)
<1>1. /\ p \in Children(u) /\ p \in Unit /\ p # u /\ p \notin B /\ B \in SUBSET Children(u)
      /\ D \in SUBSET Children(u) /\ D = B \union {p}
      /\ WellFormed(seen.rows) /\ LevelOf[p] = "POLLING_UNIT" /\ Parent[p] = u
  BY Tree DEF SerialInv, PollingUnits
<1>2. /\ lastLog = LoggedSince(B, "REJECTED")
      /\ \/ /\ q = [at |-> "ask", unit |-> p, owes |-> {}, next |-> RejectCall(p, {}, TRUE, P)]
            /\ approved /\ rows = Recounted(u, B)
         \/ /\ q = RejectCall(p, {}, approved, P) /\ rows = Recounted(u, B)
            /\ approved => seen.rows[u].status = "REJECTED"
         \/ q = return /\ ~approved /\ rows = Recounted(u, D)
         \/ q = reopen /\ approved /\ Uncounted(u, D)
  BY DEF AtUnit
<1>3. seen.rows[p].status = IF approved THEN "APPROVED" ELSE "SUBMITTED"
  BY DEF MayReturn
<1>4. seen.rows[u].status = "REJECTED" \/ (T = {p} /\ P = {} /\ B = {} /\ D = {p})
  BY DEF MayReturn
<1> HIDE DEF B, D
<1>5. CASE /\ q = [at |-> "ask", unit |-> p, owes |-> {}, next |-> RejectCall(p, {}, TRUE, P)]
           /\ approved /\ rows = Recounted(u, B)
  <2> DEFINE n == RejectCall(p, {}, TRUE, P)
  <2>1. RejectAskWard(r) /\ q.unit = p /\ q.next = n
    BY <1>5, ResumeAt
  <2>2. n # Idle
    BY DEF RejectCall, Idle
  <2> HIDE DEF n
  <2>3. Reads /\ IF rows[u].status = "REJECTED" THEN Continue(r, n) ELSE Continue(r, Idle)
    BY <1>1, <2>1 DEF RejectAskWard, GiveUp
  <2>4. rows[u].status = seen.rows[u].status
    <3>1. rows[u] = [seen.rows[u] EXCEPT !.tally = rows[u].tally]
      BY <1>1, <1>5, RecountedRows
    <3>2. seen.rows[u] \in Row
      BY <1>1 DEF WellFormed, Wards
    <3> QED BY <3>1, <3>2 DEF Row
  <2>5. CASE seen.rows[u].status = "REJECTED"
    <3>1. Continue(r, n) /\ rows' = rows /\ lastLog' = lastLog
      BY <2>3, <2>4, <2>5 DEF Reads
    <3>2. seen' = seen /\ req'[r] = n
      BY <2>2, <3>1, Alone
    <3>3. n = RejectCall(p, {}, TRUE, P)'
      BY <3>2 DEF RejectCall, n
    <3>4. /\ rows' = Recounted(u, B)' /\ lastLog' = LoggedSince(B, "REJECTED")'
      BY <1>2, <1>5, <3>1, <3>2, SeenStays
    <3>5. AtUnit(u, T, P, p, req[r])'
      BY <1>5, <2>5, <3>2, <3>3, <3>4 DEF AtUnit, B
    <3> QED BY <2>2, <3>1, <3>5, UnitGoesOn
  <2>6. CASE seen.rows[u].status # "REJECTED"
    <3>1. Continue(r, Idle) /\ B = {}
      BY <1>4, <2>3, <2>4, <2>6
    <3>2. Untouched
      BY <1>2, <1>5, <3>1, NothingReturned DEF Untouched
    <3> QED BY <2>3, <3>1, <3>2, GivesUp
  <2> QED BY <2>5, <2>6
<1>6. CASE /\ q = RejectCall(p, {}, approved, P) /\ rows = Recounted(u, B)
           /\ approved => seen.rows[u].status = "REJECTED"
  <2>1. /\ RejectWrite(r) /\ q.unit = p /\ q.reopened = approved /\ q.rest = P
        /\ q.from = seen.rows[p].status
    BY <1>6, ResumeAt DEF RejectCall
  <2>2. /\ rows' = Decide(rows, {p}, "REJECTED") /\ lastLog' = lastLog
        /\ Continue(r, IF approved THEN reopen ELSE return)
    <3>1. LevelOf[q.unit] # "WARD" /\ Parent[q.unit] = u
      BY <1>1, <2>1
    <3>2. /\ rows' = Decide(rows, {q.unit}, "REJECTED") /\ lastLog' = lastLog
          /\ Continue(r, IF q.reopened
                         THEN Log(q.unit, q.from, "REJECTED", {u},
                                  RebuildOf(u, FALSE, {u}, ReturnRest(q.rest)))
                         ELSE Log(q.unit, q.from, "REJECTED", {}, ReturnRest(q.rest)))
      BY <2>1, <3>1 DEF RejectWrite
    <3> QED BY <1>3, <2>1, <3>2
  <2>3. reopen # Idle /\ return # Idle
    BY DEF Log, Idle
  <2> HIDE DEF reopen, return
  <2>4. CASE approved
    <3>1. Continue(r, reopen)
      BY <2>2, <2>4
    <3>2. seen' = seen /\ req'[r] = reopen
      BY <2>3, <3>1, Alone
    <3>3. /\ rows' = [Decide(seen.rows, D, "REJECTED") EXCEPT ![u].tally = rows'[u].tally]
          /\ Reopens(D)
      BY <1>1, <1>6, <2>2, <2>4, ApprovedReturned, ZenonT(40)
    <3>4. Uncounted(u, D)'
      BY <1>6, <2>4, <3>2, <3>3, SeenStays DEF Uncounted
    <3>5. lastLog' = LoggedSince(B, "REJECTED")'
      BY <1>2, <2>2, <3>2, SeenStays
    <3>6. AtUnit(u, T, P, p, req[r])'
      BY <2>4, <3>2, <3>4, <3>5 DEF AtUnit, B, D, reopen
    <3> QED BY <2>3, <3>1, <3>6, UnitGoesOn
  <2>5. CASE ~approved
    <3>1. Continue(r, return)
      BY <2>2, <2>5
    <3>2. seen' = seen /\ req'[r] = return
      BY <2>3, <3>1, Alone
    <3>3. rows' = Recounted(u, D)
      BY <1>1, <1>3, <1>6, <2>2, <2>5, SubmittedReturned
    <3>4. rows' = Recounted(u, D)' /\ lastLog' = LoggedSince(B, "REJECTED")'
      BY <1>2, <2>2, <3>2, <3>3, SeenStays
    <3>5. AtUnit(u, T, P, p, req[r])'
      BY <2>5, <3>2, <3>4 DEF AtUnit, B, D, return
    <3> QED BY <2>3, <3>1, <3>5, UnitGoesOn
  <2> QED BY <2>4, <2>5
<1>7. ASSUME q.at = "log", q.unit = p, q.to = "REJECTED", q.from = seen.rows[p].status
      PROVE  /\ LogWrite(r) /\ rows' = rows /\ lastLog' = LoggedSince(D, "REJECTED")
             /\ Continue(r, q.next)
  <2>1. LogWrite(r)
    BY <1>7, ResumeAt
  <2>2. lastLog' = LoggedSince(B \union {p}, "REJECTED")
    BY <1>1, <1>2, <1>7, <2>1, LoggedOneMore
  <2> QED BY <1>1, <2>1, <2>2 DEF LogWrite
<1>8. CASE q = return /\ ~approved /\ rows = Recounted(u, D)
  <2>1. /\ q.at = "log" /\ q.unit = p /\ q.to = "REJECTED" /\ q.from = seen.rows[p].status
        /\ q.next = rest
    BY <1>3, <1>8 DEF Log
  <2>2. Reopens(D) => seen.rows[u].status = "REJECTED"
    BY <1>3, <1>4, <1>8 DEF Reopens
  <2>3. rows' = Recounted(u, D) /\ lastLog' = LoggedSince(D, "REJECTED") /\ Continue(r, rest)
    BY <1>7, <1>8, <2>1
  <2> QED BY <2>2, <2>3, ReturnGoesOn DEF D
<1>9. CASE q = reopen /\ approved /\ Uncounted(u, D)
  <2> DEFINE n == RebuildOf(u, FALSE, {u}, rest)
  <2>1. /\ q.at = "log" /\ q.unit = p /\ q.to = "REJECTED" /\ q.from = seen.rows[p].status
        /\ q.next = n
    BY <1>3, <1>9 DEF Log
  <2>2. n # Idle
    BY DEF RebuildOf, Idle
  <2> HIDE DEF n
  <2>3. rows' = rows /\ lastLog' = LoggedSince(D, "REJECTED") /\ Continue(r, n)
    BY <1>7, <2>1
  <2>4. seen' = seen /\ req'[r] = n
    BY <2>2, <2>3, Alone
  <2>5. Uncounted(u, D)' /\ lastLog' = LoggedSince(D, "REJECTED")'
    BY <1>9, <2>3, <2>4, SeenStays DEF Uncounted
  <2>6. AtWard(u, T, P, req[r])'
    BY <2>4, <2>5 DEF AtWard, D, n
  <2> QED BY <2>2, <2>3, <2>6, WardGoesOn
<1> QED BY <1>2, <1>5, <1>6, <1>8, <1>9

(* The recount of the ward, and the next unit. *)
LEMMA WardResumes ==
    ASSUME SerialInv, NEW r \in Client, req[r] # Idle, Resume(r), Sees, OfficerOf[r] \in Wards,
           NEW T \in SUBSET Children(OfficerOf[r]), NEW P \in SUBSET T,
           MayReturn(OfficerOf[r], T), AtWard(OfficerOf[r], T, P, req[r])
    PROVE  Fits
<1> DEFINE u == OfficerOf[r]
           q == req[r]
           D == T \ P
           rest == ReturnRest(P)
           existing == RebuildOf(u, FALSE, {u}, rest)
           recount == [at |-> "recount", unit |-> u, force |-> FALSE,
                       reason |-> seen.rows[u].reason, flagged |-> seen.rows[u].flagged,
                       owes |-> {u}, next |-> rest]
           rebuild == [at |-> "rebuild", unit |-> u, force |-> FALSE,
                       reason |-> seen.rows[u].reason, flagged |-> seen.rows[u].flagged,
                       tally |-> AggregateTally(rows, u), owes |-> {u}, next |-> rest]
<1>1. /\ D \in SUBSET Children(u) /\ WellFormed(seen.rows) /\ u \in Unit
      /\ seen.rows[u] \in Row /\ Decide(seen.rows, D, "REJECTED")[u] = seen.rows[u]
      /\ Decide(seen.rows, D, "REJECTED") \in [Unit -> Row]
  <2>1. D \in SUBSET Children(u) /\ WellFormed(seen.rows) /\ u \in Unit /\ seen.rows[u] \in Row
    BY DEF SerialInv, WellFormed, Wards
  <2> HIDE DEF D
  <2> QED BY <2>1, RecountedRows
<1>2. /\ lastLog = LoggedSince(D, "REJECTED")
      /\ \/ q = existing /\ Uncounted(u, D)
         \/ q = recount /\ Uncounted(u, D)
         \/ q = rebuild /\ Uncounted(u, D)
         \/ q = rest /\ P # {} /\ rows = Recounted(u, D)
  BY DEF AtWard
<1> HIDE DEF D
<1>3. ASSUME Uncounted(u, D)
      PROVE  rows[u].reason = seen.rows[u].reason /\ rows[u].flagged = seen.rows[u].flagged
  <2>1. rows[u] = [seen.rows[u] EXCEPT !.tally = rows[u].tally]
    <3> DEFINE S == Decide(seen.rows, D, "REJECTED")
               t == rows[u].tally
    <3>1. rows = [S EXCEPT ![u].tally = t]
      BY <1>3 DEF Uncounted
    <3> HIDE DEF t
    <3>2. rows[u] = [seen.rows[u] EXCEPT !.tally = t]
      BY <1>1, <3>1
    <3> QED BY <3>2 DEF t
  <2> QED BY <1>1, <2>1 DEF Row
<1>4. CASE q = existing /\ Uncounted(u, D)
  <2>1. /\ RebuildExisting(r) /\ q.unit = u /\ q.force = FALSE /\ q.owes = {u} /\ q.next = rest
    BY <1>4, ResumeAt DEF RebuildOf
  <2>2. Continue(r, recount) /\ recount # Idle /\ rows' = rows /\ lastLog' = lastLog
    BY <1>3, <1>4, <2>1 DEF RebuildExisting, Reads, Idle
  <2>3. seen' = seen /\ req'[r] = recount
    BY <2>2, Alone
  <2>4. Uncounted(u, D)' /\ lastLog' = LoggedSince(D, "REJECTED")' /\ recount = recount'
    BY <1>2, <1>4, <2>2, <2>3, SeenStays DEF Uncounted
  <2>5. AtWard(u, T, P, req[r])'
    BY <2>3, <2>4 DEF AtWard, D
  <2> HIDE DEF recount
  <2> QED BY <2>2, <2>5, WardGoesOn
<1>5. CASE q = recount /\ Uncounted(u, D)
  <2>1. /\ RebuildRead(r) /\ q.unit = u /\ q.force = FALSE /\ q.owes = {u} /\ q.next = rest
        /\ q.reason = seen.rows[u].reason /\ q.flagged = seen.rows[u].flagged
    BY <1>5, ResumeAt
  <2>2. Continue(r, rebuild) /\ rebuild # Idle /\ rows' = rows /\ lastLog' = lastLog
    BY <2>1 DEF RebuildRead, Reads, Idle
  <2>3. seen' = seen /\ req'[r] = rebuild
    BY <2>2, Alone
  <2>4. AggregateTally(rows, u)' = AggregateTally(rows, u)
    BY <2>2 DEF AggregateTally, ApprovedChildren
  <2>5. Uncounted(u, D)' /\ lastLog' = LoggedSince(D, "REJECTED")' /\ rebuild = rebuild'
    BY <1>2, <1>5, <2>2, <2>3, <2>4, SeenStays DEF Uncounted
  <2>6. AtWard(u, T, P, req[r])'
    BY <2>3, <2>5 DEF AtWard, D
  <2> HIDE DEF rebuild
  <2> QED BY <2>2, <2>6, WardGoesOn
<1>6. CASE q = rebuild /\ Uncounted(u, D)
  <2>1. /\ RebuildWrite(r) /\ q.unit = u /\ q.force = FALSE /\ q.next = rest
        /\ q.reason = seen.rows[u].reason /\ q.flagged = seen.rows[u].flagged
        /\ q.tally = AggregateTally(rows, u)
    BY <1>6, ResumeAt
  <2>2. /\ rows' = [rows EXCEPT ![u].status = "REJECTED", ![u].tally = AggregateTally(rows, u),
                                ![u].reason = seen.rows[u].reason,
                                ![u].flagged = seen.rows[u].flagged]
        /\ Continue(r, rest) /\ lastLog' = lastLog
    <3>1. seen.rows[u].reason /\ ~FALSE <=> seen.rows[u].reason
      OBVIOUS
    <3>2. seen.rows[u].reason \in BOOLEAN
      BY <1>1 DEF Row
    <3>3. (seen.rows[u].reason /\ ~FALSE) = seen.rows[u].reason
      BY <3>1, <3>2
    <3> QED BY <2>1, <3>3 DEF RebuildWrite
  <2>3. rows' = Recounted(u, D)
    BY <1>1, <1>6, <2>2, UncountedRebuilt
  <2>4. Reopens(D) => seen.rows[u].status = "REJECTED"
    BY <1>6 DEF Uncounted
  <2> QED BY <1>2, <2>2, <2>3, <2>4, ReturnGoesOn DEF D
<1>7. CASE q = rest /\ P # {} /\ rows = Recounted(u, D)
  <2>1. ReturnNext(r) /\ q.units = P
    BY <1>7, ResumeAt DEF ReturnRest
  <2>2. PICK p \in P : Reject(r, p, {}, P \ {p}) /\ Reads
    BY <2>1 DEF ReturnNext
  <2> DEFINE Q == P \ {p}
  <2>3. Q \in SUBSET T /\ p \in T \ Q /\ D = T \ (Q \union {p})
    BY DEF D
  <2> HIDE DEF Q
  <2> QED BY <1>2, <1>7, <2>2, <2>3, UnitRead DEF Q
<1> QED BY <1>2, <1>4, <1>5, <1>6, <1>7

LEMMA ReturnResumes ==
    ASSUME SerialInv, NEW r \in Client, req[r] # Idle, ReturnUnderWay(OfficerOf[r], req[r]),
           Resume(r), Sees
    PROVE  Fits
<1> DEFINE u == OfficerOf[r]
           q == req[r]
<1>1. u \in Unit /\ u \in Wards /\ WellFormed(seen.rows)
  BY ClientAssumption DEF ReturnUnderWay, Wards, SerialInv
<1>2. CASE /\ q = [at |-> "find", units |-> seen.rows[u].flagged, owes |-> {}]
           /\ seen.rows[u].status = "REJECTED" /\ seen.rows[u].flagged # {} /\ Untouched
  <2> DEFINE T == Flagged(u)
  <2>1. T \in SUBSET Children(u) /\ MayReturn(u, T) /\ T \ T = {}
    BY <1>1, <1>2 DEF MayReturn, Flagged, WellFormed
  <2>2. ReturnFind(r) /\ q.units = seen.rows[u].flagged
    BY <1>2, ResumeAt
  <2>3. Continue(r, ReturnRest(T)) /\ Reads
    BY <1>2, <2>2 DEF ReturnFind, Untouched, Flagged
  <2>4. rows' = Recounted(u, {}) /\ lastLog' = LoggedSince({}, "REJECTED")
    BY <1>2, <2>3, NothingReturned DEF Reads, Untouched
  <2> HIDE DEF T
  <2>5. rows' = Recounted(u, T \ T) /\ lastLog' = LoggedSince(T \ T, "REJECTED")
    BY <2>1, <2>4
  <2> QED BY <1>1, <1>2, <2>1, <2>3, <2>5, ReturnGoesOn
<1>3. ASSUME NEW T \in SUBSET Children(u), NEW P \in SUBSET T, MayReturn(u, T),
             AtWard(u, T, P, q) \/ \E p \in T \ P : AtUnit(u, T, P, p, q)
      PROVE  Fits
  BY <1>1, <1>3, WardResumes, UnitResumes
<1> QED BY <1>2, <1>3 DEF ReturnUnderWay

-----------------------------------------------------------------------------
(* A call goes on as its handler does. *)
LEMMA ResumeFits ==
    ASSUME SerialInv, NEW r \in Client, Resume(r), Sees
    PROVE  Fits
<1>1. req[r] # Idle
  BY ResumeAt DEF Idle
<1>2. UnderWay(OfficerOf[r], req[r])
  BY <1>1 DEF SerialInv
<1> QED BY <1>1, <1>2, EditResumes, ApprovalResumes, RejectionResumes, ReturnResumes,
           ResubmissionResumes DEF UnderWay

-----------------------------------------------------------------------------
(* With no other request running, nothing has happened since it was seen. *)
LEMMA ArriveAlone ==
    ASSUME SerialInv, AllIdle
    PROVE  Untouched
BY DEF SerialInv

(* The first call of a request reads, and its handler goes on with q. *)
LEMMA Arrives ==
    ASSUME SerialInv, NEW r \in Client, NEW q, AllIdle, Untouched, Sees,
           Continue(r, q), q # Idle, Reads
    PROVE  seen' = seen /\ rows' = rows /\ lastLog' = lastLog /\ req'[r] = q /\ Untouched'
<1>1. seen' = seen /\ req'[r] = q
  BY Alone
<1>2. rows' = rows /\ lastLog' = lastLog
  BY DEF Reads
<1> QED BY <1>1, <1>2 DEF Untouched

LEMMA EditArrives ==
    ASSUME SerialInv, AllIdle, NEW r \in Client, Sees,
           \/ \E fig \in Figures, photo \in BOOLEAN : UpsertRead(r, fig, photo)
           \/ AttachRead(r)
           \/ SubmitRead(r)
    PROVE  Fits
<1> DEFINE u == OfficerOf[r]
<1>1. ASSUME NEW fig \in Figures, NEW photo \in BOOLEAN, UpsertRead(r, fig, photo)
      PROVE  Fits
  <2> DEFINE n == [at |-> "upsert", fig |-> fig, photo |-> photo, owes |-> {}]
  <2>1. /\ MayArrive(r) /\ LevelOf[u] # "WARD" /\ Continue(r, n) /\ Reads /\ n # Idle
        /\ rows[u].status \in EditableStatuses \union {"NONE"}
    BY <1>1 DEF UpsertRead, Idle
  <2>2. AllIdle /\ Untouched
    BY ArriveAlone
  <2>3. rows' = rows /\ req'[r] = n /\ Untouched'
    BY <2>1, <2>2, Arrives
  <2>4. EditUnderWay(u, req[r])'
    BY <2>1, <2>3 DEF EditUnderWay
  <2> QED BY <2>1, <2>2, <2>4, GoesOn DEF UnderWay
<1>2. CASE AttachRead(r)
  <2> DEFINE n == [at |-> "attach", owes |-> {}]
  <2>1. /\ MayArrive(r) /\ Continue(r, n) /\ Reads /\ n # Idle
        /\ rows[u].status \in EditableStatuses
    BY <1>2 DEF AttachRead, Idle
  <2>2. AllIdle /\ Untouched
    BY ArriveAlone
  <2>3. rows' = rows /\ req'[r] = n /\ Untouched'
    BY <2>1, <2>2, Arrives
  <2>4. EditUnderWay(u, req[r])'
    BY <2>1, <2>3 DEF EditUnderWay
  <2> QED BY <2>1, <2>2, <2>4, GoesOn DEF UnderWay
<1>3. CASE SubmitRead(r)
  <2> DEFINE n == [at |-> "submit", from |-> rows[u].status, owes |-> {}]
  <2>1. /\ MayArrive(r) /\ LevelOf[u] # "WARD" /\ Continue(r, n) /\ Reads /\ n # Idle
        /\ rows[u].status \in EditableStatuses /\ (LevelOf[u] = "POLLING_UNIT" => rows[u].photo)
    BY <1>3 DEF SubmitRead, Idle
  <2>2. AllIdle /\ Untouched
    BY ArriveAlone
  <2>3. seen' = seen /\ rows' = rows /\ req'[r] = n /\ Untouched'
    BY <2>1, <2>2, Arrives
  <2>4. MaySubmit(u)'
    BY <2>1, <2>2, <2>3 DEF MaySubmit, Untouched
  <2>5. EditUnderWay(u, req[r])'
    BY <2>3, <2>4 DEF EditUnderWay
  <2> QED BY <2>1, <2>2, <2>5, GoesOn DEF UnderWay
<1> QED BY <1>1, <1>2, <1>3

LEMMA ApprovalArrives ==
    ASSUME SerialInv, AllIdle, NEW r \in Client, Sees,
           \/ \E c \in DOMAIN Parent : ApproveRead(r, c)
           \/ ApproveAllRead(r)
    PROVE  Fits
<1> DEFINE u == OfficerOf[r]
<1>1. ASSUME NEW c \in DOMAIN Parent, ApproveRead(r, c)
      PROVE  Fits
  <2> DEFINE n == IF LevelOf[c] = "WARD" THEN ReadyCheck({c}, Approve(c)) ELSE Approve(c)
  <2>1. /\ MayArrive(r) /\ Parent[c] = u /\ Continue(r, n) /\ Reads
        /\ rows[c].status = "SUBMITTED"
    BY <1>1 DEF ApproveRead, Approve
  <2>2. n # Idle
    BY DEF ReadyCheck, Approve, Idle
  <2>3. AllIdle /\ Untouched
    BY ArriveAlone
  <2> HIDE DEF n
  <2>4. seen' = seen /\ rows' = rows /\ req'[r] = n /\ Untouched'
    BY <2>1, <2>2, <2>3, Arrives
  <2>5. c \in Children(u) /\ seen'.rows[c].status = "SUBMITTED"
    BY <2>1, <2>3, <2>4 DEF Children, Untouched
  <2>6. CASE LevelOf[c] = "WARD"
    <3>1. ApprovalUnderWay(u, req[r])'
      BY <2>4, <2>5, <2>6 DEF ApprovalUnderWay, n
    <3> QED BY <2>1, <2>2, <2>3, <3>1, GoesOn DEF UnderWay
  <2>7. CASE LevelOf[c] # "WARD"
    <3>1. MayApprove(c)'
      BY <2>5, <2>7 DEF MayApprove
    <3>2. ApprovalUnderWay(u, req[r])'
      BY <2>4, <2>5, <2>7, <3>1 DEF ApprovalUnderWay, n
    <3> QED BY <2>1, <2>2, <2>3, <3>2, GoesOn DEF UnderWay
  <2> QED BY <2>6, <2>7
<1>2. CASE ApproveAllRead(r)
  <2>1. MayArrive(r) /\ Reads
    BY <1>2 DEF ApproveAllRead
  <2>2. AllIdle /\ Untouched
    BY ArriveAlone
  <2> PICK W, a : W = Pending(u) /\ a = ApproveAll(u)
    OBVIOUS
  <2> DEFINE n == ReadyCheck(W, a)
  <2>3. LevelOf[u] = "LGA" /\ W # {} /\ Continue(r, n) /\ n # Idle
    BY <1>2, <2>2 DEF ApproveAllRead, Pending, ApproveAll, Untouched, ReadyCheck, Idle
  <2> HIDE DEF n
  <2>4. seen' = seen /\ req'[r] = n /\ Untouched'
    BY <2>1, <2>2, <2>3, Arrives
  <2>5. Pending(u)' = W /\ ApproveAll(u)' = a
    BY <2>4 DEF Pending, ApproveAll
  <2>6. req'[r] = ReadyCheck(W, ApproveAll(u)')
    BY <2>4, <2>5 DEF n
  <2>7. ApprovalUnderWay(u, req[r])'
    <3>1. W \in SUBSET (Pending(u)')
      BY <2>5
    <3>2. \A w \in Pending(u)' \ W : AllPollingUnitsApproved(seen.rows, w)'
      BY <2>5
    <3> QED BY <2>3, <2>4, <2>6, <3>1, <3>2 DEF ApprovalUnderWay, ReadyCheck
  <2> QED BY <2>1, <2>2, <2>3, <2>7, GoesOn DEF UnderWay
<1> QED BY <1>1, <1>2

LEMMA RejectionArrives ==
    ASSUME SerialInv, AllIdle, NEW r \in Client, Sees, NEW c \in DOMAIN Parent,
           NEW flags \in SUBSET Children(c), RejectRead(r, c, flags)
    PROVE  Fits
<1> DEFINE u == OfficerOf[r]
<1>1. /\ MayArrive(r) /\ Parent[c] = u /\ Reject(r, c, flags, {}) /\ Reads
      /\ flags \subseteq (IF LevelOf[c] = "WARD" THEN Children(c) ELSE {})
  BY DEF RejectRead
<1>2. /\ AllIdle /\ Untouched /\ c \in Children(u) /\ u \in Unit /\ flags \in SUBSET Unit
      /\ c \in PollingUnits => u \in Wards
  <2>1. AllIdle /\ Untouched
    BY ArriveAlone
  <2>2. c \in Children(u) /\ u \in Unit
    BY <1>1, ClientAssumption DEF Children
  <2>3. c \in PollingUnits => u \in Wards
    BY <1>1, Tree
  <2>4. flags \in SUBSET Unit
    BY Tree DEF Children
  <2> QED BY <2>1, <2>2, <2>3, <2>4
<1>3. CASE c \in PollingUnits
  <2>1. flags = {} /\ seen.lastLog = LoggedSince({}, "REJECTED") /\ seen.rows = Recounted(u, {})
    <3>1. flags = {}
      BY <1>1, <1>3 DEF PollingUnits
    <3> QED BY <3>1, NothingReturned
  <2>2. CASE seen.rows[c].status \in {"APPROVED", "SUBMITTED"}
    <3> DEFINE T == {c}
               P == {}
    <3>1. /\ T \in SUBSET Children(u) /\ P \in SUBSET T /\ c \in T \ P /\ T \ (P \union {c}) = {}
          /\ MayReturn(u, T)
      BY <1>2, <2>2 DEF MayReturn
    <3>2. /\ rows = Recounted(u, T \ (P \union {c}))
          /\ lastLog = LoggedSince(T \ (P \union {c}), "REJECTED")
      BY <1>2, <2>1, <3>1 DEF Untouched
    <3>3. Reject(r, c, {}, P)
      BY <1>1, <2>1
    <3> HIDE DEF T, P
    <3> QED BY <1>1, <1>2, <1>3, <3>1, <3>2, <3>3, UnitRead
  <2>3. CASE seen.rows[c].status \notin {"APPROVED", "SUBMITTED"}
    <3>1. Continue(r, Idle)
      BY <1>1, <1>2, <2>3 DEF Reject, GiveUp, Untouched
    <3> QED BY <1>1, <1>2, <3>1, GivesUp
  <2> QED BY <2>2, <2>3
<1>4. CASE c \notin PollingUnits
  <2>1. LevelOf[c] # "POLLING_UNIT"
    BY <1>4, Tree DEF PollingUnits
  <2>2. CASE seen.rows[c].status = "SUBMITTED"
    <3> DEFINE n == RejectCall(c, flags, FALSE, {})
    <3>1. Continue(r, n) /\ n # Idle
      BY <1>1, <1>2, <2>2 DEF Reject, RejectCall, Untouched, Idle
    <3>2. seen' = seen /\ req'[r] = n /\ Untouched'
      BY <1>1, <1>2, <3>1, Arrives
    <3>3. n = RejectCall(c, flags, FALSE, {})'
      BY <3>2 DEF RejectCall
    <3> HIDE DEF n
    <3>4. RejectionUnderWay(u, req[r])'
      BY <1>1, <1>2, <1>4, <2>2, <3>2, <3>3 DEF RejectionUnderWay
    <3> QED BY <1>2, <3>1, <3>4, GoesOn DEF UnderWay
  <2>3. CASE seen.rows[c].status # "SUBMITTED"
    <3>1. Continue(r, Idle)
      BY <1>1, <1>2, <2>1, <2>3 DEF Reject, GiveUp, Untouched
    <3> QED BY <1>1, <1>2, <3>1, GivesUp
  <2> QED BY <2>2, <2>3
<1> QED BY <1>3, <1>4

LEMMA ReturnedWardArrives ==
    ASSUME SerialInv, AllIdle, NEW r \in Client, Sees, ResubmitRead(r) \/ ReturnRead(r)
    PROVE  Fits
<1> DEFINE u == OfficerOf[r]
<1>1. CASE ResubmitRead(r)
  <2> DEFINE n == ReadyCheck({u}, RebuildOf(u, TRUE, {}, Log(u, "REJECTED", "SUBMITTED", {}, Idle)))
  <2>1. /\ MayArrive(r) /\ LevelOf[u] = "WARD" /\ rows[u].status = "REJECTED"
        /\ Continue(r, n) /\ Reads
    BY <1>1 DEF ResubmitRead
  <2>2. n # Idle
    BY DEF ReadyCheck, Idle
  <2>3. AllIdle /\ Untouched
    BY ArriveAlone
  <2> HIDE DEF n
  <2>4. seen' = seen /\ rows' = rows /\ req'[r] = n /\ Untouched'
    BY <2>1, <2>2, <2>3, Arrives
  <2>5. ResubmissionUnderWay(u, req[r])'
    BY <2>1, <2>3, <2>4 DEF ResubmissionUnderWay, Untouched, n
  <2> QED BY <2>1, <2>2, <2>3, <2>5, GoesOn DEF UnderWay
<1>2. CASE ReturnRead(r)
  <2> DEFINE n == [at |-> "find", units |-> rows[u].flagged, owes |-> {}]
  <2>1. /\ MayArrive(r) /\ LevelOf[u] = "WARD" /\ rows[u].status = "REJECTED"
        /\ rows[u].flagged # {} /\ Continue(r, n) /\ n # Idle /\ Reads
    BY <1>2 DEF ReturnRead, Idle
  <2>2. AllIdle /\ Untouched
    BY ArriveAlone
  <2>3. seen' = seen /\ rows' = rows /\ req'[r] = n /\ Untouched'
    BY <2>1, <2>2, Arrives
  <2>4. ReturnUnderWay(u, req[r])'
    BY <2>1, <2>2, <2>3 DEF ReturnUnderWay, Untouched
  <2> QED BY <2>1, <2>2, <2>4, GoesOn DEF UnderWay
<1> QED BY <1>1, <1>2

LEMMA ArriveFits ==
    ASSUME SerialInv, AllIdle, NEW r \in Client, Arrive(r), Sees
    PROVE  Fits
BY EditArrives, ApprovalArrives, RejectionArrives, ReturnedWardArrives DEF Arrive

-----------------------------------------------------------------------------
LEMMA UnderWayStays ==
    ASSUME UNCHANGED serialVars, NEW u, NEW q, UnderWay(u, q)
    PROVE  UnderWay(u, q)'
<1>1. rows' = rows /\ lastLog' = lastLog /\ seen' = seen
  BY DEF serialVars
<1>2. /\ AggregateTally(rows, u)' = AggregateTally(rows, u)
      /\ ApprovedChildren(rows, u)' = ApprovedChildren(rows, u)
      /\ Untouched' <=> Untouched
  BY <1>1 DEF AggregateTally, ApprovedChildren, Untouched
<1>3. CASE EditUnderWay(u, q)
  <2>1. EditUnderWay(u, q)'
    BY <1>1, <1>2, <1>3 DEF EditUnderWay, MaySubmit
  <2> QED BY <2>1 DEF UnderWay
<1>4. CASE ApprovalUnderWay(u, q)
  <2>1. /\ HasApproved(u)' <=> HasApproved(u)
        /\ \A c : MayApprove(c)' <=> MayApprove(c)
        /\ \A c : Approved(c)' = Approved(c)
        /\ Pending(u)' = Pending(u)
        /\ ApproveAll(u)' = ApproveAll(u) /\ (MayApproveAll(u)' <=> MayApproveAll(u))
    BY <1>1 DEF HasApproved, MayApprove, Approved, Pending, ApproveAll, MayApproveAll,
       AllApproved, LoggedSince
  <2>2. ApprovalUnderWay(u, q)'
    BY <1>1, <1>2, <1>4, <2>1 DEF ApprovalUnderWay
  <2> QED BY <2>2 DEF UnderWay
<1>5. CASE RejectionUnderWay(u, q)
  <2>1. RejectionUnderWay(u, q)'
    BY <1>1, <1>2, <1>5 DEF RejectionUnderWay, RejectCall, SentDown
  <2> QED BY <2>1 DEF UnderWay
<1>6. CASE ReturnUnderWay(u, q)
  <2>1. \A T, P : AtWard(u, T, P, q)' <=> AtWard(u, T, P, q)
    BY <1>1 DEF AtWard, LoggedSince, Uncounted, Recounted, Reopens
  <2>2. \A T, P, p : AtUnit(u, T, P, p, q)' <=> AtUnit(u, T, P, p, q)
    BY <1>1 DEF AtUnit, LoggedSince, Uncounted, Recounted, Reopens, RejectCall
  <2>3. \A T : MayReturn(u, T)' <=> MayReturn(u, T)
    BY <1>1 DEF MayReturn, Flagged
  <2>4. ReturnUnderWay(u, q)'
    BY <1>1, <1>2, <1>6, <2>1, <2>2, <2>3 DEF ReturnUnderWay
  <2> QED BY <2>4 DEF UnderWay
<1>7. CASE ResubmissionUnderWay(u, q)
  <2>1. ResubmissionUnderWay(u, q)'
    BY <1>1, <1>2, <1>7 DEF ResubmissionUnderWay
  <2> QED BY <2>1 DEF UnderWay
<1> QED BY <1>3, <1>4, <1>5, <1>6, <1>7 DEF UnderWay

LEMMA SerialStep ==
    ASSUME SerialInv, [SerialNext]_serialVars
    PROVE  SerialInv' /\ [UNCHANGED seen \/ Serial!Next]_(Serial!vars)
<1>1. CASE SerialNext
  <2>1. Sees /\ \E r \in Client : (AllIdle /\ Arrive(r)) \/ Resume(r)
    BY <1>1 DEF SerialNext, Serve, Sees
  <2>2. Fits
    BY <2>1, ArriveFits, ResumeFits
  <2> QED BY <2>2 DEF Fits
<1>2. CASE UNCHANGED serialVars
  <2>1. rows' = rows /\ lastLog' = lastLog /\ req' = req /\ seen' = seen
    BY <1>2 DEF serialVars
  <2>2. \A r \in Client : UnderWay(OfficerOf[r], req[r]) => UnderWay(OfficerOf[r], req[r])'
    BY <1>2, <2>1, UnderWayStays
  <2>3. (AllIdle' => Untouched') /\ WellFormed(seen.rows)'
    BY <2>1 DEF AllIdle, Untouched, SerialInv, WellFormed
  <2>4. SerialInv'
    BY <2>1, <2>2, <2>3 DEF SerialInv
  <2> QED BY <2>1, <2>4
<1> QED BY <1>1, <1>2

LEMMA SerialStart == SerialInit => SerialInv /\ Serial!Init
<1> SUFFICES ASSUME SerialInit
             PROVE  SerialInv /\ Serial!Init
  OBVIOUS
<1>1. /\ rows = [u \in Unit |-> Absent] /\ lastLog = [u \in Unit |-> NoLog]
      /\ seen = [rows |-> rows, lastLog |-> lastLog]
      /\ req = [r \in Client |-> Idle]
  BY DEF SerialInit, AsyncInit, Init
<1>2. Serial!Init
  BY <1>1 DEF Serial!Init, Serial!Absent, Absent, Serial!NoLog, NoLog
<1>3. WellFormed(seen.rows)
  <2>1. Absent \in Row /\ Absent.flagged = {}
    BY DEF Absent, Row, Tallies, Status
  <2> QED BY <1>1, <2>1 DEF WellFormed
<1>4. Untouched /\ DOMAIN req = Client /\ \A r \in Client : req[r] = Idle
  BY <1>1 DEF Untouched
<1>5. /\ seen = [rows |-> seen.rows, lastLog |-> seen.lastLog]
      /\ seen.lastLog = [v \in Unit |-> seen.lastLog[v]]
  BY <1>1
<1> QED BY <1>2, <1>3, <1>4, <1>5 DEF SerialInv

(* If requests never overlap, each comes to one step of the collation as it *)
(* is specified with one step per handler, or to none, whatever the order   *)
(* of its calls to the database.                                            *)
THEOREM RunsAlone == SerialSpec => RunsAsOneStep
<1>1. SerialInit => SerialInv /\ Serial!Init
  BY SerialStart
<1>2. SerialInv /\ [SerialNext]_serialVars =>
         SerialInv' /\ [UNCHANGED seen \/ Serial!Next]_(Serial!vars)
  BY SerialStep
<1> QED BY <1>1, <1>2, PTL DEF SerialSpec, RunsAsOneStep
=============================================================================
