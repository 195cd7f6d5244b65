---------------------------- MODULE CollationAsync ----------------------------
(***************************************************************************)
(* The handlers of Collation split at their awaits.  One Node process      *)
(* serves the requests: a step runs from one database call to the next,    *)
(* and between two steps any other request may run.  No row is locked and  *)
(* no handler but approveAllLgaWardResults opens a transaction, so what a  *)
(* handler read may be out of date when it writes.                         *)
(***************************************************************************)
EXTENDS Collation, Naturals, FiniteSets

CONSTANTS
    Client,     \* each has at most one request in progress
    OfficerOf,  \* the unit whose officer a client is
    InProgress  \* bound: how many requests overlap at most

ASSUME ClientAssumption ==
    /\ OfficerOf \in [Client -> Unit]
    /\ IsFiniteSet(Client)
    /\ InProgress \in Nat \ {0}

VARIABLES
    req,        \* per client, where its request resumes and what it has read
    torn        \* the units whose recount a crash cut off, until the next one

asyncVars == <<rows, lastLog, req, torn>>

(***************************************************************************)
(* A request is a record: `at` is the database call it is about to make,   *)
(* `owes` the units it has yet to recount, the rest what it carries.       *)
(***************************************************************************)
Idle == [at |-> "idle", owes |-> {}]

AsyncInit ==
    /\ Init
    /\ req = [r \in Client |-> Idle]
    /\ torn = {}

(* Client r may send a request: it waits for no other answer, and fewer     *)
(* than InProgress requests are being served.                              *)
MayArrive(r) ==
    /\ req[r] = Idle
    /\ Cardinality({s \in Client : req[s] # Idle}) < InProgress

(* Request r has made its call and goes on with q, or gives up. *)
Continue(r, q) == req' = [req EXCEPT ![r] = q]
GiveUp(r)      == Continue(r, Idle)

Reads == UNCHANGED <<rows, lastLog, torn>>

(* The action log entry about unit u, after which the request goes on. *)
Log(u, from, to, owes, next) ==
    [at |-> "log", unit |-> u, from |-> from, to |-> to, owes |-> owes, next |-> next]

(* rollupToParent of unit p: read its approved children, write its row. *)
RollupOf(p) == [at |-> "count", unit |-> p, owes |-> {p}]

(* rebuildWardRollupAfterPuChange of ward w: also read its row before. *)
RebuildOf(w, force, owes, next) ==
    [at |-> "existing", unit |-> w, force |-> force, owes |-> owes, next |-> next]

(* assertAllPollingUnitsApprovedInWard for each ward of W, then next. *)
ReadyCheck(W, next) == [at |-> "ready", wards |-> W, owes |-> {}, next |-> next]

(* The rest of returnLgaFlaggedPus, or the end of a single rejectResult. *)
ReturnRest(P) == IF P = {} THEN Idle ELSE [at |-> "return", units |-> P, owes |-> {}]

-----------------------------------------------------------------------------
(* upsertResult *)
UpsertRead(r, fig, photo) ==
    LET u == OfficerOf[r]
    IN  /\ MayArrive(r)
        /\ LevelOf[u] # "WARD"
        /\ rows[u].status \in EditableStatuses \union {"NONE"}
        /\ Continue(r, [at |-> "upsert", fig |-> fig, photo |-> photo, owes |-> {}])
        /\ Reads

UpsertWrite(r) ==
    LET u == OfficerOf[r]
    IN  /\ req[r].at = "upsert"
        /\ rows' = [rows EXCEPT ![u].status = "DRAFT",
                                ![u].tally  = {<<u, req[r].fig>>},
                                ![u].photo  = req[r].photo,
                                ![u].reason = FALSE]
        /\ GiveUp(r)
        /\ UNCHANGED <<lastLog, torn>>

(* attachEc8aPhoto *)
AttachRead(r) ==
    /\ MayArrive(r)
    /\ rows[OfficerOf[r]].status \in EditableStatuses
    /\ Continue(r, [at |-> "attach", owes |-> {}])
    /\ Reads

AttachWrite(r) ==
    /\ req[r].at = "attach"
    /\ rows' = [rows EXCEPT ![OfficerOf[r]].photo = TRUE]
    /\ GiveUp(r)
    /\ UNCHANGED <<lastLog, torn>>

(* submitResult *)
SubmitRead(r) ==
    LET u == OfficerOf[r]
    IN  /\ MayArrive(r)
        /\ LevelOf[u] # "WARD"
        /\ rows[u].status \in EditableStatuses
        /\ LevelOf[u] = "POLLING_UNIT" => rows[u].photo
        /\ Continue(r, [at |-> "submit", from |-> rows[u].status, owes |-> {}])
        /\ Reads

SubmitWrite(r) ==
    LET u == OfficerOf[r]
    IN  /\ req[r].at = "submit"
        /\ rows' = [rows EXCEPT ![u].status = "SUBMITTED", ![u].reason = FALSE]
        /\ Continue(r, Log(u, req[r].from, "SUBMITTED", {}, Idle))
        /\ UNCHANGED <<lastLog, torn>>

(* writeActionLog *)
LogWrite(r) ==
    /\ req[r].at = "log"
    /\ lastLog' = [lastLog EXCEPT ![req[r].unit] = [from |-> req[r].from, to |-> req[r].to]]
    /\ Continue(r, req[r].next)
    /\ UNCHANGED <<rows, torn>>

-----------------------------------------------------------------------------
(* approveResult of c *)
ApproveRead(r, c) ==
    /\ MayArrive(r)
    /\ Parent[c] = OfficerOf[r]
    /\ rows[c].status = "SUBMITTED"
    /\ LET approve == [at |-> "approve", unit |-> c, owes |-> {}]
       IN  Continue(r, IF LevelOf[c] = "WARD" THEN ReadyCheck({c}, approve) ELSE approve)
    /\ Reads

(* One ward's readiness is asked; an unready one ends the request. *)
Ready(r) ==
    /\ req[r].at = "ready"
    /\ \E w \in req[r].wards :
          LET left == req[r].wards \ {w}
          IN  IF ~AllPollingUnitsApproved(rows, w) THEN GiveUp(r)
              ELSE Continue(r, IF left = {} THEN req[r].next
                               ELSE ReadyCheck(left, req[r].next))
    /\ Reads

ApproveWrite(r) ==
    LET c == req[r].unit
        p == Parent[c]
    IN  /\ req[r].at = "approve"
        /\ rows' = [Decide(rows, {c}, "APPROVED") EXCEPT ![c].flagged = {}]
        /\ Continue(r, Log(c, "SUBMITTED", "APPROVED", {p}, RollupOf(p)))
        /\ UNCHANGED <<lastLog, torn>>

(* approveAllLgaWardResults *)
ApproveAllRead(r) ==
    LET l == OfficerOf[r]
        pending == {w \in Children(l) : rows[w].status = "SUBMITTED"}
    IN  /\ MayArrive(r)
        /\ LevelOf[l] = "LGA"
        /\ pending # {}
        /\ Continue(r, ReadyCheck(pending, [at |-> "approveAll", units |-> pending,
                                            owes |-> {}]))
        /\ Reads

(* The transaction: rows and log entries together, by row id. *)
ApproveAllWrite(r) ==
    LET W == req[r].units
    IN  /\ req[r].at = "approveAll"
        /\ rows' = [u \in Unit |-> IF u \in W THEN [rows[u] EXCEPT !.status = "APPROVED"]
                                   ELSE rows[u]]
        /\ lastLog' = [u \in Unit |-> IF u \in W
                                      THEN [from |-> "SUBMITTED", to |-> "APPROVED"]
                                      ELSE lastLog[u]]
        /\ Continue(r, RollupOf(OfficerOf[r]))
        /\ UNCHANGED torn

(* rollupToParent *)
RollupRead(r) ==
    LET p == req[r].unit
    IN  /\ req[r].at = "count"
        /\ IF ApprovedChildren(rows, p) = {} THEN GiveUp(r)
           ELSE Continue(r, [at |-> "rollup", unit |-> p, owes |-> {p},
                             tally |-> AggregateTally(rows, p)])
        /\ Reads

RollupWrite(r) ==
    LET p == req[r].unit
    IN  /\ req[r].at = "rollup"
        /\ rows' = [rows EXCEPT ![p].status = RollupStatus(p),
                                ![p].tally  = req[r].tally,
                                ![p].reason = FALSE]
        /\ torn' = torn \ {p}
        /\ GiveUp(r)
        /\ UNCHANGED lastLog

-----------------------------------------------------------------------------
(* rejectResult of c, after which the polling units P are still to return *)
Reject(r, c, flags, P) ==
    LET reject(reopened) == [at |-> "reject", unit |-> c, from |-> rows[c].status,
                             flags |-> flags, reopened |-> reopened, rest |-> P,
                             owes |-> {}]
    IN  IF rows[c].status = "SUBMITTED" THEN Continue(r, reject(FALSE))
        ELSE IF rows[c].status = "APPROVED" /\ LevelOf[c] = "POLLING_UNIT"
             THEN Continue(r, [at |-> "ask", unit |-> c, owes |-> {}, next |-> reject(TRUE)])
             ELSE GiveUp(r)

RejectRead(r, c, flags) ==
    /\ MayArrive(r)
    /\ Parent[c] = OfficerOf[r]
    /\ flags \subseteq (IF LevelOf[c] = "WARD" THEN Children(c) ELSE {})
    /\ Reject(r, c, flags, {})
    /\ Reads

(* isWardReturnedByLga *)
RejectAskWard(r) ==
    /\ req[r].at = "ask"
    /\ IF rows[Parent[req[r].unit]].status = "REJECTED" THEN Continue(r, req[r].next)
       ELSE GiveUp(r)
    /\ Reads

RejectWrite(r) ==
    LET q == req[r]
        w == Parent[q.unit]
        returned == Decide(rows, {q.unit}, "REJECTED")
        rest == ReturnRest(q.rest)
    IN  /\ q.at = "reject"
        /\ rows' = IF LevelOf[q.unit] = "WARD"
                   THEN [returned EXCEPT ![q.unit].flagged = q.flags]
                   ELSE returned
        /\ Continue(r, IF q.reopened
                       THEN Log(q.unit, q.from, "REJECTED", {w}, RebuildOf(w, FALSE, {w}, rest))
                       ELSE Log(q.unit, q.from, "REJECTED", {}, rest))
        /\ UNCHANGED <<lastLog, torn>>

(* rebuildWardRollupAfterPuChange *)
RebuildExisting(r) ==
    LET q == req[r]
    IN  /\ q.at = "existing"
        /\ Continue(r, [at |-> "recount", unit |-> q.unit, force |-> q.force,
                        reason |-> rows[q.unit].reason, flagged |-> rows[q.unit].flagged,
                        owes |-> q.owes, next |-> q.next])
        /\ Reads

RebuildRead(r) ==
    LET q == req[r]
    IN  /\ q.at = "recount"
        /\ Continue(r, [at |-> "rebuild", unit |-> q.unit, force |-> q.force,
                        reason |-> q.reason, flagged |-> q.flagged,
                        tally |-> AggregateTally(rows, q.unit),
                        owes |-> q.owes, next |-> q.next])
        /\ Reads

(* Slip: the flags stay on a ward that goes back to the LGA. *)
RebuildWriteKeepingFlags(r) ==
    LET q == req[r]
    IN  /\ q.at = "rebuild"
        /\ rows' = [rows EXCEPT
                      ![q.unit].status  = IF q.force THEN "SUBMITTED" ELSE "REJECTED",
                      ![q.unit].tally   = q.tally,
                      ![q.unit].reason  = q.reason /\ ~q.force,
                      ![q.unit].flagged = q.flagged]
        /\ torn' = torn \ {q.unit}
        /\ Continue(r, q.next)
        /\ UNCHANGED lastLog

RebuildWrite(r) ==
    LET q == req[r]
    IN  /\ q.at = "rebuild"
        /\ rows' = [rows EXCEPT
                      ![q.unit].status  = IF q.force THEN "SUBMITTED" ELSE "REJECTED",
                      ![q.unit].tally   = q.tally,
                      ![q.unit].reason  = q.reason /\ ~q.force,
                      ![q.unit].flagged = IF q.force THEN {} ELSE q.flagged]
        /\ torn' = torn \ {q.unit}
        /\ Continue(r, q.next)
        /\ UNCHANGED lastLog

(* resubmitWardToLga *)
ResubmitRead(r) ==
    LET w == OfficerOf[r]
    IN  /\ MayArrive(r)
        /\ LevelOf[w] = "WARD"
        /\ rows[w].status = "REJECTED"
        /\ Continue(r, ReadyCheck({w}, RebuildOf(w, TRUE, {},
                                          Log(w, "REJECTED", "SUBMITTED", {}, Idle))))
        /\ Reads

(* returnLgaFlaggedPus: the ward's row, its flagged units, then one by one *)
ReturnRead(r) ==
    LET w == OfficerOf[r]
    IN  /\ MayArrive(r)
        /\ LevelOf[w] = "WARD"
        /\ rows[w].status = "REJECTED"
        /\ rows[w].flagged # {}
        /\ Continue(r, [at |-> "find", units |-> rows[w].flagged, owes |-> {}])
        /\ Reads

ReturnFind(r) ==
    /\ req[r].at = "find"
    /\ Continue(r, ReturnRest({p \in req[r].units :
                                  rows[p].status \in {"APPROVED", "SUBMITTED"}}))
    /\ Reads

ReturnNext(r) ==
    /\ req[r].at = "return"
    /\ \E p \in req[r].units : Reject(r, p, {}, req[r].units \ {p})
    /\ Reads

-----------------------------------------------------------------------------
(* A client sends a request, and its handler makes its first call. *)
Arrive(r) ==
    \/ \E fig \in Figures, photo \in BOOLEAN : UpsertRead(r, fig, photo)
    \/ AttachRead(r)
    \/ SubmitRead(r)
    \/ \E c \in DOMAIN Parent :
          \/ ApproveRead(r, c)
          \/ \E flags \in SUBSET Children(c) : RejectRead(r, c, flags)
    \/ ApproveAllRead(r)
    \/ ResubmitRead(r)
    \/ ReturnRead(r)

(* A handler goes on to its next call. *)
Resume(r) ==
    \/ UpsertWrite(r) \/ AttachWrite(r) \/ SubmitWrite(r) \/ LogWrite(r)
    \/ Ready(r) \/ ApproveWrite(r) \/ ApproveAllWrite(r)
    \/ RollupRead(r) \/ RollupWrite(r)
    \/ RejectAskWard(r) \/ RejectWrite(r)
    \/ RebuildExisting(r) \/ RebuildRead(r) \/ RebuildWrite(r)
    \/ ReturnFind(r) \/ ReturnNext(r)

(* The process dies or a handler's next call fails: what it wrote stays, *)
(* nothing takes its place.                                              *)
Abort(r) ==
    /\ req[r] # Idle
    /\ torn' = torn \union req[r].owes
    /\ GiveUp(r)
    /\ UNCHANGED <<rows, lastLog>>

AsyncNext == \E r \in Client : Arrive(r) \/ Resume(r)
AbortNext == AsyncNext \/ \E r \in Client : Abort(r)

AsyncSpec == AsyncInit /\ [][AsyncNext]_asyncVars
AbortSpec == AsyncInit /\ [][AbortNext]_asyncVars
=============================================================================
