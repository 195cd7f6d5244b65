------------------------- MODULE CollationOneAtATime -------------------------
(***************************************************************************)
(* The split handlers run one request after the other.  Seen only between  *)
(* requests, they do what the one-step handlers of Collation say.          *)
(***************************************************************************)
EXTENDS CollationAsync

VARIABLE seen   \* rows and lastLog as they were when no request last ran

serialVars == <<rows, lastLog, req, torn, seen>>

AllIdle == \A r \in Client : req[r] = Idle

SerialInit ==
    /\ AsyncInit
    /\ seen = [rows |-> rows, lastLog |-> lastLog]

(* A client sends a request when no other is being served, or its handler *)
(* goes on.                                                              *)
Serve(r) ==
    /\ (AllIdle /\ Arrive(r)) \/ Resume(r)
    /\ seen' = IF AllIdle' THEN [rows |-> rows', lastLog |-> lastLog'] ELSE seen

SerialNext == \E r \in Client : Serve(r)

SerialSpec == SerialInit /\ [][SerialNext]_serialVars

Serial == INSTANCE Collation WITH rows <- seen.rows, lastLog <- seen.lastLog

(***************************************************************************)
(* A request that runs alone has the effect of one step of Collation, or   *)
(* none: every order of database calls in collation.service.ts adds up to  *)
(* the handler the one-step model has.  This is Serial!Spec, where TLC     *)
(* looks first whether anything was seen to change.                        *)
(***************************************************************************)
RunsAsOneStep == Serial!Init /\ [][UNCHANGED seen \/ Serial!Next]_(Serial!vars)
-----------------------------------------------------------------------------
(***************************************************************************)
(* How far a request has come: for the officer of u and the call q that    *)
(* comes next, what the request has made of the rows and the log it found, *)
(* which are seen, and why it was right to.                                *)
(***************************************************************************)
Untouched == rows = seen.rows /\ lastLog = seen.lastLog

LoggedSince(S, to) ==
    [v \in Unit |-> IF v \in S THEN [from |-> seen.rows[v].status, to |-> to]
                    ELSE seen.lastLog[v]]

(* upsertResult, attachEc8aPhoto, submitResult *)
MaySubmit(u) ==
    /\ LevelOf[u] # "WARD"
    /\ seen.rows[u].status \in EditableStatuses
    /\ LevelOf[u] = "POLLING_UNIT" => seen.rows[u].photo

EditUnderWay(u, q) ==
    \/ /\ q.at = "upsert" /\ q.fig \in Figures /\ q.photo \in BOOLEAN
       /\ LevelOf[u] # "WARD"
       /\ rows[u].status \in EditableStatuses \union {"NONE"}
       /\ Untouched
    \/ q.at = "attach" /\ rows[u].status \in EditableStatuses /\ Untouched
    \/ q.at = "submit" /\ q.from = rows[u].status /\ MaySubmit(u) /\ Untouched
    \/ /\ q = Log(u, seen.rows[u].status, "SUBMITTED", {}, Idle)
       /\ MaySubmit(u)
       /\ rows = [seen.rows EXCEPT ![u].status = "SUBMITTED", ![u].reason = FALSE]
       /\ lastLog = seen.lastLog

(* approveResult of c, approveAllLgaWardResults, and the rollup after them *)
Approve(c) == [at |-> "approve", unit |-> c, owes |-> {}]
Approved(c) == [Decide(seen.rows, {c}, "APPROVED") EXCEPT ![c].flagged = {}]
MayApprove(c) ==
    /\ seen.rows[c].status = "SUBMITTED"
    /\ LevelOf[c] = "WARD" => AllPollingUnitsApproved(seen.rows, c)

Pending(l) == {w \in Children(l) : seen.rows[w].status = "SUBMITTED"}
ApproveAll(l) == [at |-> "approveAll", units |-> Pending(l), owes |-> {}]
AllApproved(l) ==
    [v \in Unit |-> IF v \in Pending(l) THEN [seen.rows[v] EXCEPT !.status = "APPROVED"]
                    ELSE seen.rows[v]]
MayApproveAll(l) ==
    /\ LevelOf[l] = "LGA" /\ Pending(l) # {}
    /\ \A w \in Pending(l) : AllPollingUnitsApproved(seen.rows, w)

HasApproved(u) ==
    \/ \E c \in Children(u) : /\ MayApprove(c) /\ rows = Approved(c)
                              /\ lastLog = LoggedSince({c}, "APPROVED")
    \/ /\ MayApproveAll(u) /\ rows = AllApproved(u)
       /\ lastLog = LoggedSince(Pending(u), "APPROVED")

ApprovalUnderWay(u, q) ==
    \/ \E c \in Children(u) :
          \/ /\ q = ReadyCheck({c}, Approve(c)) /\ LevelOf[c] = "WARD"
             /\ seen.rows[c].status = "SUBMITTED" /\ Untouched
          \/ q = Approve(c) /\ MayApprove(c) /\ Untouched
          \/ /\ q = Log(c, "SUBMITTED", "APPROVED", {u}, RollupOf(u))
             /\ MayApprove(c) /\ rows = Approved(c) /\ lastLog = seen.lastLog
    \/ \E W \in SUBSET Pending(u) :
          /\ q = ReadyCheck(W, ApproveAll(u)) /\ W # {} /\ LevelOf[u] = "LGA"
          /\ \A w \in Pending(u) \ W : AllPollingUnitsApproved(seen.rows, w)
          /\ Untouched
    \/ q = ApproveAll(u) /\ MayApproveAll(u) /\ Untouched
    \/ q = RollupOf(u) /\ HasApproved(u)
    \/ /\ q = [at |-> "rollup", unit |-> u, owes |-> {u}, tally |-> AggregateTally(rows, u)]
       /\ ApprovedChildren(rows, u) # {} /\ HasApproved(u)

(* rejectResult of a unit c that is no polling unit *)
RejectCall(c, flags, reopened, P) ==
    [at |-> "reject", unit |-> c, from |-> seen.rows[c].status, flags |-> flags,
     reopened |-> reopened, rest |-> P, owes |-> {}]

SentDown(c, flags) ==
    IF LevelOf[c] = "WARD" THEN [Decide(seen.rows, {c}, "REJECTED") EXCEPT ![c].flagged = flags]
    ELSE Decide(seen.rows, {c}, "REJECTED")

RejectionUnderWay(u, q) ==
    \E c \in Children(u) \ PollingUnits, flags \in SUBSET Unit :
        /\ seen.rows[c].status = "SUBMITTED"
        /\ flags \subseteq (IF LevelOf[c] = "WARD" THEN Children(c) ELSE {})
        /\ \/ q = RejectCall(c, flags, FALSE, {}) /\ Untouched
           \/ /\ q = Log(c, "SUBMITTED", "REJECTED", {}, Idle)
              /\ rows = SentDown(c, flags) /\ lastLog = seen.lastLog

(***************************************************************************)
(* rejectResult of a polling unit of ward u, or returnLgaFlaggedPus: the   *)
(* units T are returned, of which D have been.                             *)
(***************************************************************************)
Flagged(u) == {p \in seen.rows[u].flagged : seen.rows[p].status \in {"APPROVED", "SUBMITTED"}}

MayReturn(u, T) ==
    /\ T \subseteq Children(u)
    /\ \A p \in T : seen.rows[p].status \in {"APPROVED", "SUBMITTED"}
    /\ \/ \E p \in T : T = {p}
       \/ seen.rows[u].status = "REJECTED" /\ seen.rows[u].flagged # {} /\ T = Flagged(u)

Reopens(D) == \E p \in D : seen.rows[p].status = "APPROVED"

Recounted(u, D) ==
    LET returned == Decide(seen.rows, D, "REJECTED")
    IN  IF Reopens(D) THEN [returned EXCEPT ![u].tally = AggregateTally(returned, u)]
        ELSE returned

(* All but the recount. *)
Uncounted(u, D) ==
    /\ rows = [Decide(seen.rows, D, "REJECTED") EXCEPT ![u].tally = rows[u].tally]
    /\ Reopens(D) /\ seen.rows[u].status = "REJECTED"

(* At unit p, with the units P still to come. *)
AtUnit(u, T, P, p, q) ==
    LET before == T \ (P \union {p})
        approved == seen.rows[p].status = "APPROVED"
    IN  /\ lastLog = LoggedSince(before, "REJECTED")
        /\ \/ /\ q = [at |-> "ask", unit |-> p, owes |-> {}, next |-> RejectCall(p, {}, TRUE, P)]
              /\ approved /\ rows = Recounted(u, before)
           \/ /\ q = RejectCall(p, {}, approved, P) /\ rows = Recounted(u, before)
              /\ approved => seen.rows[u].status = "REJECTED"
           \/ /\ q = Log(p, "SUBMITTED", "REJECTED", {}, ReturnRest(P))
              /\ ~approved /\ rows = Recounted(u, T \ P)
           \/ /\ q = Log(p, "APPROVED", "REJECTED", {u}, RebuildOf(u, FALSE, {u}, ReturnRest(P)))
              /\ approved /\ Uncounted(u, T \ P)

(* Recounting the ward, with the units P still to come. *)
AtWard(u, T, P, q) ==
    LET reason == seen.rows[u].reason
        flagged == seen.rows[u].flagged
    IN  /\ lastLog = LoggedSince(T \ P, "REJECTED")
        /\ \/ q = RebuildOf(u, FALSE, {u}, ReturnRest(P)) /\ Uncounted(u, T \ P)
           \/ /\ q = [at |-> "recount", unit |-> u, force |-> FALSE, reason |-> reason,
                      flagged |-> flagged, owes |-> {u}, next |-> ReturnRest(P)]
              /\ Uncounted(u, T \ P)
           \/ /\ q = [at |-> "rebuild", unit |-> u, force |-> FALSE, reason |-> reason,
                      flagged |-> flagged, tally |-> AggregateTally(rows, u),
                      owes |-> {u}, next |-> ReturnRest(P)]
              /\ Uncounted(u, T \ P)
           \/ q = ReturnRest(P) /\ P # {} /\ rows = Recounted(u, T \ P)

ReturnUnderWay(u, q) ==
    /\ LevelOf[u] = "WARD"
    /\ \/ /\ q = [at |-> "find", units |-> seen.rows[u].flagged, owes |-> {}]
          /\ seen.rows[u].status = "REJECTED" /\ seen.rows[u].flagged # {} /\ Untouched
       \/ \E T \in SUBSET Children(u) : \E P \in SUBSET T :
             /\ MayReturn(u, T)
             /\ AtWard(u, T, P, q) \/ \E p \in T \ P : AtUnit(u, T, P, p, q)

(* resubmitWardToLga *)
ResubmissionUnderWay(u, q) ==
    LET done == Log(u, "REJECTED", "SUBMITTED", {}, Idle)
        reason == seen.rows[u].reason
        flagged == seen.rows[u].flagged
    IN  /\ LevelOf[u] = "WARD" /\ seen.rows[u].status = "REJECTED" /\ lastLog = seen.lastLog
        /\ \/ q = ReadyCheck({u}, RebuildOf(u, TRUE, {}, done)) /\ rows = seen.rows
           \/ /\ AllPollingUnitsApproved(seen.rows, u)
              /\ \/ q = RebuildOf(u, TRUE, {}, done) /\ rows = seen.rows
                 \/ /\ q = [at |-> "recount", unit |-> u, force |-> TRUE, reason |-> reason,
                            flagged |-> flagged, owes |-> {}, next |-> done]
                    /\ rows = seen.rows
                 \/ /\ q = [at |-> "rebuild", unit |-> u, force |-> TRUE, reason |-> reason,
                            flagged |-> flagged, tally |-> AggregateTally(rows, u),
                            owes |-> {}, next |-> done]
                    /\ rows = seen.rows
                 \/ q = done /\ rows = RebuildWardRollup(seen.rows, u, TRUE)

UnderWay(u, q) ==
    \/ EditUnderWay(u, q) \/ ApprovalUnderWay(u, q) \/ RejectionUnderWay(u, q)
    \/ ReturnUnderWay(u, q) \/ ResubmissionUnderWay(u, q)

(* Rows as such: flags are on wards, and of their polling units. *)
WellFormed(rs) ==
    /\ rs \in [Unit -> Row]
    /\ \A v \in Unit : rs[v].flagged \subseteq Children(v)

(* The inductive invariant of requests that do not overlap. *)
SerialInv ==
    /\ DOMAIN req = Client
    /\ seen = [rows |-> seen.rows, lastLog |-> seen.lastLog]
    /\ WellFormed(seen.rows)
    /\ seen.lastLog = [v \in Unit |-> seen.lastLog[v]]
    /\ AllIdle => Untouched
    /\ \A r, s \in Client : req[r] # Idle /\ req[s] # Idle => r = s
    /\ \A r \in Client : req[r] # Idle => UnderWay(OfficerOf[r], req[r])
=============================================================================
