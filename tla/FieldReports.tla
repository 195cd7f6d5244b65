---------------------------- MODULE FieldReports ----------------------------
(***************************************************************************)
(* Field reports and their handling by ward and LGA                        *)
(* (src/modules/field-reports/field-reports.service.ts), with the          *)
(* notifications their handlers send.  What updateStatus reads before its  *)
(* write and uses after it (place and reporter) never changes, so each     *)
(* handler is one step.                                                    *)
(***************************************************************************)
EXTENDS Notifications

CONSTANT Headquarters   \* users with a role above the LGA

ASSUME HeadquartersAssumption ==
    /\ Headquarters \subseteq User
    /\ \A p \in Ward \union Lga : Headquarters \cap Officers[p] = {}

VARIABLE report         \* the field_reports rows

vars == <<report, notificationVars>>

ReportStatus == {"OPEN", "ESCALATED", "RESOLVED"}

Report ==
    [status    : ReportStatus,
     incident  : BOOLEAN,               \* INCIDENT or SECURITY_CONCERN
     urgent    : BOOLEAN,
     ward      : Ward \union {None},
     reporter  : User,
     handledBy : User \union {None}]

NoReport == [status |-> "NONE"]

TypeOK ==
    /\ NotificationsTypeOK
    /\ report \in [Entity -> Report \union {NoReport}]

Init ==
    /\ NotificationsInit
    /\ report = [r \in Entity |-> NoReport]

EventAbout(type, r, row, actor) ==
    [type |-> type, entity |-> r, actor |-> actor, subject |-> row.reporter,
     ward |-> row.ward, urgent |-> row.urgent]

WardScoped(u) == \E w \in Ward : u \in Officers[w]
LgaScoped(u)  == \E l \in Lga : u \in Officers[l]

(***************************************************************************)
(* User u reports.  What a ward officer reports is in its own ward, and is *)
(* escalated at once; anybody else's incident waits for the ward.          *)
(***************************************************************************)
Create(u, r, incident, urgent, ward) ==
    LET escalated == WardScoped(u) /\ incident
        row == [status    |-> IF escalated THEN "ESCALATED" ELSE "OPEN",
                incident  |-> incident,
                urgent    |-> urgent,
                ward      |-> ward,
                reporter  |-> u,
                handledBy |-> IF escalated THEN u ELSE None]
    IN  /\ report[r] = NoReport
        /\ WardScoped(u) => ward # None /\ u \in Officers[ward]
        /\ report' = [report EXCEPT ![r] = row]
        /\ IF incident
           THEN \E d \in Dispatch :
                  Emit(d, EventAbout(IF escalated THEN "INCIDENT_ESCALATED"
                                     ELSE "INCIDENT_REPORTED", r, row, u))
           ELSE UNCHANGED dispatch
        /\ UNCHANGED <<inbox, read, device, pushed, repeated, dropped, dead, left>>

(* Ward and LGA officers handle what is in their area; an LGA officer also *)
(* what has no ward.                                                       *)
MayHandle(u, row) ==
    \/ u \in Headquarters
    \/ row.ward # None /\ u \in Officers[row.ward]
    \/ LgaScoped(u) /\ (row.ward # None => u \in Officers[LgaOf[row.ward]])

(* Slip: a status is only told of when an open report gets it. *)
UpdateStatusOnce(u, r, status) ==
    /\ report[r] # NoReport
    /\ MayHandle(u, report[r])
    /\ report' = [report EXCEPT ![r].status = status, ![r].handledBy = u]
    /\ IF status # "OPEN" /\ report[r].status = "OPEN"
       THEN \E d \in Dispatch :
              Emit(d, EventAbout(IF status = "RESOLVED" THEN "INCIDENT_RESOLVED"
                                 ELSE "INCIDENT_ESCALATED", r, report[r], u))
       ELSE UNCHANGED dispatch
    /\ UNCHANGED <<inbox, read, device, pushed, repeated, dropped, dead, left>>

(* User u sets the status of report r, whatever it was. *)
UpdateStatus(u, r, status) ==
    /\ report[r] # NoReport
    /\ MayHandle(u, report[r])
    /\ report' = [report EXCEPT ![r].status = status, ![r].handledBy = u]
    /\ IF status # "OPEN"
       THEN \E d \in Dispatch :
              Emit(d, EventAbout(IF status = "RESOLVED" THEN "INCIDENT_RESOLVED"
                                 ELSE "INCIDENT_ESCALATED", r, report[r], u))
       ELSE UNCHANGED dispatch
    /\ UNCHANGED <<inbox, read, device, pushed, repeated, dropped, dead, left>>

Next ==
    \/ NotificationsNext /\ UNCHANGED report
    \/ \E u \in User, r \in Entity :
          \/ \E incident, urgent \in BOOLEAN, ward \in Ward \union {None} :
                Create(u, r, incident, urgent, ward)
          \/ \E status \in ReportStatus : UpdateStatus(u, r, status)

Spec == Init /\ [][Next]_vars

-----------------------------------------------------------------------------
(* Told, lost to an error or crash, or still to be told by a dispatch. *)
ToldOrOwed == inbox \union dropped \union UNION {Owed(d) : d \in Dispatch}

Told(r) ==
    LET row == report[r]
        told(type, S) == {<<type, r>>} \X (S \ {row.handledBy}) \subseteq ToldOrOwed
    IN  row # NoReport =>
          /\ row.status = "RESOLVED" => told("INCIDENT_RESOLVED", {row.reporter})
          /\ row.status = "ESCALATED" => told("INCIDENT_ESCALATED", LgaOfficers(row.ward))
          /\ row.incident /\ ~WardScoped(row.reporter) =>
                {<<"INCIDENT_REPORTED", r>>} \X (WardOfficers(row.ward) \ {row.reporter})
                    \subseteq ToldOrOwed

(***************************************************************************)
(* A handled report is told of: whoever reported it of its resolution, the *)
(* LGA of its escalation, unless they handled it, and the ward of an       *)
(* incident somebody else reported.  An officer has the row, gets it from  *)
(* a dispatch under way, or lost it to an error or a crash, however often  *)
(* the report was reopened and although the key of an event stays the same *)
(* each time (field-reports.service.ts 203, 282, 300).                     *)
(***************************************************************************)
ReportsAreTold == \A r \in Entity : Told(r)

(***************************************************************************)
(* Nobody's device rings twice for one event, and it rings for what the    *)
(* inbox shows: although the same event is sent again with every new       *)
(* resolution, dispatches overlap, and tokens change hands                 *)
(* (notifications.service.ts 43-69).                                       *)
(***************************************************************************)
PushedOnce ==
    /\ repeated = {}
    /\ \A p \in pushed : <<p[1], p[2]>> \in inbox

(* A device is switched off only by whoever holds it, or for its uninstalled *)
(* app: a late sign-out of the user before does not silence the next.        *)
SilentForAReason ==
    \A t \in Token : device[t].user # None /\ ~device[t].active => t \in left \union dead

(* What an officer has read does not come back as news. *)
ReadStaysRead == [][read \subseteq read']_vars

-----------------------------------------------------------------------------
(* Dispatch d may still push to user u's device t. *)
MayPush(d, u, t) ==
    \/ dispatch[d].at \in {"rows", "tokens"} /\ u \in dispatch[d].created
    \/ dispatch[d].at = "send" /\ <<u, t>> \in dispatch[d].tokens

(***************************************************************************)
(* Why no push is repeated: an event's row for a user is written by one    *)
(* dispatch, so of all that tell of this event only that one may push to   *)
(* the user's devices, and has not yet (notifications.service.ts 43-69).   *)
(***************************************************************************)
OnePusher ==
    \A d \in Dispatch, u \in User, t \in Token : MayPush(d, u, t) =>
        LET k == KeyOf(dispatch[d].event)
        IN  /\ <<k, u>> \in inbox
            /\ <<k, u, t>> \notin pushed
            /\ \A o \in Dispatch \ {d} :
                  MayPush(o, u, t) => KeyOf(dispatch[o].event) # k

(* A dispatch that has no recipients yet wrote no rows, and it switches off *)
(* dead tokens only.                                                       *)
DispatchesSound ==
    \A d \in Dispatch : dispatch[d] # Idle =>
        /\ dispatch[d].at = "resolve" => dispatch[d].created = {}
        /\ dispatch[d].invalid \subseteq dead

(* The inductive invariant of the proofs. *)
FieldIInv ==
    /\ TypeOK
    /\ ReportsAreTold
    /\ PushedOnce
    /\ OnePusher
    /\ SilentForAReason
    /\ DispatchesSound
=============================================================================
