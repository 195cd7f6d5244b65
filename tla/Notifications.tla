---------------------------- MODULE Notifications ----------------------------
(***************************************************************************)
(* From an event to an officer's inbox and devices                         *)
(* (src/modules/notifications).  A handler emits an event, and in the same *)
(* process NotificationsListener starts a dispatch: it looks up who is to  *)
(* be told, writes one inbox row after the other, and then pushes to the   *)
(* devices of those it wrote a row for.  Dispatches overlap with each      *)
(* other, and nothing resumes one that the process's death cut off.        *)
(*                                                                         *)
(* An event's key is what the unique index notifications_dedupe_key sees   *)
(* of it besides the recipient.  A definition marked "Slip" is a faulty    *)
(* variant of the one after it that no action uses.                        *)
(***************************************************************************)
EXTENDS Naturals, FiniteSets

CONSTANTS
    User, Ward, Lga,
    LgaOf,          \* the LGA of a ward, in [Ward -> Lga]
    Officers,       \* the officers of a ward or LGA
    Entity,         \* what events are about
    Token,          \* FCM tokens, one per installed app
    Holder,         \* bound: the users who register devices
    Reader,         \* bound: the users who mark notifications read
    None,           \* no user, no ward
    Dispatch,       \* bound: dispatches under way at a time
    ChunkSize       \* tokens per FCM multicast (500)

(* A user has at most one membership, so one office, in a campaign. *)
ASSUME NotificationsAssumption ==
    /\ LgaOf \in [Ward -> Lga]
    /\ Officers \in [Ward \union Lga -> SUBSET User]
    /\ \A p, q \in Ward \union Lga : p # q => Officers[p] \cap Officers[q] = {}
    /\ None \notin User \union Ward
    /\ Holder \subseteq User /\ Reader \subseteq User
    /\ ChunkSize \in Nat \ {0}
    /\ IsFiniteSet(Token)

VARIABLES
    inbox,      \* notification rows, as <<key, recipient>>
    read,       \* those of them that are marked read
    dispatch,   \* the dispatches under way
    device,     \* per token, its device_tokens row
    pushed,     \* <<key, addressee, token>> of every push FCM accepted
    repeated,   \* those it accepted more than once
    dropped,    \* <<key, user>> whose row an error or a crash prevented
    dead,       \* tokens whose app was uninstalled
    left        \* tokens whose holder unregistered them

notificationVars ==
    <<inbox, read, dispatch, device, pushed, repeated, dropped, dead, left>>

EventType == {"INCIDENT_REPORTED", "INCIDENT_ESCALATED", "INCIDENT_RESOLVED"}

Event ==
    [type    : EventType,
     entity  : Entity,
     actor   : User,                    \* whose act it is
     subject : User,                    \* who reported the incident
     ward    : Ward \union {None},
     urgent  : BOOLEAN]

Key == EventType \X Entity
KeyOf(e) == <<e.type, e.entity>>

WardOfficers(w) == IF w = None THEN {} ELSE Officers[w]
LgaOfficers(w)  == IF w = None THEN {} ELSE Officers[LgaOf[w]]

(* RecipientResolverService: whom an event is for, and whose devices ring. *)
Audience(e) ==
    (CASE e.type = "INCIDENT_REPORTED"  -> WardOfficers(e.ward) \union
                                           (IF e.urgent THEN LgaOfficers(e.ward) ELSE {})
       [] e.type = "INCIDENT_ESCALATED" -> LgaOfficers(e.ward)
       [] e.type = "INCIDENT_RESOLVED"  -> {e.subject}) \ {e.actor}

PushAudience(e) ==
    (CASE e.type = "INCIDENT_REPORTED"  -> WardOfficers(e.ward)
       [] e.type = "INCIDENT_ESCALATED" -> {}
       [] e.type = "INCIDENT_RESOLVED"  -> {e.subject}) \ {e.actor}

(***************************************************************************)
(* A dispatch: recipients without a row yet, those it wrote a row for and  *)
(* is to push to, the tokens it read with their owners of that moment, and *)
(* the tokens FCM called invalid.                                          *)
(***************************************************************************)
Idle == [at |-> "idle"]
Running ==
    [at      : {"resolve", "rows", "tokens", "send", "clean"},
     event   : Event,
     todo    : SUBSET User,
     created : SUBSET User,
     tokens  : SUBSET (User \X Token),
     invalid : SUBSET Token]

Device == [user : User \union {None}, active : BOOLEAN]

NotificationsTypeOK ==
    /\ inbox \subseteq Key \X User
    /\ read \subseteq inbox
    /\ dispatch \in [Dispatch -> Running \union {Idle}]
    /\ device \in [Token -> Device]
    /\ pushed \subseteq Key \X User \X Token
    /\ repeated \subseteq pushed
    /\ dropped \subseteq Key \X User
    /\ dead \subseteq Token
    /\ left \subseteq Token

NotificationsInit ==
    /\ inbox = {} /\ read = {}
    /\ dispatch = [d \in Dispatch |-> Idle]
    /\ device = [t \in Token |-> [user |-> None, active |-> FALSE]]
    /\ pushed = {} /\ repeated = {} /\ dropped = {} /\ dead = {} /\ left = {}

-----------------------------------------------------------------------------
(* Dispatch d moves on to step `at`, or ends when nothing is left to do. *)
Continue(d, at, more, update) ==
    dispatch' = [dispatch EXCEPT ![d] = IF more THEN [update EXCEPT !.at = at] ELSE Idle]

(* emitNotification: event e is handed to the listener (inside a handler). *)
Emit(d, e) ==
    /\ dispatch[d] = Idle
    /\ dispatch' = [dispatch EXCEPT ![d] =
                      [at |-> "resolve", event |-> e, todo |-> {}, created |-> {},
                       tokens |-> {}, invalid |-> {}]]

Resolve(d) ==
    /\ dispatch[d].at = "resolve"
    /\ LET to == Audience(dispatch[d].event)
       IN  Continue(d, "rows", to # {}, [dispatch[d] EXCEPT !.todo = to])
    /\ UNCHANGED <<inbox, read, device, pushed, repeated, dropped, dead, left>>

(* Recipient u is done with; those of `new` get a push later. *)
Done(d, u, new) ==
    LET todo    == dispatch[d].todo \ {u}
        created == dispatch[d].created \union new
    IN  Continue(d, IF todo # {} THEN "rows" ELSE "tokens", todo # {} \/ created # {},
                 [dispatch[d] EXCEPT !.todo = todo, !.created = created])

(* Slip: the row of a duplicate is written over, as new. *)
PersistOver(d, u) ==
    LET e == dispatch[d].event
    IN  /\ dispatch[d].at = "rows"
        /\ u \in dispatch[d].todo
        /\ inbox' = inbox \union {<<KeyOf(e), u>>}
        /\ read' = read \ {<<KeyOf(e), u>>}
        /\ Done(d, u, {v \in {u} \cap PushAudience(e) : <<KeyOf(e), v>> \notin inbox})
        /\ UNCHANGED <<device, pushed, repeated, dropped, dead, left>>

(* Slip: a duplicate is pushed although its row was there already. *)
PersistPushingAgain(d, u) ==
    LET e == dispatch[d].event
    IN  /\ dispatch[d].at = "rows"
        /\ u \in dispatch[d].todo
        /\ inbox' = inbox \union {<<KeyOf(e), u>>}
        /\ Done(d, u, {u} \cap PushAudience(e))
        /\ UNCHANGED <<read, device, pushed, repeated, dropped, dead, left>>

(* notification.create for recipient u; the unique index refuses a second *)
(* row for the same event, and its recipient is passed over.              *)
Persist(d, u) ==
    LET e == dispatch[d].event
    IN  /\ dispatch[d].at = "rows"
        /\ u \in dispatch[d].todo
        /\ inbox' = inbox \union {<<KeyOf(e), u>>}
        /\ Done(d, u, {v \in {u} \cap PushAudience(e) : <<KeyOf(e), v>> \notin inbox})
        /\ UNCHANGED <<read, device, pushed, repeated, dropped, dead, left>>

(* Another error of the insert is logged, and the loop goes on. *)
PersistFails(d, u) ==
    /\ dispatch[d].at = "rows"
    /\ u \in dispatch[d].todo
    /\ dropped' = dropped \union {<<KeyOf(dispatch[d].event), u>>}
    /\ Done(d, u, {})
    /\ UNCHANGED <<inbox, read, device, pushed, repeated, dead, left>>

TokensForUsers(d) ==
    /\ dispatch[d].at = "tokens"
    /\ LET found == {<<device[t].user, t>> : t \in
                       {s \in Token : /\ device[s].active
                                      /\ device[s].user \in dispatch[d].created}}
       IN  Continue(d, "send", found # {}, [dispatch[d] EXCEPT !.tokens = found])
    /\ UNCHANGED <<inbox, read, device, pushed, repeated, dropped, dead, left>>

(***************************************************************************)
(* One multicast to `chunk`: FCM refuses dead tokens for good, and accepts *)
(* the pushes to those `accepted` of the others (none when the call        *)
(* throws, which tells nothing about dead tokens either).                  *)
(***************************************************************************)
Send(d, chunk, accepted, throws) ==
    LET remaining == dispatch[d].tokens \ chunk
        invalid == dispatch[d].invalid \union
                     (IF throws THEN {} ELSE {c[2] : c \in chunk} \cap dead)
        sent == {<<KeyOf(dispatch[d].event), c[1], c[2]>> : c \in accepted}
    IN  /\ \/ Cardinality(chunk) = ChunkSize
           \/ chunk = dispatch[d].tokens /\ Cardinality(chunk) < ChunkSize
        /\ throws => accepted = {}
        /\ \A c \in accepted : c[2] \notin dead
        /\ pushed' = pushed \union sent
        /\ repeated' = repeated \union (pushed \cap sent)
        /\ Continue(d, IF remaining # {} THEN "send" ELSE "clean",
                    remaining # {} \/ invalid # {},
                    [dispatch[d] EXCEPT !.tokens = remaining, !.invalid = invalid])
        /\ UNCHANGED <<inbox, read, device, dropped, dead, left>>

Multicast(d) ==
    /\ dispatch[d].at = "send"
    /\ \E chunk \in SUBSET dispatch[d].tokens : \E accepted \in SUBSET chunk :
          \E throws \in BOOLEAN : Send(d, chunk, accepted, throws)

DeactivateTokens(d) ==
    /\ dispatch[d].at = "clean"
    /\ device' = [t \in Token |-> IF t \in dispatch[d].invalid
                                  THEN [device[t] EXCEPT !.active = FALSE] ELSE device[t]]
    /\ Continue(d, "clean", FALSE, dispatch[d])
    /\ UNCHANGED <<inbox, read, pushed, repeated, dropped, dead, left>>

(* <<key, user>> for which d has yet to try a row. *)
Owed(d) ==
    CASE dispatch[d].at = "resolve" -> {KeyOf(dispatch[d].event)} \X Audience(dispatch[d].event)
      [] dispatch[d].at = "rows"    -> {KeyOf(dispatch[d].event)} \X dispatch[d].todo
      [] OTHER -> {}

(* A lookup or the deactivation throws: handleDispatch logs it and is done. *)
DispatchFails(d) ==
    /\ dispatch[d].at \in {"resolve", "tokens", "clean"}
    /\ dropped' = dropped \union Owed(d)
    /\ Continue(d, "idle", FALSE, dispatch[d])
    /\ UNCHANGED <<inbox, read, device, pushed, repeated, dead, left>>

(* The process dies with every dispatch, and is started again. *)
Crash ==
    /\ dropped' = dropped \union UNION {Owed(d) : d \in Dispatch}
    /\ dispatch' = [d \in Dispatch |-> Idle]
    /\ UNCHANGED <<inbox, read, device, pushed, repeated, dead, left>>

-----------------------------------------------------------------------------
RegisterDevice(u, t) ==
    /\ t \notin dead
    /\ device' = [device EXCEPT ![t] = [user |-> u, active |-> TRUE]]
    /\ left' = left \ {t}
    /\ UNCHANGED <<inbox, read, dispatch, pushed, repeated, dropped, dead>>

(* Slip: whoever held the token before may still switch it off. *)
UnregisterAnyones(u, t) ==
    /\ device' = [device EXCEPT ![t].active = FALSE]
    /\ left' = IF device[t].user = u THEN left \union {t} ELSE left
    /\ UNCHANGED <<inbox, read, dispatch, pushed, repeated, dropped, dead>>

UnregisterDevice(u, t) ==
    /\ device[t].user = u
    /\ device' = [device EXCEPT ![t].active = FALSE]
    /\ left' = left \union {t}
    /\ UNCHANGED <<inbox, read, dispatch, pushed, repeated, dropped, dead>>

(* The app is uninstalled: FCM will not know the token again. *)
Uninstall(t) ==
    /\ device[t].user # None
    /\ dead' = dead \union {t}
    /\ UNCHANGED <<inbox, read, dispatch, device, pushed, repeated, dropped, left>>

(* Slip: without a look whether there is such a row. *)
MarkReadUnseen(k, u) ==
    /\ read' = read \union {<<k, u>>}
    /\ UNCHANGED <<inbox, dispatch, device, pushed, repeated, dropped, dead, left>>

MarkRead(k, u) ==
    /\ <<k, u>> \in inbox
    /\ read' = read \union {<<k, u>>}
    /\ UNCHANGED <<inbox, dispatch, device, pushed, repeated, dropped, dead, left>>

MarkAllRead(u) ==
    /\ read' = read \union {n \in inbox : n[2] = u}
    /\ UNCHANGED <<inbox, dispatch, device, pushed, repeated, dropped, dead, left>>

-----------------------------------------------------------------------------
NotificationsNext ==
    \/ \E d \in Dispatch :
          \/ Resolve(d)
          \/ \E u \in User : Persist(d, u) \/ PersistFails(d, u)
          \/ TokensForUsers(d)
          \/ Multicast(d)
          \/ DeactivateTokens(d)
          \/ DispatchFails(d)
    \/ \E u \in Holder, t \in Token : RegisterDevice(u, t) \/ UnregisterDevice(u, t)
    \/ \E t \in Token : Uninstall(t)
    \/ \E u \in Reader : MarkAllRead(u) \/ \E k \in Key : MarkRead(k, u)
    \/ Crash
=============================================================================
