------------------------------ MODULE Accounts ------------------------------
(***************************************************************************)
(* Officers' accounts: who may sign in, what office a token claims, and    *)
(* how the managers assign offices (modules/auth, modules/agents).  A user *)
(* and the membership that gives the office are two rows, written one      *)
(* after the other; an access token carries the office that was read when  *)
(* it was issued until it expires.  Calls overlap at their awaits, and any *)
(* may be cut off between two of its database calls.                       *)
(*                                                                         *)
(* One campaign, and the roles that managers assign, each named for its    *)
(* level.  A definition marked "Slip" is a faulty variant of the one after *)
(* it that no action uses.                                                 *)
(***************************************************************************)
EXTENDS Naturals

CONSTANTS
    User, Unit,
    LevelOf,        \* the level of a unit
    LgaOf,          \* the LGA a unit belongs to, itself for an LGA
    Session,        \* bound: sign-ins whose tokens are followed at a time
    Token,          \* bound: refresh tokens alive or in use at a time
    Call,           \* bound: calls under way at a time
    AccessLife,     \* life of an access token (15 minutes), in ticks
    RefreshLife,    \* life of a refresh token (7 days), in ticks
    Nothing         \* no row, no office, a field the request leaves out

Role == {"POLLING_UNIT", "WARD", "LGA"}

(* A free session or token name stands for a fresh random value. *)
ASSUME AccountsAssumption ==
    /\ LevelOf \in [Unit -> Role]
    /\ AccessLife \in Nat \ {0} /\ RefreshLife \in Nat \ {0}
    /\ Nothing \notin User /\ Nothing \notin Unit /\ Nothing \notin Role
    /\ Nothing \notin BOOLEAN
    /\ Nothing \notin [role : Role, scope : Unit]
    /\ Nothing \notin [role : Role, scope : Unit, active : BOOLEAN]
    /\ Nothing \notin [session : Session, life : Nat]

VARIABLES
    account,        \* users' rows: whether they exist and are active
    membership,     \* campaign_memberships, one per user
    holder,         \* whose session it is
    refresh,        \* refresh tokens that are not revoked, with their life
    access,         \* per user and office, the life of the last access token
    call,           \* the calls under way
    raced,          \* sessions with a token revoked by two calls (auxiliary)
    disturbed       \* users whose two rows were written out of turn (auxiliary)

vars == <<account, membership, holder, refresh, access, call, raced, disturbed>>

Office == [role : Role, scope : Unit]
Claim  == Office \union {Nothing}
Membership == [role : Role, scope : Unit, active : BOOLEAN]

(* The membership that sign-in and refresh look for, active ones only. *)
OfficeOf(u) ==
    LET m == membership[u]
    IN  IF m = Nothing \/ ~m.active THEN Nothing ELSE [role |-> m.role, scope |-> m.scope]

(* A call between two database calls: "at" is the one it makes next, the   *)
(* rest are its local variables.                                           *)
Idle == [at |-> "idle"]
Issuing(u, s, o) == [at |-> "issue", user |-> u, session |-> s, claim |-> o]
Refreshing(t, u, s, o) ==
    [at |-> "revoke", token |-> t, user |-> u, session |-> s, claim |-> o]
Writing(at, u, found, o, active) ==
    [at |-> at, user |-> u, found |-> found, office |-> o, active |-> active]

CallState ==
    {Idle}
    \union [at : {"issue"}, user : User, session : Session, claim : Claim]
    \union [at : {"revoke"}, token : Token, user : User, session : Session, claim : Claim]
    \union [at : {"create", "update", "upsert", "assign"}, user : User, found : BOOLEAN,
            office : Office, active : BOOLEAN \union {Nothing}]

Free(c) == call[c].at = "idle"
Alive(t) == refresh[t] # Nothing /\ refresh[t].life > 0
TokenOf(s) == {t \in Token : refresh[t] # Nothing /\ refresh[t].session = s}
CallsOf(s) == {c \in Call : call[c].at \in {"issue", "revoke"} /\ call[c].session = s}
Ended(s) == CallsOf(s) = {} /\ \A t \in TokenOf(s) : ~Alive(t)
BetweenRows(u) == {c \in Call : call[c].at \in {"upsert", "assign"} /\ call[c].user = u}

Init ==
    /\ account = [u \in User |-> [exists |-> FALSE, active |-> FALSE]]
    /\ membership = [u \in User |-> Nothing]
    /\ holder = [s \in Session |-> Nothing]
    /\ refresh = [t \in Token |-> Nothing]
    /\ access = [u \in User |-> [o \in Claim |-> 0]]
    /\ call = [c \in Call |-> Idle]
    /\ raced = {}
    /\ disturbed = {}

-----------------------------------------------------------------------------
(***************************************************************************)
(* Signing in (AuthService)                                                *)
(***************************************************************************)

Register(u) ==
    /\ ~account[u].exists
    /\ account' = [account EXCEPT ![u] = [exists |-> TRUE, active |-> TRUE]]
    /\ UNCHANGED <<membership, holder, refresh, access, call, raced, disturbed>>

(* validateUser reads user and office; the password check awaits. *)
Login(c, u, s) ==
    /\ Free(c)
    /\ account[u].exists /\ account[u].active
    /\ Ended(s)
    /\ holder' = [holder EXCEPT ![s] = u]
    /\ call' = [call EXCEPT ![c] = Issuing(u, s, OfficeOf(u))]
    /\ raced' = raced \ {s}
    /\ UNCHANGED <<account, membership, refresh, access, disturbed>>

IssueFor(c, life) ==
    /\ call[c].at = "issue"
    /\ \E t \in Token :
          /\ ~Alive(t)
          /\ \A d \in Call : call[d].at = "revoke" => call[d].token # t
          /\ refresh' = [refresh EXCEPT ![t] =
                            [session |-> call[c].session, life |-> RefreshLife]]
    /\ access' = [access EXCEPT ![call[c].user][call[c].claim] = life]
    /\ call' = [call EXCEPT ![c] = Idle]
    /\ UNCHANGED <<account, membership, holder, raced, disturbed>>

(* Slip: the life of the other kind of token. *)
IssueLongLived(c) == IssueFor(c, RefreshLife)

(* generateTokens: both tokens, with the office read before. *)
Issue(c) == IssueFor(c, AccessLife)

(* Slip: the token is not asked whether it expired. *)
RefreshExpired(c, t) ==
    /\ Free(c)
    /\ refresh[t] # Nothing
    /\ LET s == refresh[t].session
           u == holder[s]
       IN  call' = [call EXCEPT ![c] = Refreshing(t, u, s, OfficeOf(u))]
    /\ UNCHANGED <<account, membership, holder, refresh, access, raced, disturbed>>

(* Slip: the office comes from a token that is still valid. *)
RefreshAsBefore(c, t) ==
    /\ Free(c)
    /\ Alive(t)
    /\ LET s == refresh[t].session
           u == holder[s]
       IN  \E o \in {OfficeOf(u)} \union {k \in Claim : access[u][k] > 0} :
              call' = [call EXCEPT ![c] = Refreshing(t, u, s, o)]
    /\ UNCHANGED <<account, membership, holder, refresh, access, raced, disturbed>>

(* refresh reads the token with its user's office ... *)
Refresh(c, t) ==
    /\ Free(c)
    /\ Alive(t)
    /\ LET s == refresh[t].session
           u == holder[s]
       IN  call' = [call EXCEPT ![c] = Refreshing(t, u, s, OfficeOf(u))]
    /\ UNCHANGED <<account, membership, holder, refresh, access, raced, disturbed>>

(* Slip: the token stays good beside its successor. *)
RevokeNothing(c) ==
    /\ call[c].at = "revoke"
    /\ call' = [call EXCEPT ![c] = Issuing(@.user, @.session, @.claim)]
    /\ UNCHANGED <<account, membership, holder, refresh, access, raced, disturbed>>

(* ... and revokes it by its id, whatever happened to it meanwhile. *)
Revoke(c) ==
    /\ call[c].at = "revoke"
    /\ LET t == call[c].token
           s == call[c].session
       IN  /\ refresh' = [refresh EXCEPT ![t] = Nothing]
           /\ raced' = IF refresh[t] = Nothing THEN raced \union {s} ELSE raced
    /\ call' = [call EXCEPT ![c] = Issuing(@.user, @.session, @.claim)]
    /\ UNCHANGED <<account, membership, holder, access, disturbed>>

Logout(t) ==
    /\ refresh[t] # Nothing
    /\ refresh' = [refresh EXCEPT ![t] = Nothing]
    /\ UNCHANGED <<account, membership, holder, access, call, raced, disturbed>>

-----------------------------------------------------------------------------
(***************************************************************************)
(* Assigning offices (AgentsService)                                       *)
(***************************************************************************)

(* resolveScopeInLga: the unit is one for the role. *)
Fits(role, scope) == LevelOf[scope] = role

(* create looks for the user by phone and email. *)
Create(c, u, o) ==
    /\ Free(c)
    /\ Fits(o.role, o.scope)
    /\ call' = [call EXCEPT ![c] = Writing("create", u, account[u].exists, o, TRUE)]
    /\ UNCHANGED <<account, membership, holder, refresh, access, raced, disturbed>>

(* A user that another call created meanwhile violates a unique index. *)
CreateUser(c) ==
    /\ call[c].at = "create"
    /\ LET u == call[c].user
           clash == ~call[c].found /\ account[u].exists
       IN  IF clash
           THEN /\ call' = [call EXCEPT ![c] = Idle]
                /\ UNCHANGED <<account, disturbed>>
           ELSE /\ account' = [account EXCEPT ![u] = [exists |-> TRUE, active |-> TRUE]]
                /\ call' = [call EXCEPT ![c].at = "upsert"]
                /\ disturbed' = IF BetweenRows(u) = {} THEN disturbed ELSE disturbed \union {u}
    /\ UNCHANGED <<membership, holder, refresh, access, raced>>

UpsertMembership(c) ==
    /\ call[c].at = "upsert"
    /\ membership' = [membership EXCEPT ![call[c].user] =
                         [role |-> call[c].office.role, scope |-> call[c].office.scope,
                          active |-> TRUE]]
    /\ call' = [call EXCEPT ![c] = Idle]
    /\ UNCHANGED <<account, holder, refresh, access, raced, disturbed>>

(* Slip: only a unit that the request names is looked at. *)
UpdateResolvingGiven(c, u, role, scope, active) ==
    /\ Free(c)
    /\ membership[u] # Nothing
    /\ LET m == membership[u]
           next == [role  |-> IF role = Nothing THEN m.role ELSE role,
                    scope |-> IF scope = Nothing THEN m.scope ELSE scope]
       IN  /\ Fits(m.role, m.scope)
           /\ scope # Nothing =>
                 Fits(next.role, next.scope) /\ LgaOf[next.scope] = LgaOf[m.scope]
           /\ call' = [call EXCEPT ![c] = Writing("update", u, TRUE, next, active)]
    /\ UNCHANGED <<account, membership, holder, refresh, access, raced, disturbed>>

(* update reads the membership and fills in what the request leaves out; *)
(* the unit stays within the LGA of the present one.                     *)
Update(c, u, role, scope, active) ==
    /\ Free(c)
    /\ membership[u] # Nothing
    /\ LET m == membership[u]
           next == [role  |-> IF role = Nothing THEN m.role ELSE role,
                    scope |-> IF scope = Nothing THEN m.scope ELSE scope]
       IN  /\ Fits(m.role, m.scope)
           /\ Fits(next.role, next.scope) /\ LgaOf[next.scope] = LgaOf[m.scope]
           /\ call' = [call EXCEPT ![c] = Writing("update", u, TRUE, next, active)]
    /\ UNCHANGED <<account, membership, holder, refresh, access, raced, disturbed>>

(* Slip: the user's row keeps its activity. *)
UpdateUserPlain(c) ==
    /\ call[c].at = "update"
    /\ call' = [call EXCEPT ![c].at = "assign"]
    /\ UNCHANGED <<account, membership, holder, refresh, access, raced, disturbed>>

UpdateUser(c) ==
    /\ call[c].at = "update"
    /\ LET u == call[c].user
           active == call[c].active
       IN  /\ account' = [account EXCEPT ![u].active = IF active = Nothing THEN @ ELSE active]
           /\ disturbed' = IF BetweenRows(u) = {} THEN disturbed ELSE disturbed \union {u}
    /\ call' = [call EXCEPT ![c].at = "assign"]
    /\ UNCHANGED <<membership, holder, refresh, access, raced>>

(* Role and unit are written as they were resolved, named or not. *)
UpdateMembership(c) ==
    /\ call[c].at = "assign"
    /\ LET o == call[c].office
           active == call[c].active
       IN  membership' = [membership EXCEPT ![call[c].user] =
              [role |-> o.role, scope |-> o.scope,
               active |-> IF active = Nothing THEN @.active ELSE active]]
    /\ call' = [call EXCEPT ![c] = Idle]
    /\ UNCHANGED <<account, holder, refresh, access, raced, disturbed>>

-----------------------------------------------------------------------------
(* A call ends at an await: an error, or the process's death. *)
Abort(c) ==
    /\ ~Free(c)
    /\ call' = [call EXCEPT ![c] = Idle]
    /\ disturbed' = IF /\ call[c].at \in {"upsert", "assign"}
                       /\ call[c].active # Nothing
                    THEN disturbed \union {call[c].user} ELSE disturbed
    /\ UNCHANGED <<account, membership, holder, refresh, access, raced>>

Less(n) == IF n = 0 THEN 0 ELSE n - 1

(* Time: every token comes nearer to its expiry. *)
Tick ==
    /\ refresh' = [t \in Token |->
                      IF refresh[t] = Nothing THEN Nothing
                      ELSE [refresh[t] EXCEPT !.life = Less(@)]]
    /\ access' = [u \in User |-> [o \in Claim |-> Less(access[u][o])]]
    /\ UNCHANGED <<account, membership, holder, call, raced, disturbed>>

SignIn ==
    \/ \E u \in User : Register(u)
    \/ \E c \in Call, u \in User, s \in Session : Login(c, u, s)
    \/ \E c \in Call, t \in Token : Refresh(c, t)
    \/ \E c \in Call : Revoke(c) \/ Issue(c)
    \/ \E t \in Token : Logout(t)

Manage ==
    \/ \E c \in Call, u \in User, o \in Office : Create(c, u, o)
    \/ \E c \in Call, u \in User, role \in Role \union {Nothing},
          scope \in Unit \union {Nothing}, active \in BOOLEAN \union {Nothing} :
             Update(c, u, role, scope, active)
    \/ \E c \in Call : CreateUser(c) \/ UpsertMembership(c) \/ UpdateUser(c) \/ UpdateMembership(c)

Next == SignIn \/ Manage \/ (\E c \in Call : Abort(c)) \/ Tick

Spec == Init /\ [][Next]_vars

(* Time passes. *)
TimedSpec == Spec /\ WF_vars(Tick)

-----------------------------------------------------------------------------
TypeOK ==
    /\ account \in [User -> [exists : BOOLEAN, active : BOOLEAN]]
    /\ membership \in [User -> Membership \union {Nothing}]
    /\ holder \in [Session -> User \union {Nothing}]
    /\ refresh \in [Token -> [session : Session, life : 0..RefreshLife] \union {Nothing}]
    /\ access \in [User -> [Claim -> 0..AccessLife]]
    /\ call \in [Call -> CallState]
    /\ raced \subseteq Session
    /\ disturbed \subseteq User

(***************************************************************************)
(* An officer's role and unit belong together, in the membership and in    *)
(* every token that can still be used: a ward officer's unit is a ward,    *)
(* and so on.  The handlers of results take the level from the role and    *)
(* the row from the unit without asking (collation.service.ts 863-894).    *)
(* Two managers may assign the same officer at the same time, each naming  *)
(* only what it changes, and a token is issued from what was read before   *)
(* (agents.service.ts 914-952).                                            *)
(***************************************************************************)
RoleFitsScope ==
    \A u \in User :
        /\ membership[u] # Nothing => Fits(membership[u].role, membership[u].scope)
        /\ \A o \in Office : access[u][o] > 0 => Fits(o.role, o.scope)

(***************************************************************************)
(* A session goes on with one refresh token: of its tokens and of the      *)
(* calls about to issue one there is never more than one, over any number  *)
(* of refreshes, failures and sign-outs, unless two calls revoked the same *)
(* token (auth.service.ts 123-156 reads it and revokes it in two steps).   *)
(***************************************************************************)
SessionHasOneToken ==
    \A s \in Session \ raced :
        LET tokens == {t \in TokenOf(s) : Alive(t)}
            issues == {c \in CallsOf(s) : call[c].at = "issue"}
        IN  /\ tokens = {} \/ issues = {}
            /\ \A t1, t2 \in tokens : t1 = t2
            /\ \A c1, c2 \in issues : c1 = c2

(***************************************************************************)
(* A session that is over, by sign-out, by expiry or by a refresh that was *)
(* cut off, starts again only by signing in.                               *)
(***************************************************************************)
OverUntilLogin ==
    [][\A s \in Session : Ended(s) /\ ~Ended(s)' => \E c \in Call, u \in User : Login(c, u, s)]_vars

(***************************************************************************)
(* Deactivating or reactivating an officer reaches both rows: user and     *)
(* membership agree whenever nobody is between the two writes, unless two  *)
(* calls overlapped there or one was cut off (agents.service.ts 937, 950). *)
(***************************************************************************)
RowsAgree ==
    \A u \in User \ disturbed :
        membership[u] # Nothing /\ BetweenRows(u) = {} =>
            /\ account[u].exists
            /\ account[u].active = membership[u].active

(***************************************************************************)
(* An office lost for good is lost in every token: once a user never again *)
(* holds an office, then after a while no token claims it for the user,    *)
(* however often the session is refreshed and whatever calls overlap.      *)
(***************************************************************************)
LostOfficeFades ==
    \A u \in User, o \in {k \in Office : Fits(k.role, k.scope)} :
        <>[](OfficeOf(u) # o) => <>[](access[u][o] = 0)
=============================================================================
