---------------------------- MODULE AccountsProofs ----------------------------
(***************************************************************************)
(* Proofs about Accounts, for every number of users, units, sessions,      *)
(* tokens and overlapping calls, with calls cut off at any await.          *)
(***************************************************************************)
EXTENDS Accounts, TLAPS

(* A token, or a call about to issue one, belongs to somebody. *)
SessionsAreHeld ==
    /\ \A t \in Token : refresh[t] # Nothing => holder[refresh[t].session] \in User
    /\ \A c \in Call : call[c].at \in {"issue", "revoke"} => holder[call[c].session] \in User

(* A membership that an update writes to is there. *)
UpdatesFindTheirRow ==
    \A c \in Call : call[c].at \in {"update", "assign"} => membership[call[c].user] # Nothing

TypeInv == TypeOK /\ SessionsAreHeld /\ UpdatesFindTheirRow

(* What is known of a call by where it stands. *)
LEMMA CallShape ==
    ASSUME TypeOK, NEW c \in Call
    PROVE  /\ call[c] \in CallState
           /\ call[c].at = "issue" =>
                 call[c] \in [at : {"issue"}, user : User, session : Session, claim : Claim]
           /\ call[c].at = "revoke" =>
                 call[c] \in [at : {"revoke"}, token : Token, user : User,
                              session : Session, claim : Claim]
           /\ call[c].at \in {"create", "update", "upsert", "assign"} =>
                 call[c] \in [at : {"create", "update", "upsert", "assign"}, user : User,
                              found : BOOLEAN, office : Office,
                              active : BOOLEAN \union {Nothing}]
  BY DEF TypeOK, CallState, Idle

LEMMA OfficeIsClaim ==
    ASSUME TypeOK, NEW u \in User
    PROVE  OfficeOf(u) \in Claim
  BY DEF TypeOK, OfficeOf, Claim, Office, Membership

-----------------------------------------------------------------------------
(***************************************************************************)
(* Types                                                                   *)
(***************************************************************************)
LEMMA InitTypeInv == Init => TypeInv
  BY AccountsAssumption DEF Init, TypeInv, TypeOK, SessionsAreHeld, UpdatesFindTheirRow,
     CallState, Idle

LEMMA SignInTypeInv ==
    ASSUME TypeInv, SignIn
    PROVE  (TypeOK /\ SessionsAreHeld)'
  <1> USE AccountsAssumption DEF TypeInv
  <1>1. ASSUME NEW u \in User, Register(u) PROVE (TypeOK /\ SessionsAreHeld)'
    BY <1>1 DEF Register, TypeOK, SessionsAreHeld
  <1>2. ASSUME NEW c \in Call, NEW u \in User, NEW s \in Session, Login(c, u, s)
        PROVE  (TypeOK /\ SessionsAreHeld)'
    <2>1. Issuing(u, s, OfficeOf(u)) \in CallState
      BY OfficeIsClaim DEF Issuing, CallState
    <2>2. TypeOK'
      BY <1>2, <2>1 DEF Login, TypeOK
    <2>3. \A r \in Session : holder'[r] = IF r = s THEN u ELSE holder[r]
      BY <1>2 DEF Login, TypeOK
    <2>4. \A t \in Token : refresh[t] # Nothing => refresh[t].session \in Session
      BY DEF TypeOK
    <2>5. \A d \in Call : call[d].at \in {"issue", "revoke"} => call[d].session \in Session
      BY CallShape
    <2>6. call'[c] = Issuing(u, s, OfficeOf(u)) /\ \A d \in Call \ {c} : call'[d] = call[d]
      BY <1>2 DEF Login, TypeOK
    <2>7. refresh' = refresh
      BY <1>2 DEF Login
    <2>8. SessionsAreHeld'
      BY <2>3, <2>4, <2>5, <2>6, <2>7 DEF SessionsAreHeld, Issuing
    <2> QED
      BY <2>2, <2>8
  <1>3. ASSUME NEW c \in Call, NEW t \in Token, Refresh(c, t) PROVE (TypeOK /\ SessionsAreHeld)'
    <2> DEFINE s == refresh[t].session
               u == holder[s]
    <2>1. s \in Session /\ u \in User
      BY <1>3 DEF Refresh, Alive, TypeOK, SessionsAreHeld
    <2>2. Refreshing(t, u, s, OfficeOf(u)) \in CallState
      BY <2>1, OfficeIsClaim DEF Refreshing, CallState
    <2>3. TypeOK'
      BY <1>3, <2>2 DEF Refresh, TypeOK
    <2>4. call'[c] = Refreshing(t, u, s, OfficeOf(u)) /\ \A d \in Call \ {c} : call'[d] = call[d]
      BY <1>3 DEF Refresh, TypeOK
    <2>5. SessionsAreHeld'
      BY <1>3, <2>1, <2>4 DEF Refresh, SessionsAreHeld, Refreshing
    <2> QED
      BY <2>3, <2>5
  <1>4. ASSUME NEW c \in Call, Revoke(c) PROVE (TypeOK /\ SessionsAreHeld)'
    <2>1. call[c] \in [at : {"revoke"}, token : Token, user : User,
                       session : Session, claim : Claim]
      BY <1>4, CallShape DEF Revoke
    <2>2. Issuing(call[c].user, call[c].session, call[c].claim) \in CallState
      BY <2>1 DEF Issuing, CallState
    <2>3. TypeOK'
      BY <1>4, <2>1, <2>2 DEF Revoke, TypeOK
    <2>4. /\ call'[c] = Issuing(call[c].user, call[c].session, call[c].claim)
          /\ \A d \in Call \ {c} : call'[d] = call[d]
      BY <1>4 DEF Revoke, TypeOK
    <2>5. holder' = holder /\ \A t \in Token : refresh'[t] \in {Nothing, refresh[t]}
      BY <1>4, <2>1 DEF Revoke, TypeOK
    <2>6. SessionsAreHeld'
      BY <1>4, <2>4, <2>5 DEF Revoke, SessionsAreHeld, Issuing
    <2> QED
      BY <2>3, <2>6
  <1>5. ASSUME NEW c \in Call, Issue(c) PROVE (TypeOK /\ SessionsAreHeld)'
    <2> USE <1>5 DEF Issue, IssueFor
    <2>1. call[c] \in [at : {"issue"}, user : User, session : Session, claim : Claim]
      BY CallShape
    <2>2. PICK t \in Token : refresh' = [refresh EXCEPT ![t] =
                            [session |-> call[c].session, life |-> RefreshLife]]
      OBVIOUS
    <2>3. TypeOK'
      <3>1. Idle \in CallState
        BY DEF Idle, CallState
      <3>2. call' \in [Call -> CallState]
        BY <3>1 DEF TypeOK
      <3>3. access' \in [User -> [Claim -> 0..AccessLife]]
        BY <2>1 DEF TypeOK
      <3>4. refresh' \in [Token -> [session : Session, life : 0..RefreshLife] \union {Nothing}]
        BY <2>1, <2>2 DEF TypeOK
      <3> QED
        BY <3>2, <3>3, <3>4 DEF TypeOK
    <2>4. holder' = holder /\ holder[call[c].session] \in User
      BY DEF SessionsAreHeld
    <2>5. \A d \in Call : call'[d] = IF d = c THEN Idle ELSE call[d]
      BY DEF TypeOK
    <2>6. \A r \in Token : refresh'[r] = IF r = t
              THEN [session |-> call[c].session, life |-> RefreshLife] ELSE refresh[r]
      BY <2>2 DEF TypeOK
    <2>7. SessionsAreHeld'
      BY <2>4, <2>5, <2>6 DEF SessionsAreHeld, Idle
    <2> QED
      BY <2>3, <2>7
  <1>6. ASSUME NEW t \in Token, Logout(t) PROVE (TypeOK /\ SessionsAreHeld)'
    BY <1>6 DEF Logout, TypeOK, SessionsAreHeld
  <1> QED
    BY <1>1, <1>2, <1>3, <1>4, <1>5, <1>6 DEF SignIn

LEMMA ManageTypeInv ==
    ASSUME TypeInv, Manage
    PROVE  (TypeOK /\ SessionsAreHeld)'
  <1> USE AccountsAssumption DEF TypeInv
  <1> DEFINE W == [at : {"create", "update", "upsert", "assign"}, user : User,
                   found : BOOLEAN, office : Office, active : BOOLEAN \union {Nothing}]
  (* All of them leave sessions and tokens alone and give up no session. *)
  <1>1. ASSUME NEW c \in Call, NEW next \in {Idle} \union W,
               call' = [call EXCEPT ![c] = next],
               UNCHANGED <<holder, refresh, access, raced>>
        PROVE  /\ call' \in [Call -> CallState]
               /\ SessionsAreHeld'
    <2>1. next \in CallState
      BY <1>1 DEF CallState
    <2>2. next.at \notin {"issue", "revoke"}
      BY <1>1 DEF Idle
    <2>3. call' \in [Call -> CallState] /\ \A d \in Call : call'[d] = IF d = c THEN next ELSE call[d]
      BY <1>1, <2>1 DEF TypeOK
    <2>4. SessionsAreHeld'
      BY <1>1, <2>2, <2>3 DEF SessionsAreHeld
    <2> QED
      BY <2>3, <2>4
  <1>2. ASSUME NEW c \in Call, NEW u \in User, NEW o \in Office, Create(c, u, o)
        PROVE  (TypeOK /\ SessionsAreHeld)'
    <2>1. Writing("create", u, account[u].exists, o, TRUE) \in W
      BY <1>2 DEF Writing, TypeOK
    <2>2. call' \in [Call -> CallState] /\ SessionsAreHeld'
      BY <1>1, <1>2, <2>1 DEF Create
    <2> QED
      BY <1>2, <2>2 DEF Create, TypeOK
  <1>3. ASSUME NEW c \in Call, NEW u \in User, NEW role \in Role \union {Nothing},
               NEW scope \in Unit \union {Nothing}, NEW active \in BOOLEAN \union {Nothing},
               Update(c, u, role, scope, active)
        PROVE  (TypeOK /\ SessionsAreHeld)'
    <2> DEFINE m == membership[u]
               next == [role  |-> IF role = Nothing THEN m.role ELSE role,
                        scope |-> IF scope = Nothing THEN m.scope ELSE scope]
    <2>1. m \in Membership
      BY <1>3 DEF Update, TypeOK
    <2>2. next \in Office
      BY <2>1 DEF Membership, Office
    <2>3. Writing("update", u, TRUE, next, active) \in W
      BY <2>2 DEF Writing
    <2>4. call' = [call EXCEPT ![c] = Writing("update", u, TRUE, next, active)]
      BY <1>3 DEF Update
    <2>5. call' \in [Call -> CallState] /\ SessionsAreHeld'
      BY <1>1, <1>3, <2>3, <2>4 DEF Update
    <2> QED
      BY <1>3, <2>5 DEF Update, TypeOK
  <1>4. ASSUME NEW c \in Call, call[c].at \in {"create", "update", "upsert", "assign"}
        PROVE  /\ call[c] \in W
               /\ [call[c] EXCEPT !.at = "upsert"] \in W
               /\ [call[c] EXCEPT !.at = "assign"] \in W
    BY <1>4, CallShape
  <1>5. ASSUME NEW c \in Call, CreateUser(c) PROVE (TypeOK /\ SessionsAreHeld)'
    <2>1. call[c] \in W
      BY <1>4, <1>5 DEF CreateUser
    <2>2. \/ call' = [call EXCEPT ![c] = Idle]
          \/ call' = [call EXCEPT ![c] = [call[c] EXCEPT !.at = "upsert"]]
      BY <1>5 DEF CreateUser
    <2>3. call' \in [Call -> CallState] /\ SessionsAreHeld'
      BY <1>1, <1>4, <1>5, <2>2 DEF CreateUser
    <2>4. /\ \/ account' = account
             \/ account' = [account EXCEPT ![call[c].user] = [exists |-> TRUE, active |-> TRUE]]
          /\ disturbed' \in {disturbed, disturbed \union {call[c].user}}
      BY <1>5 DEF CreateUser
    <2>5. call[c].user \in User
      BY <2>1
    <2>6. account' \in [User -> [exists : BOOLEAN, active : BOOLEAN]] /\ disturbed' \subseteq User
      <3>1. disturbed' \subseteq User
        BY <2>4, <2>5 DEF TypeOK
      <3>2. [exists |-> TRUE, active |-> TRUE] \in [exists : BOOLEAN, active : BOOLEAN]
        OBVIOUS
      <3>3. account' \in [User -> [exists : BOOLEAN, active : BOOLEAN]]
        BY <2>4, <2>5, <3>2 DEF TypeOK
      <3> QED
        BY <3>1, <3>3
    <2> QED
      BY <1>5, <2>3, <2>6 DEF CreateUser, TypeOK
  <1>6. ASSUME NEW c \in Call, UpsertMembership(c) PROVE (TypeOK /\ SessionsAreHeld)'
    <2>1. call[c] \in W
      BY <1>4, <1>6 DEF UpsertMembership
    <2>2. call' \in [Call -> CallState] /\ SessionsAreHeld'
      BY <1>1, <1>6 DEF UpsertMembership
    <2>3. [role |-> call[c].office.role, scope |-> call[c].office.scope, active |-> TRUE]
             \in Membership
      BY <2>1 DEF Membership, Office
    <2>4. membership' \in [User -> Membership \union {Nothing}]
      BY <1>6, <2>3 DEF UpsertMembership, TypeOK
    <2> QED
      BY <1>6, <2>2, <2>4 DEF UpsertMembership, TypeOK
  <1>7. ASSUME NEW c \in Call, UpdateUser(c) PROVE (TypeOK /\ SessionsAreHeld)'
    <2>1. call[c] \in W
      BY <1>4, <1>7 DEF UpdateUser
    <2>2. call' = [call EXCEPT ![c] = [call[c] EXCEPT !.at = "assign"]]
      BY <1>7 DEF UpdateUser
    <2>3. call' \in [Call -> CallState] /\ SessionsAreHeld'
      BY <1>1, <1>4, <1>7, <2>2 DEF UpdateUser
    <2>4. account' \in [User -> [exists : BOOLEAN, active : BOOLEAN]] /\ disturbed' \subseteq User
      BY <1>7, <2>1 DEF UpdateUser, TypeOK
    <2> QED
      BY <1>7, <2>3, <2>4 DEF UpdateUser, TypeOK
  <1>8. ASSUME NEW c \in Call, UpdateMembership(c)
        PROVE (TypeOK /\ SessionsAreHeld)'
    <2>1. call[c] \in W
      BY <1>4, <1>8 DEF UpdateMembership
    <2>2. call' \in [Call -> CallState] /\ SessionsAreHeld'
      BY <1>1, <1>8 DEF UpdateMembership
    <2>3. membership[call[c].user] \in Membership
      BY <1>8, <2>1 DEF UpdateMembership, UpdatesFindTheirRow, TypeOK
    <2>4. membership' \in [User -> Membership \union {Nothing}]
      BY <1>8, <2>1, <2>3 DEF UpdateMembership, TypeOK, Membership, Office
    <2> QED
      BY <1>8, <2>2, <2>4 DEF UpdateMembership, TypeOK
  <1> QED
    BY <1>2, <1>3, <1>5, <1>6, <1>7, <1>8 DEF Manage

(* No step takes a membership away, and an update starts from one. *)
LEMMA RowsStay ==
    ASSUME TypeInv, Next
    PROVE  UpdatesFindTheirRow'
  <1> USE AccountsAssumption DEF TypeInv
  <1>1. \A u \in User : membership[u] # Nothing => membership'[u] # Nothing
    <2>1. CASE membership' = membership
      BY <2>1
    <2>2. ASSUME NEW c \in Call, UpsertMembership(c) \/ UpdateMembership(c)
          PROVE  \A u \in User : membership[u] # Nothing => membership'[u] # Nothing
      <3>1. \E m \in Membership : membership' = [membership EXCEPT ![call[c].user] = m]
        <4>1. call[c].office \in Office /\ call[c].active \in BOOLEAN \union {Nothing}
              /\ call[c].user \in User
          BY <2>2, CallShape DEF UpsertMembership, UpdateMembership
        <4>2. CASE UpsertMembership(c)
          BY <4>1, <4>2 DEF UpsertMembership, Membership, Office
        <4>3. CASE UpdateMembership(c)
          <5>1. membership[call[c].user] \in Membership
            BY <4>1, <4>3 DEF UpdateMembership, UpdatesFindTheirRow, TypeOK
          <5> DEFINE m == [role |-> call[c].office.role, scope |-> call[c].office.scope,
                           active |-> IF call[c].active = Nothing
                                      THEN membership[call[c].user].active ELSE call[c].active]
          <5>2. m \in Membership
            BY <4>1, <5>1 DEF Membership, Office
          <5>3. membership' = [membership EXCEPT ![call[c].user] = m]
            BY <4>1, <4>3 DEF UpdateMembership, TypeOK
          <5> QED
            BY <5>2, <5>3
        <4> QED
          BY <2>2, <4>2, <4>3
      <3> QED
        BY <3>1 DEF TypeOK, Membership
    <2>3. ASSUME SignIn PROVE membership' = membership
      BY <2>3 DEF SignIn, Register, Login, Refresh, Revoke, Issue, IssueFor, Logout
    <2>4. ASSUME NEW c \in Call, CreateUser(c) \/ UpdateUser(c) \/ Abort(c)
          PROVE  membership' = membership
      BY <2>4 DEF CreateUser, UpdateUser, Abort
    <2>5. ASSUME NEW c \in Call, NEW u \in User, NEW o \in Office, Create(c, u, o)
          PROVE  membership' = membership
      BY <2>5 DEF Create
    <2>6. ASSUME NEW c \in Call, NEW u \in User, NEW role \in Role \union {Nothing},
                 NEW scope \in Unit \union {Nothing}, NEW active \in BOOLEAN \union {Nothing},
                 Update(c, u, role, scope, active)
          PROVE  membership' = membership
      BY <2>6 DEF Update
    <2>7. ASSUME Tick PROVE membership' = membership
      BY <2>7 DEF Tick
    <2> QED
      BY <2>1, <2>2, <2>3, <2>4, <2>5, <2>6, <2>7 DEF Next, Manage
  <1>2. \A d \in Call : call'[d].at \in {"update", "assign"} =>
           \/ /\ call[d].at \in {"update", "assign"}
              /\ call'[d].user = call[d].user
           \/ call'[d].user \in User /\ membership[call'[d].user] # Nothing
    <2> SUFFICES ASSUME NEW d \in Call, call'[d].at \in {"update", "assign"}
                 PROVE  \/ /\ call[d].at \in {"update", "assign"}
                           /\ call'[d].user = call[d].user
                        \/ call'[d].user \in User /\ membership[call'[d].user] # Nothing
      OBVIOUS
    <2>1. CASE call' = call
      BY <2>1
    <2>2. ASSUME NEW c \in Call, NEW next \in CallState, call' = [call EXCEPT ![c] = next],
                 next.at \notin {"update", "assign"}
          PROVE  call[d].at \in {"update", "assign"} /\ call'[d].user = call[d].user
      BY <2>2 DEF TypeOK
    <2>3. ASSUME NEW c \in Call, Issue(c) \/ UpsertMembership(c) \/ UpdateMembership(c) \/ Abort(c)
          PROVE  call[d].at \in {"update", "assign"} /\ call'[d].user = call[d].user
      BY <2>3 DEF Issue, IssueFor, UpsertMembership, UpdateMembership, Abort, Idle, TypeOK
    <2>4. ASSUME NEW c \in Call, Revoke(c)
          PROVE  call[d].at \in {"update", "assign"} /\ call'[d].user = call[d].user
      BY <2>4 DEF Revoke, Issuing, TypeOK
    <2>5. ASSUME NEW c \in Call, CreateUser(c)
          PROVE  call[d].at \in {"update", "assign"} /\ call'[d].user = call[d].user
      <3>1. CASE d = c
        <4>1. call[c] \in [at : {"create", "update", "upsert", "assign"}, user : User,
                            found : BOOLEAN, office : Office,
                            active : BOOLEAN \union {Nothing}]
          BY <2>5, CallShape DEF CreateUser
        <4>2. \/ call' = [call EXCEPT ![c] = Idle]
              \/ call' = [call EXCEPT ![c].at = "upsert"]
          BY <2>5 DEF CreateUser
        <4>3. call'[d].at \in {"idle", "upsert"}
          BY <3>1, <4>1, <4>2 DEF Idle, TypeOK
        <4> QED
          BY <4>3
      <3>2. CASE d # c
        <4>1. call'[d] = call[d]
          BY <2>5, <3>2 DEF CreateUser, TypeOK
        <4> QED
          BY <4>1
      <3> QED
        BY <3>1, <3>2
    <2>6. ASSUME NEW c \in Call, UpdateUser(c)
          PROVE  call[d].at \in {"update", "assign"} /\ call'[d].user = call[d].user
      BY <2>6, CallShape DEF UpdateUser, TypeOK
    <2>7. ASSUME NEW c \in Call, NEW u \in User, NEW role \in Role \union {Nothing},
                 NEW scope \in Unit \union {Nothing}, NEW active \in BOOLEAN \union {Nothing},
                 Update(c, u, role, scope, active)
          PROVE  \/ call[d].at \in {"update", "assign"} /\ call'[d].user = call[d].user
                 \/ call'[d].user \in User /\ membership[call'[d].user] # Nothing
      BY <2>7 DEF Update, Writing, TypeOK
    <2>8. ASSUME NEW c \in Call,
                 \/ \E u \in User, s \in Session : Login(c, u, s)
                 \/ \E t \in Token : Refresh(c, t)
                 \/ \E u \in User, o \in Office : Create(c, u, o)
          PROVE  call[d].at \in {"update", "assign"} /\ call'[d].user = call[d].user
      BY <2>8 DEF Login, Refresh, Create, Issuing, Refreshing, Writing, TypeOK
    <2> QED
      BY <2>1, <2>3, <2>4, <2>5, <2>6, <2>7, <2>8
         DEF Next, SignIn, Manage, Register, Logout, Tick
  <1>3. \A d \in Call : call'[d].at \in {"update", "assign"} => call'[d].user \in User
    BY <1>2, CallShape
  <1> QED
    BY <1>1, <1>2, <1>3 DEF UpdatesFindTheirRow

LEMMA AbortTypeInv ==
    ASSUME TypeInv, NEW c \in Call, Abort(c)
    PROVE  (TypeOK /\ SessionsAreHeld)'
  <1> USE DEF TypeInv
  <1>1. Idle \in CallState
    BY DEF Idle, CallState
  <1>2. disturbed' \subseteq User
    <2>1. CASE call[c].at \in {"upsert", "assign"}
      BY <2>1, CallShape DEF Abort, TypeOK
    <2>2. CASE call[c].at \notin {"upsert", "assign"}
      BY <2>2 DEF Abort, TypeOK
    <2> QED
      BY <2>1, <2>2
  <1>3. TypeOK'
    BY <1>1, <1>2 DEF Abort, TypeOK
  <1>4. \A d \in Call : call'[d] = IF d = c THEN Idle ELSE call[d]
    BY DEF Abort, TypeOK
  <1>5. SessionsAreHeld'
    BY <1>4 DEF Abort, SessionsAreHeld, Idle
  <1> QED
    BY <1>3, <1>5

(* What time does to a token and to the claims. *)
LEMMA TickEffect ==
    ASSUME TypeOK, Tick
    PROVE  /\ \A t \in Token :
                 /\ refresh[t] = Nothing => refresh'[t] = Nothing
                 /\ refresh[t] # Nothing =>
                       /\ refresh'[t] # Nothing
                       /\ refresh'[t].session = refresh[t].session
                       /\ refresh'[t].life \in 0..RefreshLife
                       /\ refresh'[t].life <= refresh[t].life
                       /\ refresh'[t] \in [session : Session, life : 0..RefreshLife]
           /\ \A u \in User, o \in Claim : access'[u][o] <= access[u][o]
           /\ access' \in [User -> [Claim -> 0..AccessLife]]
  <1> USE AccountsAssumption
  <1>1. \A n \in Nat : Less(n) \in Nat /\ Less(n) <= n
    BY DEF Less
  <1>2. ASSUME NEW t \in Token, refresh[t] # Nothing
        PROVE  /\ refresh'[t] # Nothing
               /\ refresh'[t].session = refresh[t].session
               /\ refresh'[t].life \in 0..RefreshLife
               /\ refresh'[t].life <= refresh[t].life
               /\ refresh'[t] \in [session : Session, life : 0..RefreshLife]
    <2>1. refresh[t] \in [session : Session, life : 0..RefreshLife]
      BY <1>2 DEF TypeOK
    <2>2. refresh'[t] = [refresh[t] EXCEPT !.life = Less(refresh[t].life)]
      BY <1>2 DEF Tick
    <2>3. Less(refresh[t].life) \in 0..RefreshLife /\ Less(refresh[t].life) <= refresh[t].life
      BY <1>1, <2>1
    <2>4. refresh'[t] = [session |-> refresh[t].session, life |-> Less(refresh[t].life)]
      BY <2>1, <2>2
    <2> QED
      BY <2>1, <2>3, <2>4
  <1>3. \A t \in Token : refresh[t] = Nothing => refresh'[t] = Nothing
    BY DEF Tick
  <1>4. \A u \in User, o \in Claim :
           /\ access'[u][o] = Less(access[u][o])
           /\ access[u][o] \in 0..AccessLife
    BY DEF Tick, TypeOK
  <1>5. \A u \in User, o \in Claim :
           access'[u][o] <= access[u][o] /\ access'[u][o] \in 0..AccessLife
    BY <1>1, <1>4
  <1>6. access' \in [User -> [Claim -> 0..AccessLife]]
    BY <1>5 DEF Tick
  <1> QED
    BY <1>2, <1>3, <1>5, <1>6

LEMMA TickTypeInv ==
    ASSUME TypeInv, Tick
    PROVE  (TypeOK /\ SessionsAreHeld)'
  <1> USE DEF TypeInv
  <1>1. refresh' \in [Token -> [session : Session, life : 0..RefreshLife] \union {Nothing}]
    BY TickEffect DEF Tick
  <1>2. TypeOK'
    BY <1>1, TickEffect DEF Tick, TypeOK
  <1>3. SessionsAreHeld'
    BY TickEffect DEF Tick, SessionsAreHeld
  <1> QED
    BY <1>2, <1>3

LEMMA TypeInvariance == Spec => []TypeInv
  <1>1. ASSUME TypeInv, [Next]_vars PROVE TypeInv'
    <2>1. CASE UNCHANGED vars
      BY <1>1, <2>1 DEF vars, TypeInv, TypeOK, SessionsAreHeld, UpdatesFindTheirRow
    <2>2. CASE Next
      <3>1. UpdatesFindTheirRow'
        BY <1>1, <2>2, RowsStay
      <3>2. (TypeOK /\ SessionsAreHeld)'
        BY <1>1, <2>2, SignInTypeInv, ManageTypeInv, AbortTypeInv, TickTypeInv DEF Next
      <3> QED
        BY <3>1, <3>2 DEF TypeInv
    <2> QED
      BY <1>1, <2>1, <2>2
  <1> QED
    BY <1>1, InitTypeInv, PTL DEF Spec

(***************************************************************************)
(* Accounts, memberships, tokens and calls have their types.               *)
(***************************************************************************)
THEOREM AccountsTypeCorrect == Spec => []TypeOK
  BY TypeInvariance, PTL DEF TypeInv

-----------------------------------------------------------------------------
(***************************************************************************)
(* Offices                                                                 *)
(***************************************************************************)

(* What is on its way to a membership or to a token fits as well. *)
OfficesFit ==
    /\ RoleFitsScope
    /\ \A c \in Call :
          /\ call[c].at \in {"issue", "revoke"} /\ call[c].claim # Nothing =>
                Fits(call[c].claim.role, call[c].claim.scope)
          /\ call[c].at \in {"create", "update", "upsert", "assign"} =>
                Fits(call[c].office.role, call[c].office.scope)

LEMMA OfficeFits ==
    ASSUME TypeOK, RoleFitsScope, NEW u \in User, OfficeOf(u) # Nothing
    PROVE  Fits(OfficeOf(u).role, OfficeOf(u).scope)
  BY DEF RoleFitsScope, OfficeOf

(* A step that changes one call at most to one that fits keeps the rest.   *)
LEMMA OneCallFits ==
    ASSUME TypeOK, OfficesFit, NEW c \in Call, NEW next,
           call' = [call EXCEPT ![c] = next],
           next.at \in {"issue", "revoke"} /\ next.claim # Nothing =>
              Fits(next.claim.role, next.claim.scope),
           next.at \in {"create", "update", "upsert", "assign"} =>
              Fits(next.office.role, next.office.scope),
           RoleFitsScope'
    PROVE  OfficesFit'
  <1>1. \A d \in Call : call'[d] = IF d = c THEN next ELSE call[d]
    BY DEF TypeOK
  <1> QED
    BY <1>1 DEF OfficesFit, Fits

LEMMA SignInFits ==
    ASSUME TypeInv, OfficesFit, SignIn
    PROVE  OfficesFit'
  <1> USE AccountsAssumption DEF TypeInv
  <1>1. ASSUME UNCHANGED <<membership, access>>
        PROVE  RoleFitsScope'
    BY <1>1 DEF OfficesFit, RoleFitsScope, Fits
  <1>2. ASSUME NEW u \in User, Register(u) PROVE OfficesFit'
    BY <1>1, <1>2 DEF Register, OfficesFit, Fits
  <1>3. ASSUME NEW c \in Call, NEW u \in User, NEW s \in Session, Login(c, u, s)
        PROVE  OfficesFit'
    <2> DEFINE next == Issuing(u, s, OfficeOf(u))
    <2>1. /\ next.at \in {"issue", "revoke"} /\ next.claim # Nothing =>
                Fits(next.claim.role, next.claim.scope)
          /\ next.at = "issue"
      BY OfficeFits DEF OfficesFit, Issuing
    <2>2. call' = [call EXCEPT ![c] = next] /\ RoleFitsScope'
      BY <1>1, <1>3 DEF Login
    <2> HIDE DEF next
    <2> QED
      BY <2>1, <2>2, OneCallFits
  <1>4. ASSUME NEW c \in Call, NEW t \in Token, Refresh(c, t) PROVE OfficesFit'
    <2> DEFINE s == refresh[t].session
               u == holder[s]
               next == Refreshing(t, u, s, OfficeOf(u))
    <2>1. u \in User
      BY <1>4 DEF Refresh, Alive, SessionsAreHeld
    <2>2. /\ next.at \in {"issue", "revoke"} /\ next.claim # Nothing =>
                Fits(next.claim.role, next.claim.scope)
          /\ next.at = "revoke"
      BY <2>1, OfficeFits DEF OfficesFit, Refreshing
    <2>3. call' = [call EXCEPT ![c] = next] /\ RoleFitsScope'
      BY <1>1, <1>4 DEF Refresh
    <2> HIDE DEF next
    <2> QED
      BY <2>2, <2>3, OneCallFits
  <1>5. ASSUME NEW c \in Call, Revoke(c) PROVE OfficesFit'
    <2> DEFINE next == Issuing(call[c].user, call[c].session, call[c].claim)
    <2>1. /\ next.at \in {"issue", "revoke"} /\ next.claim # Nothing =>
                Fits(next.claim.role, next.claim.scope)
          /\ next.at = "issue"
      BY <1>5 DEF Revoke, OfficesFit, Issuing
    <2>2. call' = [call EXCEPT ![c] = next] /\ RoleFitsScope'
      BY <1>1, <1>5 DEF Revoke
    <2> HIDE DEF next
    <2> QED
      BY <2>1, <2>2, OneCallFits
  <1>6. ASSUME NEW c \in Call, Issue(c) PROVE OfficesFit'
    <2>1. call[c] \in [at : {"issue"}, user : User, session : Session, claim : Claim]
      BY <1>6, CallShape DEF Issue, IssueFor
    <2>2. /\ membership' = membership
          /\ access' = [access EXCEPT ![call[c].user][call[c].claim] = AccessLife]
          /\ call' = [call EXCEPT ![c] = Idle]
      BY <1>6 DEF Issue, IssueFor
    <2>3. \A u \in User, o \in Claim :
             access'[u][o] = IF u = call[c].user /\ o = call[c].claim
                             THEN AccessLife ELSE access[u][o]
      BY <2>1, <2>2 DEF TypeOK
    <2>4. call[c].claim # Nothing => Fits(call[c].claim.role, call[c].claim.scope)
      BY <2>1 DEF OfficesFit
    <2>5. \A o \in Office : o \in Claim /\ o # Nothing
      BY DEF Claim, Office
    <2>6. RoleFitsScope'
      BY <2>2, <2>3, <2>4, <2>5 DEF OfficesFit, RoleFitsScope, Fits
    <2> QED
      BY <2>2, <2>6, OneCallFits DEF Idle
  <1>7. ASSUME NEW t \in Token, Logout(t) PROVE OfficesFit'
    BY <1>1, <1>7 DEF Logout, OfficesFit, Fits
  <1> QED
    BY <1>2, <1>3, <1>4, <1>5, <1>6, <1>7 DEF SignIn

LEMMA ManageFits ==
    ASSUME TypeInv, OfficesFit, Manage
    PROVE  OfficesFit'
  <1> USE AccountsAssumption DEF TypeInv
  <1>1. ASSUME UNCHANGED <<membership, access>>
        PROVE  RoleFitsScope'
    BY <1>1 DEF OfficesFit, RoleFitsScope, Fits
  <1>2. ASSUME NEW c \in Call, NEW u \in User, NEW o \in Office, Create(c, u, o)
        PROVE  OfficesFit'
    <2> DEFINE next == Writing("create", u, account[u].exists, o, TRUE)
    <2>1. /\ next.at = "create"
          /\ Fits(next.office.role, next.office.scope)
          /\ call' = [call EXCEPT ![c] = next] /\ RoleFitsScope'
      BY <1>1, <1>2 DEF Create, Writing
    <2> HIDE DEF next
    <2> QED
      BY <2>1, OneCallFits
  <1>3. ASSUME NEW c \in Call, NEW u \in User, NEW role \in Role \union {Nothing},
               NEW scope \in Unit \union {Nothing}, NEW active \in BOOLEAN \union {Nothing},
               Update(c, u, role, scope, active)
        PROVE  OfficesFit'
    <2> DEFINE m == membership[u]
               o == [role  |-> IF role = Nothing THEN m.role ELSE role,
                     scope |-> IF scope = Nothing THEN m.scope ELSE scope]
               next == Writing("update", u, TRUE, o, active)
    <2>1. /\ next.at = "update"
          /\ Fits(next.office.role, next.office.scope)
          /\ call' = [call EXCEPT ![c] = next] /\ RoleFitsScope'
      BY <1>1, <1>3 DEF Update, Writing
    <2> HIDE DEF next
    <2> QED
      BY <2>1, OneCallFits
  <1>4. ASSUME NEW c \in Call, CreateUser(c) \/ UpdateUser(c) PROVE OfficesFit'
    <2>1. /\ call[c] \in [at : {"create", "update", "upsert", "assign"}, user : User,
                          found : BOOLEAN, office : Office, active : BOOLEAN \union {Nothing}]
          /\ Fits(call[c].office.role, call[c].office.scope)
      BY <1>4, CallShape DEF CreateUser, UpdateUser, OfficesFit
    <2>2. PICK next \in {Idle, [call[c] EXCEPT !.at = "upsert"], [call[c] EXCEPT !.at = "assign"]} :
             call' = [call EXCEPT ![c] = next]
      BY <1>4 DEF CreateUser, UpdateUser
    <2>3. \/ next.at = "idle"
          \/ next.at \in {"upsert", "assign"} /\ next.office = call[c].office
      BY <2>1, <2>2 DEF Idle
    <2>4. RoleFitsScope'
      BY <1>1, <1>4 DEF CreateUser, UpdateUser
    <2> QED
      BY <2>1, <2>2, <2>3, <2>4, OneCallFits
  <1>5. ASSUME NEW c \in Call, UpsertMembership(c) \/ UpdateMembership(c) PROVE OfficesFit'
    <2>1. /\ call[c].user \in User
          /\ Fits(call[c].office.role, call[c].office.scope)
      BY <1>5, CallShape DEF UpsertMembership, UpdateMembership, OfficesFit
    <2>2. /\ access' = access
          /\ call' = [call EXCEPT ![c] = Idle]
      BY <1>5 DEF UpsertMembership, UpdateMembership
    <2>3. \A u \in User :
             \/ membership'[u] = membership[u]
             \/ /\ membership'[u].role = call[c].office.role
                /\ membership'[u].scope = call[c].office.scope
      BY <1>5 DEF UpsertMembership, UpdateMembership, TypeOK
    <2>4. RoleFitsScope'
      BY <2>1, <2>2, <2>3 DEF OfficesFit, RoleFitsScope, Fits
    <2> QED
      BY <2>2, <2>4, OneCallFits DEF Idle
  <1> QED
    BY <1>2, <1>3, <1>4, <1>5 DEF Manage

LEMMA FitInvariance == Spec => []OfficesFit
  <1>1. Init => OfficesFit
    BY DEF Init, OfficesFit, RoleFitsScope, Idle, Claim
  <1>2. ASSUME TypeInv, OfficesFit, [Next]_vars PROVE OfficesFit'
    <2>1. CASE UNCHANGED vars
      BY <1>2, <2>1 DEF vars, OfficesFit, RoleFitsScope, Fits
    <2>2. CASE SignIn \/ Manage
      BY <1>2, <2>2, SignInFits, ManageFits
    <2>3. ASSUME NEW c \in Call, Abort(c) PROVE OfficesFit'
      <3>1. RoleFitsScope' /\ call' = [call EXCEPT ![c] = Idle]
        BY <1>2, <2>3 DEF Abort, OfficesFit, RoleFitsScope, Fits
      <3> QED
        BY <1>2, <3>1, OneCallFits DEF TypeInv, Idle
    <2>4. CASE Tick
      <3>1. \A u \in User, o \in Office :
               /\ access[u][o] \in Nat /\ access'[u][o] \in Nat
               /\ access'[u][o] <= access[u][o]
        <4>1. Office \subseteq Claim /\ 0..AccessLife \subseteq Nat
          BY AccountsAssumption DEF Claim
        <4>2. access \in [User -> [Claim -> 0..AccessLife]]
          BY <1>2 DEF TypeInv, TypeOK
        <4> QED
          BY <1>2, <2>4, <4>1, <4>2, TickEffect DEF TypeInv
      <3>2. \A u \in User, o \in Office : access'[u][o] > 0 => access[u][o] > 0
        BY <3>1
      <3> QED
        BY <1>2, <2>4, <3>2 DEF Tick, OfficesFit, RoleFitsScope, Fits
    <2> QED
      BY <1>2, <2>1, <2>2, <2>3, <2>4 DEF Next
  <1> QED
    BY <1>1, <1>2, TypeInvariance, PTL DEF Spec

(***************************************************************************)
(* Role and unit belong together in every membership and usable token,     *)
(* whatever managers overlap.                                              *)
(***************************************************************************)
THEOREM RolesFitScopes == Spec => []RoleFitsScope
  BY FitInvariance, PTL DEF OfficesFit

-----------------------------------------------------------------------------
(***************************************************************************)
(* Sessions                                                                *)
(***************************************************************************)

(* A call that is to revoke a token stands for the session's only token,   *)
(* as long as nobody else revoked it.                                      *)
Holds(c) == call[c].at = "revoke" /\ refresh[call[c].token] # Nothing
SessionInv ==
    /\ \A c \in Call : Holds(c) => refresh[call[c].token].session = call[c].session
    /\ \A s \in Session \ raced :
          /\ \A t1, t2 \in TokenOf(s) : Alive(t1) /\ Alive(t2) => t1 = t2
          /\ \A c1, c2 \in CallsOf(s) : call[c1].at = "issue" =>
                /\ call[c2].at = "issue" => c1 = c2
                /\ ~Holds(c2)
          /\ \A c \in CallsOf(s), t \in TokenOf(s) : Alive(t) =>
                /\ call[c].at # "issue"
                /\ Holds(c) => call[c].token = t
          /\ \A c1, c2 \in CallsOf(s) : Holds(c1) /\ Holds(c2) => call[c1].token = call[c2].token

LEMMA SessionInvSuffices == SessionInv => SessionHasOneToken
  BY DEF SessionInv, SessionHasOneToken, CallsOf

(* Steps that only end calls, and tokens or their lives, do no harm.       *)
LEMMA FewerIsSafe ==
    ASSUME TypeOK, SessionInv,
           \A c \in Call : call'[c] = call[c] \/ call'[c].at \notin {"issue", "revoke"},
           \A t \in Token :
              \/ refresh'[t] = Nothing
              \/ /\ refresh[t] # Nothing
                 /\ refresh'[t].session = refresh[t].session
                 /\ refresh'[t].life > 0 => refresh[t].life > 0,
           raced' = raced
    PROVE  SessionInv'
  <1>1. \A c \in Call : Holds(c)' => Holds(c) /\ call'[c] = call[c] /\ call[c].token \in Token
    BY CallShape DEF Holds
  <1>2. \A t \in Token : Alive(t)' => Alive(t)
    BY DEF Alive
  <1>3. \A s \in Session : \A t \in TokenOf(s)' : t \in TokenOf(s)
    BY DEF TokenOf
  <1>4. \A s \in Session : \A c \in CallsOf(s)' : c \in CallsOf(s) /\ call'[c] = call[c]
    BY DEF CallsOf
  <1>5. \A c \in Call : Holds(c)' => refresh'[call'[c].token].session = call'[c].session
    BY <1>1 DEF Holds, SessionInv
  <1>6. ASSUME NEW s \in Session \ raced'
        PROVE  /\ \A t1, t2 \in TokenOf(s)' : Alive(t1)' /\ Alive(t2)' => t1 = t2
               /\ \A c1, c2 \in CallsOf(s)' : call'[c1].at = "issue" =>
                     /\ call'[c2].at = "issue" => c1 = c2
                     /\ ~Holds(c2)'
               /\ \A c \in CallsOf(s)', t \in TokenOf(s)' : Alive(t)' =>
                     /\ call'[c].at # "issue"
                     /\ Holds(c)' => call'[c].token = t
               /\ \A c1, c2 \in CallsOf(s)' :
                     Holds(c1)' /\ Holds(c2)' => call'[c1].token = call'[c2].token
    <2>1. s \in Session \ raced
      BY <1>6
    <2>2. TokenOf(s) \subseteq Token /\ CallsOf(s) \subseteq Call
      BY DEF TokenOf, CallsOf
    <2>3. \A t1, t2 \in TokenOf(s)' : Alive(t1)' /\ Alive(t2)' => t1 = t2
      BY <2>1, <2>2, <1>2, <1>3 DEF SessionInv
    <2>4. \A c1, c2 \in CallsOf(s)' : call'[c1].at = "issue" =>
             /\ call'[c2].at = "issue" => c1 = c2
             /\ ~Holds(c2)'
      BY <2>1, <2>2, <1>1, <1>4 DEF SessionInv
    <2>5. \A c \in CallsOf(s)', t \in TokenOf(s)' : Alive(t)' =>
             /\ call'[c].at # "issue"
             /\ Holds(c)' => call'[c].token = t
      BY <2>1, <2>2, <1>1, <1>2, <1>3, <1>4 DEF SessionInv
    <2>6. \A c1, c2 \in CallsOf(s)' :
             Holds(c1)' /\ Holds(c2)' => call'[c1].token = call'[c2].token
      BY <2>1, <2>2, <1>1, <1>4 DEF SessionInv
    <2> QED
      BY <2>3, <2>4, <2>5, <2>6
  <1> QED
    BY <1>5, <1>6 DEF SessionInv

LEMMA LoginSession ==
    ASSUME TypeInv, SessionInv, NEW c \in Call, NEW u \in User, NEW s \in Session, Login(c, u, s)
    PROVE  SessionInv'
  <1> USE DEF TypeInv
  <1>1. /\ refresh' = refresh
        /\ call'[c] = Issuing(u, s, OfficeOf(u))
        /\ \A d \in Call \ {c} : call'[d] = call[d]
        /\ call[c].at = "idle"
        /\ raced' = raced \ {s}
        /\ CallsOf(s) = {} /\ \A t \in TokenOf(s) : ~Alive(t)
    BY DEF Login, Free, Ended, TypeOK
  <1>2. \A d \in Call : Holds(d)' <=> Holds(d) /\ d # c
    BY <1>1 DEF Holds, Issuing
  <1>3. \A r \in Session : TokenOf(r)' = TokenOf(r)
    BY <1>1 DEF TokenOf
  <1>4. \A t \in Token : Alive(t)' <=> Alive(t)
    BY <1>1 DEF Alive
  <1>5. CallsOf(s)' = {c}
    BY <1>1 DEF CallsOf, Issuing
  <1>6. \A r \in Session \ {s} : CallsOf(r)' = CallsOf(r) /\ c \notin CallsOf(r)
    BY <1>1 DEF CallsOf, Issuing
  <1>7. \A d \in Call : Holds(d)' => refresh'[call'[d].token].session = call'[d].session
    BY <1>1, <1>2 DEF SessionInv
  <1>8. \A r \in Session : TokenOf(r) \subseteq Token /\ CallsOf(r) \subseteq Call
    BY DEF TokenOf, CallsOf
  <1>9. ASSUME NEW r \in Session \ raced'
        PROVE  /\ \A t1, t2 \in TokenOf(r)' : Alive(t1)' /\ Alive(t2)' => t1 = t2
               /\ \A c1, c2 \in CallsOf(r)' : call'[c1].at = "issue" =>
                     /\ call'[c2].at = "issue" => c1 = c2
                     /\ ~Holds(c2)'
               /\ \A d \in CallsOf(r)', t \in TokenOf(r)' : Alive(t)' =>
                     /\ call'[d].at # "issue"
                     /\ Holds(d)' => call'[d].token = t
               /\ \A c1, c2 \in CallsOf(r)' :
                     Holds(c1)' /\ Holds(c2)' => call'[c1].token = call'[c2].token
    <2>1. CASE r = s
      BY <2>1, <1>1, <1>2, <1>3, <1>4, <1>5, <1>8
    <2>2. CASE r # s
      <3>1. r \in Session \ raced
        BY <1>1, <1>9, <2>2
      <3>2. \A d \in CallsOf(r) : call'[d] = call[d] /\ (Holds(d)' <=> Holds(d))
        BY <1>1, <1>2, <1>6, <1>8, <2>2
      <3> QED
        BY <3>1, <3>2, <2>2, <1>3, <1>4, <1>6, <1>8 DEF SessionInv
    <2> QED
      BY <2>1, <2>2
  <1> QED
    BY <1>7, <1>9 DEF SessionInv

LEMMA RefreshSession ==
    ASSUME TypeInv, SessionInv, NEW c \in Call, NEW t \in Token, Refresh(c, t)
    PROVE  SessionInv'
  <1> USE DEF TypeInv
  <1> DEFINE s == refresh[t].session
  <1>1. /\ refresh' = refresh
        /\ call'[c] = Refreshing(t, holder[s], s, OfficeOf(holder[s]))
        /\ \A d \in Call \ {c} : call'[d] = call[d]
        /\ call[c].at = "idle"
        /\ raced' = raced
        /\ Alive(t) /\ t \in TokenOf(s) /\ s \in Session
    BY DEF Refresh, Free, Alive, TokenOf, TypeOK
  <1>2. \A d \in Call \ {c} : Holds(d)' <=> Holds(d)
    BY <1>1 DEF Holds
  <1>3. Holds(c)' /\ call'[c].token = t /\ call'[c].session = s /\ call'[c].at = "revoke"
    BY <1>1 DEF Holds, Refreshing, Alive
  <1>4. \A r \in Session : TokenOf(r)' = TokenOf(r)
    BY <1>1 DEF TokenOf
  <1>5. \A x \in Token : Alive(x)' <=> Alive(x)
    BY <1>1 DEF Alive
  <1>6. \A r \in Session : CallsOf(r)' = IF r = s THEN CallsOf(r) \union {c} ELSE CallsOf(r)
    BY <1>1, <1>3 DEF CallsOf
  <1>7. \A r \in Session : c \notin CallsOf(r)
    BY <1>1 DEF CallsOf
  <1>8. \A d \in Call : Holds(d)' => refresh'[call'[d].token].session = call'[d].session
    BY <1>1, <1>2, <1>3 DEF SessionInv
  <1>9. \A r \in Session : TokenOf(r) \subseteq Token /\ CallsOf(r) \subseteq Call
    BY DEF TokenOf, CallsOf
  <1>10. \A r \in Session : \A d \in CallsOf(r) : call'[d] = call[d] /\ (Holds(d)' <=> Holds(d))
    BY <1>1, <1>2, <1>7, <1>9
  <1> HIDE DEF s
  <1>11. ASSUME NEW r \in Session \ raced'
         PROVE  /\ \A t1, t2 \in TokenOf(r)' : Alive(t1)' /\ Alive(t2)' => t1 = t2
                /\ \A c1, c2 \in CallsOf(r)' : call'[c1].at = "issue" =>
                      /\ call'[c2].at = "issue" => c1 = c2
                      /\ ~Holds(c2)'
                /\ \A d \in CallsOf(r)', x \in TokenOf(r)' : Alive(x)' =>
                      /\ call'[d].at # "issue"
                      /\ Holds(d)' => call'[d].token = x
                /\ \A c1, c2 \in CallsOf(r)' :
                      Holds(c1)' /\ Holds(c2)' => call'[c1].token = call'[c2].token
    <2>1. r \in Session \ raced
      BY <1>1, <1>11
    <2>2. CASE r = s
      <3>1. \A d \in CallsOf(s) : call[d].at # "issue" /\ (Holds(d) => call[d].token = t)
        BY <1>1, <2>1, <2>2 DEF SessionInv
      <3>2. \A x \in TokenOf(s) : Alive(x) => x = t
        BY <1>1, <2>1, <2>2 DEF SessionInv
      <3> QED
        BY <3>1, <3>2, <2>2, <1>3, <1>4, <1>5, <1>6, <1>9, <1>10
    <2>3. CASE r # s
      BY <2>1, <2>3, <1>4, <1>5, <1>6, <1>9, <1>10 DEF SessionInv
    <2> QED
      BY <2>2, <2>3
  <1> QED
    BY <1>8, <1>11 DEF SessionInv

LEMMA RevokeSession ==
    ASSUME TypeInv, SessionInv, NEW c \in Call, Revoke(c)
    PROVE  SessionInv'
  <1> USE DEF TypeInv
  <1> DEFINE t == call[c].token
             s == call[c].session
  <1>1. t \in Token /\ s \in Session /\ call[c].at = "revoke"
    BY CallShape DEF Revoke
  <1>2. /\ \A x \in Token : refresh'[x] = IF x = t THEN Nothing ELSE refresh[x]
        /\ call'[c] = Issuing(call[c].user, s, call[c].claim)
        /\ \A d \in Call \ {c} : call'[d] = call[d]
        /\ raced' = IF Holds(c) THEN raced ELSE raced \union {s}
    BY <1>1 DEF Revoke, Holds, TypeOK
  <1>3. call'[c].at = "issue" /\ call'[c].session = s /\ ~Holds(c)'
    BY <1>2 DEF Issuing, Holds
  <1>4. \A d \in Call \ {c} : Holds(d)' <=> Holds(d) /\ call[d].token # t
    BY <1>2, CallShape DEF Holds
  <1>5. \A r \in Session : TokenOf(r)' = TokenOf(r) \ {t}
    BY <1>2 DEF TokenOf
  <1>6. \A x \in Token : Alive(x)' <=> Alive(x) /\ x # t
    BY <1>2 DEF Alive
  <1>7. \A r \in Session : CallsOf(r)' = CallsOf(r)
    BY <1>1, <1>2, <1>3 DEF CallsOf
  <1>8. \A d \in Call : Holds(d)' => refresh'[call'[d].token].session = call'[d].session
    BY <1>2, <1>3, <1>4, CallShape DEF SessionInv, Holds
  <1>9. \A r \in Session : TokenOf(r) \subseteq Token /\ CallsOf(r) \subseteq Call
    BY DEF TokenOf, CallsOf
  <1>10. c \in CallsOf(s) /\ \A r \in Session : c \in CallsOf(r) => r = s
    BY <1>1 DEF CallsOf
  <1> HIDE DEF s, t
  <1>11. ASSUME NEW r \in Session \ raced'
         PROVE  /\ \A t1, t2 \in TokenOf(r)' : Alive(t1)' /\ Alive(t2)' => t1 = t2
                /\ \A c1, c2 \in CallsOf(r)' : call'[c1].at = "issue" =>
                      /\ call'[c2].at = "issue" => c1 = c2
                      /\ ~Holds(c2)'
                /\ \A d \in CallsOf(r)', x \in TokenOf(r)' : Alive(x)' =>
                      /\ call'[d].at # "issue"
                      /\ Holds(d)' => call'[d].token = x
                /\ \A c1, c2 \in CallsOf(r)' :
                      Holds(c1)' /\ Holds(c2)' => call'[c1].token = call'[c2].token
    <2>1. r \in Session \ raced
      BY <1>2, <1>11
    <2>2. CASE r = s
      <3>1. Holds(c)
        BY <1>2, <1>11, <2>2
      <3>2. c \in CallsOf(r) /\ call[c].token = t
        BY <1>10, <2>2 DEF t
      <3>3. \A x \in TokenOf(r) : Alive(x) => x = t
        BY <2>1, <3>1, <3>2 DEF SessionInv
      <3>4. \A d \in CallsOf(r) : call[d].at # "issue"
        BY <2>1, <3>1, <3>2 DEF SessionInv
      <3>5. \A d \in CallsOf(r) : Holds(d) => call[d].token = t
        BY <2>1, <3>1, <3>2 DEF SessionInv
      <3>6. \A d \in CallsOf(r) \ {c} : call'[d].at # "issue" /\ ~Holds(d)'
        BY <3>4, <3>5, <1>2, <1>4, <1>9
      <3>7. \A x \in TokenOf(r)' : ~Alive(x)'
        BY <3>3, <1>5, <1>6, <1>9
      <3>8. ~Holds(c)'
        BY <1>3
      <3> QED
        BY <3>6, <3>7, <3>8, <1>7
    <2>3. CASE r # s
      <3>1. \A d \in CallsOf(r) : call'[d] = call[d] /\ (Holds(d)' => Holds(d))
        BY <1>2, <1>4, <1>9, <1>10, <2>3
      <3> QED
        BY <2>1, <3>1, <1>5, <1>6, <1>7, <1>9 DEF SessionInv
    <2> QED
      BY <2>2, <2>3
  <1> QED
    BY <1>8, <1>11 DEF SessionInv

LEMMA IssueSession ==
    ASSUME TypeInv, SessionInv, NEW c \in Call, Issue(c)
    PROVE  SessionInv'
  <1> USE DEF TypeInv
  <1> DEFINE s == call[c].session
  <1>1. s \in Session /\ call[c].at = "issue"
    BY CallShape DEF Issue, IssueFor
  <1>2. PICK t \in Token :
           /\ ~Alive(t)
           /\ \A d \in Call : call[d].at = "revoke" => call[d].token # t
           /\ refresh' = [refresh EXCEPT ![t] = [session |-> s, life |-> RefreshLife]]
    BY DEF Issue, IssueFor
  <1>3. \A x \in Token : refresh'[x] = IF x = t THEN [session |-> s, life |-> RefreshLife]
                                       ELSE refresh[x]
    BY <1>2 DEF TypeOK
  <1>4. /\ call'[c] = Idle
        /\ \A d \in Call \ {c} : call'[d] = call[d]
        /\ raced' = raced
    BY DEF Issue, IssueFor, TypeOK
  <1>5. ~Holds(c)' /\ ~Holds(c)
    BY <1>1, <1>4 DEF Holds, Idle
  <1>6. \A d \in Call \ {c} : Holds(d)' <=> Holds(d)
    <2> SUFFICES ASSUME NEW d \in Call \ {c} PROVE Holds(d)' <=> Holds(d)
      OBVIOUS
    <2>1. call[d].at = "revoke" => call[d].token \in Token \ {t}
      BY <1>2, CallShape
    <2>2. call[d].at = "revoke" => refresh'[call[d].token] = refresh[call[d].token]
      BY <2>1, <1>3
    <2> QED
      BY <2>2, <1>4 DEF Holds
  <1>7. \A x \in Token \ {t} : Alive(x)' <=> Alive(x)
    BY <1>3 DEF Alive
  <1>8. \A r \in Session : \A x \in TokenOf(r)' : IF x = t THEN r = s ELSE x \in TokenOf(r)
    BY <1>3 DEF TokenOf
  <1>9. \A r \in Session : CallsOf(r)' = CallsOf(r) \ {c}
    BY <1>4 DEF CallsOf, Idle
  <1>10. \A d \in Call : Holds(d)' => refresh'[call'[d].token].session = call'[d].session
    <2> SUFFICES ASSUME NEW d \in Call, Holds(d)'
                 PROVE  refresh'[call'[d].token].session = call'[d].session
      OBVIOUS
    <2>1. d # c /\ Holds(d) /\ call'[d] = call[d]
      BY <1>4, <1>5, <1>6
    <2>2. call[d].token \in Token /\ call[d].token # t
      BY <2>1, <1>2, CallShape DEF Holds
    <2> QED
      BY <2>1, <2>2, <1>3 DEF SessionInv
  <1>11. \A r \in Session : TokenOf(r) \subseteq Token /\ CallsOf(r) \subseteq Call
    BY DEF TokenOf, CallsOf
  <1>12. c \in CallsOf(s)
    BY <1>1 DEF CallsOf
  <1>13. \A r \in Session : \A d \in CallsOf(r)' :
            /\ d \in CallsOf(r) /\ d # c
            /\ call'[d] = call[d]
            /\ Holds(d)' <=> Holds(d)
    BY <1>4, <1>6, <1>9, <1>11
  <1>14. \A r \in Session : TokenOf(r)' \subseteq Token
    BY DEF TokenOf
  <1> HIDE DEF s
  <1>15. ASSUME NEW r \in Session \ raced'
         PROVE  /\ \A t1, t2 \in TokenOf(r)' : Alive(t1)' /\ Alive(t2)' => t1 = t2
                /\ \A c1, c2 \in CallsOf(r)' : call'[c1].at = "issue" =>
                      /\ call'[c2].at = "issue" => c1 = c2
                      /\ ~Holds(c2)'
                /\ \A d \in CallsOf(r)', x \in TokenOf(r)' : Alive(x)' =>
                      /\ call'[d].at # "issue"
                      /\ Holds(d)' => call'[d].token = x
                /\ \A c1, c2 \in CallsOf(r)' :
                      Holds(c1)' /\ Holds(c2)' => call'[c1].token = call'[c2].token
    <2>1. r \in Session \ raced
      BY <1>4, <1>15
    <2>2. CASE r = s
      <3>1. c \in CallsOf(r) /\ call[c].at = "issue"
        BY <1>1, <1>12, <2>2
      <3>2. \A d \in CallsOf(r) : ~Holds(d) /\ (call[d].at = "issue" => d = c)
        BY <2>1, <3>1 DEF SessionInv
      <3>3. \A x \in TokenOf(r) : ~Alive(x)
        BY <2>1, <3>1 DEF SessionInv
      <3>4. \A x \in TokenOf(r)' : Alive(x)' => x = t
        BY <3>3, <1>7, <1>8, <1>14
      <3>5. \A d \in CallsOf(r)' : ~Holds(d)' /\ call'[d].at # "issue"
        BY <3>2, <1>13
      <3> QED
        BY <3>4, <3>5
    <2>3. CASE r # s
      <3>1. \A x \in TokenOf(r)' : x \in TokenOf(r) /\ (Alive(x)' <=> Alive(x))
        BY <2>3, <1>7, <1>8, <1>14
      <3> QED
        BY <2>1, <3>1, <1>13 DEF SessionInv
    <2> QED
      BY <2>2, <2>3
  <1> QED
    BY <1>10, <1>15 DEF SessionInv

LEMMA ManageSession ==
    ASSUME TypeInv, SessionInv, Manage
    PROVE  SessionInv'
  <1> USE DEF TypeInv
  <1>1. ASSUME NEW c \in Call, NEW next, next.at \notin {"issue", "revoke"},
               call' = [call EXCEPT ![c] = next], UNCHANGED <<refresh, raced>>
        PROVE  SessionInv'
    <2>1. \A d \in Call : call'[d] = call[d] \/ call'[d].at \notin {"issue", "revoke"}
      BY <1>1 DEF TypeOK
    <2>2. \A t \in Token :
              \/ refresh'[t] = Nothing
              \/ /\ refresh[t] # Nothing
                 /\ refresh'[t].session = refresh[t].session
                 /\ refresh'[t].life > 0 => refresh[t].life > 0
      BY <1>1
    <2> QED
      BY <1>1, <2>1, <2>2, FewerIsSafe
  <1>2. ASSUME NEW c \in Call, NEW u \in User, NEW o \in Office, Create(c, u, o)
        PROVE  SessionInv'
    BY <1>1, <1>2 DEF Create, Writing
  <1>3. ASSUME NEW c \in Call, NEW u \in User, NEW role \in Role \union {Nothing},
               NEW scope \in Unit \union {Nothing}, NEW active \in BOOLEAN \union {Nothing},
               Update(c, u, role, scope, active)
        PROVE  SessionInv'
    BY <1>1, <1>3 DEF Update, Writing
  <1>4. ASSUME NEW c \in Call, CreateUser(c) \/ UpdateUser(c) PROVE SessionInv'
    <2>1. call[c] \in [at : {"create", "update", "upsert", "assign"}, user : User,
                       found : BOOLEAN, office : Office, active : BOOLEAN \union {Nothing}]
      BY <1>4, CallShape DEF CreateUser, UpdateUser
    <2>2. PICK next \in {Idle, [call[c] EXCEPT !.at = "upsert"], [call[c] EXCEPT !.at = "assign"]} :
             call' = [call EXCEPT ![c] = next]
      BY <1>4 DEF CreateUser, UpdateUser
    <2>3. next.at \notin {"issue", "revoke"}
      BY <2>1, <2>2 DEF Idle
    <2>4. UNCHANGED <<refresh, raced>>
      BY <1>4 DEF CreateUser, UpdateUser
    <2> QED
      BY <1>1, <2>2, <2>3, <2>4
  <1>5. ASSUME NEW c \in Call, UpsertMembership(c) \/ UpdateMembership(c) PROVE SessionInv'
    BY <1>1, <1>5 DEF UpsertMembership, UpdateMembership, Idle
  <1> QED
    BY <1>2, <1>3, <1>4, <1>5 DEF Manage

LEMMA SessionInvariance == Spec => []SessionInv
  <1>1. Init => SessionInv
    BY DEF Init, SessionInv, Holds, Alive, TokenOf, CallsOf, Idle
  <1>2. ASSUME TypeInv, SessionInv, [Next]_vars PROVE SessionInv'
    <2> USE <1>2 DEF TypeInv
    <2>1. CASE UNCHANGED vars
      BY <2>1, FewerIsSafe DEF vars
    <2>2. CASE SignIn
      <3>1. ASSUME NEW u \in User, Register(u) PROVE SessionInv'
        BY <3>1, FewerIsSafe DEF Register
      <3>2. ASSUME NEW t \in Token, Logout(t) PROVE SessionInv'
        BY <3>2, FewerIsSafe DEF Logout, TypeOK
      <3> QED
        BY <2>2, <3>1, <3>2, LoginSession, RefreshSession, RevokeSession, IssueSession DEF SignIn
    <2>3. ASSUME NEW c \in Call, Abort(c) PROVE SessionInv'
      BY <2>3, FewerIsSafe DEF Abort, Idle, TypeOK
    <2>4. CASE Tick
      <3>1. \A t \in Token :
              \/ refresh'[t] = Nothing
              \/ /\ refresh[t] # Nothing
                 /\ refresh'[t].session = refresh[t].session
                 /\ refresh'[t].life > 0 => refresh[t].life > 0
        <4> SUFFICES ASSUME NEW t \in Token, refresh'[t] # Nothing
                     PROVE  /\ refresh[t] # Nothing
                            /\ refresh'[t].session = refresh[t].session
                            /\ refresh'[t].life > 0 => refresh[t].life > 0
          OBVIOUS
        <4>1. refresh[t] # Nothing
          BY <2>4, TickEffect
        <4>2. /\ refresh[t].life \in 0..RefreshLife
              /\ refresh'[t].life \in 0..RefreshLife
              /\ refresh'[t].life <= refresh[t].life
              /\ refresh'[t].session = refresh[t].session
          BY <2>4, <4>1, TickEffect DEF TypeOK
        <4> QED
          BY <4>1, <4>2, AccountsAssumption
      <3> QED
        BY <2>4, <3>1, FewerIsSafe DEF Tick
    <2> QED
      BY <2>1, <2>2, <2>3, <2>4, ManageSession DEF Next
  <1> QED
    BY <1>1, <1>2, TypeInvariance, PTL DEF Spec

(***************************************************************************)
(* Of a session's tokens, and of the calls about to issue one, there is    *)
(* never more than one, unless two calls revoked the same token.           *)
(***************************************************************************)
THEOREM SessionsHaveOneToken == Spec => []SessionHasOneToken
  BY SessionInvariance, SessionInvSuffices, PTL

(* What is over stays over in a step that adds neither call nor token.     *)
LEMMA StaysEnded ==
    ASSUME NEW s \in Session, Ended(s),
           \A c \in Call : \/ call'[c].at \notin {"issue", "revoke"}
                           \/ call'[c].session # s
                           \/ call'[c].session = call[c].session /\ call[c].at \in {"issue", "revoke"},
           \A t \in Token : Alive(t)' => Alive(t) /\ refresh'[t].session = refresh[t].session
    PROVE  Ended(s)'
  <1>1. CallsOf(s)' = {}
    BY DEF Ended, CallsOf
  <1>2. \A t \in TokenOf(s)' : ~Alive(t)'
    BY DEF Ended, TokenOf, Alive
  <1> QED
    BY <1>1, <1>2 DEF Ended

LEMMA OnlyLoginRevives ==
    ASSUME TypeInv, Next, NEW s \in Session, Ended(s),
           ~ \E c \in Call, u \in User : Login(c, u, s)
    PROVE  Ended(s)'
  <1> USE DEF TypeInv
  <1>1. ASSUME refresh' = refresh
        PROVE  \A t \in Token : Alive(t)' => Alive(t) /\ refresh'[t].session = refresh[t].session
    BY <1>1 DEF Alive
  <1>2. ASSUME NEW u \in User, Register(u) PROVE Ended(s)'
    BY <1>1, <1>2, StaysEnded DEF Register
  <1>3. ASSUME NEW c \in Call, NEW u \in User, NEW r \in Session, Login(c, u, r)
        PROVE  Ended(s)'
    BY <1>1, <1>3, StaysEnded DEF Login, Issuing, TypeOK
  <1>4. ASSUME NEW c \in Call, NEW t \in Token, Refresh(c, t) PROVE Ended(s)'
    <2>1. refresh[t].session # s
      BY <1>4 DEF Refresh, Ended, TokenOf, Alive
    <2> QED
      BY <1>1, <1>4, <2>1, StaysEnded DEF Refresh, Refreshing, TypeOK
  <1>5. ASSUME NEW c \in Call, Revoke(c) PROVE Ended(s)'
    <2>1. \A t \in Token : refresh'[t] \in {refresh[t], Nothing}
      BY <1>5, CallShape DEF Revoke, TypeOK
    <2>2. \A t \in Token : Alive(t)' => Alive(t) /\ refresh'[t].session = refresh[t].session
      BY <2>1 DEF Alive
    <2> QED
      BY <1>5, <2>2, StaysEnded DEF Revoke, Issuing, TypeOK
  <1>6. ASSUME NEW c \in Call, Issue(c) PROVE Ended(s)'
    <2>1. call[c].session # s
      BY <1>6 DEF Issue, IssueFor, Ended, CallsOf
    <2>2. PICK t \in Token : refresh' = [refresh EXCEPT ![t] =
                            [session |-> call[c].session, life |-> RefreshLife]]
      BY <1>6 DEF Issue, IssueFor
    <2>3. \A x \in Token : refresh'[x] = IF x = t
              THEN [session |-> call[c].session, life |-> RefreshLife] ELSE refresh[x]
      BY <2>2 DEF TypeOK
    <2>4. CallsOf(s)' = {}
      BY <1>6 DEF Issue, IssueFor, Ended, CallsOf, Idle, TypeOK
    <2>5. \A x \in TokenOf(s)' : ~Alive(x)'
      BY <2>1, <2>3 DEF Ended, TokenOf, Alive
    <2> QED
      BY <2>4, <2>5 DEF Ended
  <1>7. ASSUME NEW t \in Token, Logout(t) PROVE Ended(s)'
    BY <1>7, StaysEnded DEF Logout, Alive, TypeOK
  <1>8. ASSUME NEW c \in Call, NEW next, next.at \notin {"issue", "revoke"},
               call' = [call EXCEPT ![c] = next], refresh' = refresh
        PROVE  Ended(s)'
    BY <1>1, <1>8, StaysEnded DEF TypeOK
  <1>9. ASSUME NEW c \in Call, NEW u \in User, NEW o \in Office, Create(c, u, o)
        PROVE  Ended(s)'
    BY <1>8, <1>9 DEF Create, Writing
  <1>10. ASSUME NEW c \in Call, NEW u \in User, NEW role \in Role \union {Nothing},
               NEW scope \in Unit \union {Nothing}, NEW active \in BOOLEAN \union {Nothing},
               Update(c, u, role, scope, active)
        PROVE  Ended(s)'
    BY <1>8, <1>10 DEF Update, Writing
  <1>11. ASSUME NEW c \in Call, CreateUser(c) \/ UpdateUser(c) PROVE Ended(s)'
    <2>1. call[c] \in [at : {"create", "update", "upsert", "assign"}, user : User,
                       found : BOOLEAN, office : Office, active : BOOLEAN \union {Nothing}]
      BY <1>11, CallShape DEF CreateUser, UpdateUser
    <2>2. PICK next \in {Idle, [call[c] EXCEPT !.at = "upsert"], [call[c] EXCEPT !.at = "assign"]} :
             call' = [call EXCEPT ![c] = next]
      BY <1>11 DEF CreateUser, UpdateUser
    <2>3. next.at \notin {"issue", "revoke"}
      BY <2>1, <2>2 DEF Idle
    <2>4. refresh' = refresh
      BY <1>11 DEF CreateUser, UpdateUser
    <2> QED
      BY <1>8, <2>2, <2>3, <2>4
  <1>12. ASSUME NEW c \in Call, UpsertMembership(c) \/ UpdateMembership(c) \/ Abort(c)
         PROVE  Ended(s)'
    BY <1>8, <1>12 DEF UpsertMembership, UpdateMembership, Abort, Idle
  <1>13. CASE Tick
    <2>1. \A t \in Token : Alive(t)' => Alive(t) /\ refresh'[t].session = refresh[t].session
      <3> SUFFICES ASSUME NEW t \in Token, Alive(t)'
                   PROVE  Alive(t) /\ refresh'[t].session = refresh[t].session
        OBVIOUS
      <3>1. refresh[t] # Nothing
        BY <1>13, TickEffect DEF Alive
      <3>2. /\ refresh[t].life \in 0..RefreshLife
            /\ refresh'[t].life \in 0..RefreshLife
            /\ refresh'[t].life <= refresh[t].life
            /\ refresh'[t].session = refresh[t].session
        BY <1>13, <3>1, TickEffect DEF TypeOK
      <3> QED
        BY <3>1, <3>2, AccountsAssumption DEF Alive
    <2> QED
      BY <1>13, <2>1, StaysEnded DEF Tick
  <1>14. CASE SignIn
    BY <1>14, <1>2, <1>3, <1>4, <1>5, <1>6, <1>7 DEF SignIn
  <1>15. CASE Manage
    BY <1>15, <1>9, <1>10, <1>11, <1>12 DEF Manage
  <1> QED
    BY <1>12, <1>13, <1>14, <1>15 DEF Next

(***************************************************************************)
(* A session that is over starts again only by signing in.                 *)
(***************************************************************************)
THEOREM SessionsOverUntilLogin == Spec => OverUntilLogin
  <1>1. ASSUME TypeInv, [Next]_vars
        PROVE  [\A s \in Session : Ended(s) /\ ~Ended(s)' =>
                   \E c \in Call, u \in User : Login(c, u, s)]_vars
    BY <1>1, OnlyLoginRevives
  <1> QED
    BY <1>1, TypeInvariance, PTL DEF Spec, OverUntilLogin

-----------------------------------------------------------------------------
(***************************************************************************)
(* The two rows of an officer                                              *)
(***************************************************************************)

(* Whoever has a membership, or is about to be given one, has an account,  *)
(* and whoever is created is created active.                               *)
RowsAreBacked ==
    /\ \A u \in User : membership[u] # Nothing => account[u].exists
    /\ \A c \in Call :
          /\ call[c].at \in {"upsert", "assign"} => account[call[c].user].exists
          /\ call[c].at \in {"create", "upsert"} => call[c].active = TRUE

(* One call at most is between the two writes, and the user's row has the  *)
(* activity that this call is about to give the membership.                *)
RowInv(u) ==
    /\ \A c1, c2 \in BetweenRows(u) : c1 = c2
    /\ \A c \in BetweenRows(u) :
          /\ call[c].active # Nothing => account[u].active = call[c].active
          /\ call[c].active = Nothing /\ membership[u] # Nothing =>
                account[u].active = membership[u].active
    /\ BetweenRows(u) = {} /\ membership[u] # Nothing =>
          account[u].active = membership[u].active

RowsInv == RowsAreBacked /\ \A u \in User \ disturbed : RowInv(u)

LEMMA RowsInvSuffices == RowsInv => RowsAgree
  BY DEF RowsInv, RowsAreBacked, RowInv, RowsAgree

(* A step that neither touches the rows of a user nor a call between them. *)
LEMMA OtherRows ==
    ASSUME NEW u \in User, RowInv(u),
           account'[u] = account[u], membership'[u] = membership[u],
           \A d \in Call :
              \/ call'[d] = call[d]
              \/ /\ call[d].at \in {"upsert", "assign"} => call[d].user # u
                 /\ call'[d].at \in {"upsert", "assign"} => call'[d].user # u
    PROVE  RowInv(u)'
  <1>1. BetweenRows(u)' = BetweenRows(u)
    BY DEF BetweenRows
  <1>2. \A c \in BetweenRows(u) : call'[c] = call[c]
    BY DEF BetweenRows
  <1> QED
    BY <1>1, <1>2 DEF RowInv

(* Steps of sign-in, and those that only read for managers.                *)
LEMMA QuietRows ==
    ASSUME RowsInv, TypeOK, UNCHANGED <<account, membership, disturbed>>,
           \A d \in Call :
              \/ call'[d] = call[d]
              \/ /\ call[d].at \notin {"upsert", "assign"}
                 /\ call'[d].at \notin {"upsert", "assign"}
                 /\ call'[d].at = "create" => call'[d].active = TRUE
    PROVE  RowsInv'
  <1>1. RowsAreBacked'
    BY DEF RowsInv, RowsAreBacked
  <1>2. \A u \in User \ disturbed' : RowInv(u)'
    BY OtherRows DEF RowsInv
  <1> QED
    BY <1>1, <1>2 DEF RowsInv

LEMMA SignInRows ==
    ASSUME TypeInv, RowsInv, SignIn
    PROVE  RowsInv'
  <1> USE DEF TypeInv
  <1>1. ASSUME NEW u \in User, Register(u) PROVE RowsInv'
    <2>1. /\ membership' = membership /\ call' = call /\ disturbed' = disturbed
          /\ ~account[u].exists
          /\ \A v \in User : account'[v] = IF v = u THEN [exists |-> TRUE, active |-> TRUE]
                                           ELSE account[v]
      BY <1>1 DEF Register, TypeOK
    <2>2. RowsAreBacked'
      <3>1. \A v \in User : account[v].exists => account'[v].exists
        BY <2>1
      <3>2. \A c \in Call : call[c].at \in {"upsert", "assign"} => call[c].user \in User
        BY CallShape
      <3> QED
        BY <2>1, <3>1, <3>2 DEF RowsInv, RowsAreBacked
    <2>3. membership[u] = Nothing /\ BetweenRows(u) = {}
      BY <2>1 DEF RowsInv, RowsAreBacked, BetweenRows
    <2>4. BetweenRows(u)' = {}
      BY <2>1, <2>3 DEF BetweenRows
    <2>5. RowInv(u)'
      BY <2>1, <2>3, <2>4 DEF RowInv
    <2>6. \A v \in User \ disturbed' : v # u => RowInv(v)'
      BY <2>1, OtherRows DEF RowsInv
    <2> QED
      BY <2>2, <2>5, <2>6 DEF RowsInv
  <1>2. ASSUME NEW c \in Call, NEW u \in User, NEW s \in Session, Login(c, u, s)
        PROVE  RowsInv'
    BY <1>2, QuietRows DEF Login, Free, Issuing, TypeOK
  <1>3. ASSUME NEW c \in Call, NEW t \in Token, Refresh(c, t) PROVE RowsInv'
    BY <1>3, QuietRows DEF Refresh, Free, Refreshing, TypeOK
  <1>4. ASSUME NEW c \in Call, Revoke(c) PROVE RowsInv'
    BY <1>4, QuietRows DEF Revoke, Issuing, TypeOK
  <1>5. ASSUME NEW c \in Call, Issue(c) PROVE RowsInv'
    BY <1>5, QuietRows DEF Issue, IssueFor, Idle, TypeOK
  <1>6. ASSUME NEW t \in Token, Logout(t) PROVE RowsInv'
    BY <1>6, QuietRows DEF Logout
  <1> QED
    BY <1>1, <1>2, <1>3, <1>4, <1>5, <1>6 DEF SignIn

(* The write of the user's row, which puts a call between the two.         *)
LEMMA FirstWrite ==
    ASSUME TypeInv, RowsInv, NEW c \in Call, CreateUser(c) \/ UpdateUser(c)
    PROVE  RowsInv'
  <1> USE AccountsAssumption DEF TypeInv
  <1> DEFINE u == call[c].user
             active == call[c].active
  <1>1. /\ call[c] \in [at : {"create", "update", "upsert", "assign"}, user : User,
                        found : BOOLEAN, office : Office, active : BOOLEAN \union {Nothing}]
        /\ call[c].at \in {"create", "update"}
        /\ membership' = membership
    BY CallShape DEF CreateUser, UpdateUser
  <1>2. CASE call' = [call EXCEPT ![c] = Idle] /\ UNCHANGED <<account, disturbed>>
    BY <1>1, <1>2, QuietRows DEF Idle, TypeOK
  <1>3. CASE /\ \/ call' = [call EXCEPT ![c].at = "upsert"] /\ active = TRUE
                \/ call' = [call EXCEPT ![c].at = "assign"] /\ account[u].exists
             /\ \E row : /\ account' = [account EXCEPT ![u] = row]
                         /\ row.exists = TRUE \/ row.exists = account[u].exists
                         /\ row.exists = TRUE \/ call[c].at = "update"
                         /\ active # Nothing => row.active = active
                         /\ active = Nothing => row = account[u] /\ call[c].at = "update"
             /\ disturbed' = IF BetweenRows(u) = {} THEN disturbed ELSE disturbed \union {u}
    <2>1. PICK row : /\ account' = [account EXCEPT ![u] = row]
                     /\ row.exists = TRUE \/ row.exists = account[u].exists
                     /\ row.exists = TRUE \/ call[c].at = "update"
                     /\ active # Nothing => row.active = active
                     /\ active = Nothing => row = account[u] /\ call[c].at = "update"
      BY <1>3
    <2>2. u \in User /\ \A v \in User : account'[v] = IF v = u THEN row ELSE account[v]
      BY <1>1, <2>1 DEF TypeOK
    <2>3. /\ call'[c].at \in {"upsert", "assign"}
          /\ call'[c].at = "upsert" => active = TRUE
          /\ call'[c].user = u /\ call'[c].active = active
          /\ \A d \in Call \ {c} : call'[d] = call[d]
      BY <1>1, <1>3 DEF TypeOK
    <2>4. row.exists
      <3>1. call[c].at = "update" => account[u].exists
        BY <1>1 DEF UpdatesFindTheirRow, RowsInv, RowsAreBacked
      <3> QED
        BY <2>1, <3>1
    <2>5. RowsAreBacked'
      <3>1. \A v \in User : account[v].exists => account'[v].exists
        BY <2>2, <2>4
      <3>2. \A d \in Call : call[d].at \in {"upsert", "assign"} => call[d].user \in User
        BY CallShape
      <3>3. account'[u].exists
        BY <2>2, <2>4
      <3> HIDE DEF u, active
      <3> QED
        BY <1>1, <2>2, <2>3, <3>1, <3>2, <3>3 DEF RowsInv, RowsAreBacked
    <2>6. ASSUME NEW v \in User \ disturbed' PROVE RowInv(v)'
      <3>1. v \in User \ disturbed
        BY <1>3, <2>6
      <3>2. CASE v # u
        BY <1>1, <2>2, <2>3, <3>1, <3>2, OtherRows DEF RowsInv
      <3>3. CASE v = u
        <4>1. BetweenRows(u) = {}
          BY <1>3, <2>6, <3>3
        <4>2. BetweenRows(u)' = {c}
          <5>1. \A d \in Call : call'[d].at \in {"upsert", "assign"} /\ call'[d].user = u <=> d = c
            BY <2>3, <4>1 DEF BetweenRows
          <5> QED
            BY <5>1, <2>3, <3>3 DEF BetweenRows
        <4>3. active = Nothing /\ membership[u] # Nothing => account[u].active = membership[u].active
          BY <3>1, <3>3, <4>1 DEF RowsInv, RowInv
        <4> QED
          BY <1>1, <2>1, <2>2, <2>3, <3>3, <4>2, <4>3 DEF RowInv
      <3> QED
        BY <3>2, <3>3
    <2> QED
      BY <2>5, <2>6 DEF RowsInv
  <1>4. CASE CreateUser(c)
    <2>1. call[c].at = "create" /\ active = TRUE
      BY <1>4 DEF CreateUser, RowsInv, RowsAreBacked
    <2>2. CASE ~call[c].found /\ account[u].exists
      BY <1>2, <1>4, <2>2 DEF CreateUser
    <2>3. CASE ~(~call[c].found /\ account[u].exists)
      <3>1. /\ account' = [account EXCEPT ![u] = [exists |-> TRUE, active |-> TRUE]]
            /\ call' = [call EXCEPT ![c].at = "upsert"]
            /\ disturbed' = IF BetweenRows(u) = {} THEN disturbed ELSE disturbed \union {u}
        BY <1>4, <2>3 DEF CreateUser
      <3> QED
        BY <1>3, <2>1, <3>1
    <2> QED
      BY <2>2, <2>3
  <1>5. CASE UpdateUser(c)
    <2> DEFINE row == [account[u] EXCEPT !.active = IF active = Nothing THEN account[u].active
                                                    ELSE active]
    <2>1. /\ call[c].at = "update"
          /\ account' = [account EXCEPT ![u].active = IF active = Nothing THEN @ ELSE active]
          /\ call' = [call EXCEPT ![c].at = "assign"]
          /\ disturbed' = IF BetweenRows(u) = {} THEN disturbed ELSE disturbed \union {u}
      BY <1>5 DEF UpdateUser
    <2>2. account[u] \in [exists : BOOLEAN, active : BOOLEAN] /\ u \in User
      BY <1>1 DEF TypeOK
    <2>3. account[u].exists
      BY <1>1, <2>1 DEF UpdatesFindTheirRow, RowsInv, RowsAreBacked
    <2>4. /\ account' = [account EXCEPT ![u] = row]
          /\ row.exists = account[u].exists
          /\ active # Nothing => row.active = active
          /\ active = Nothing => row = account[u]
      BY <2>1, <2>2 DEF TypeOK
    <2> HIDE DEF row
    <2> QED
      BY <1>3, <2>1, <2>3, <2>4
  <1> QED
    BY <1>4, <1>5

(* The write of the membership, which takes the call away again.           *)
LEMMA SecondWrite ==
    ASSUME TypeInv, RowsInv, NEW c \in Call, UpsertMembership(c) \/ UpdateMembership(c)
    PROVE  RowsInv'
  <1> USE AccountsAssumption DEF TypeInv
  <1> DEFINE u == call[c].user
             active == call[c].active
  <1>1. /\ call[c] \in [at : {"create", "update", "upsert", "assign"}, user : User,
                        found : BOOLEAN, office : Office, active : BOOLEAN \union {Nothing}]
        /\ call[c].at \in {"upsert", "assign"}
        /\ account' = account /\ disturbed' = disturbed
        /\ call' = [call EXCEPT ![c] = Idle]
    BY CallShape DEF UpsertMembership, UpdateMembership
  <1>2. /\ u \in User
        /\ \A d \in Call : call'[d] = IF d = c THEN Idle ELSE call[d]
        /\ c \in BetweenRows(u)
    BY <1>1 DEF TypeOK, BetweenRows
  <1>3. PICK row : /\ membership' = [membership EXCEPT ![u] = row]
                   /\ active # Nothing => row.active = active
                   /\ active = Nothing => membership[u] # Nothing /\ row.active = membership[u].active
    <2>1. CASE UpsertMembership(c)
      <3>1. active = TRUE
        BY <2>1 DEF UpsertMembership, RowsInv, RowsAreBacked
      <3>2. membership' = [membership EXCEPT ![u] =
                   [role |-> call[c].office.role, scope |-> call[c].office.scope, active |-> TRUE]]
        BY <2>1 DEF UpsertMembership
      <3> QED
        BY <3>1, <3>2
    <2>2. CASE UpdateMembership(c)
      <3> DEFINE row == [role |-> call[c].office.role, scope |-> call[c].office.scope,
                         active |-> IF active = Nothing THEN membership[u].active ELSE active]
      <3>1. membership[u] # Nothing
        BY <2>2 DEF UpdateMembership, UpdatesFindTheirRow
      <3>2. membership' = [membership EXCEPT ![u] = row]
        BY <2>2, <1>2 DEF UpdateMembership, TypeOK
      <3>3. /\ active # Nothing => row.active = active
            /\ active = Nothing => row.active = membership[u].active
        OBVIOUS
      <3> HIDE DEF row
      <3> QED
        BY <3>1, <3>2, <3>3
    <2> QED
      BY <2>1, <2>2
  <1>4. \A v \in User : membership'[v] = IF v = u THEN row ELSE membership[v]
    BY <1>2, <1>3 DEF TypeOK
  <1>5. RowsAreBacked'
    <2>1. account[u].exists
      BY <1>1 DEF RowsInv, RowsAreBacked
    <2> HIDE DEF u, active
    <2> QED
      BY <1>1, <1>2, <1>4, <2>1 DEF RowsInv, RowsAreBacked, Idle
  <1>6. ASSUME NEW v \in User \ disturbed' PROVE RowInv(v)'
    <2>1. v \in User \ disturbed
      BY <1>1, <1>6
    <2>2. CASE v # u
      BY <1>1, <1>2, <1>4, <2>1, <2>2, OtherRows DEF RowsInv, Idle
    <2>3. CASE v = u
      <3>1. BetweenRows(u) = {c}
        BY <1>2, <2>1, <2>3 DEF RowsInv, RowInv
      <3>2. BetweenRows(v)' = {}
        BY <1>1, <1>2, <2>3, <3>1 DEF BetweenRows, Idle
      <3>3. account[u].active = row.active
        BY <1>2, <1>3, <2>1, <2>3 DEF RowsInv, RowInv
      <3> QED
        BY <1>1, <1>4, <2>3, <3>2, <3>3 DEF RowInv
    <2> QED
      BY <2>2, <2>3
  <1> QED
    BY <1>5, <1>6 DEF RowsInv

LEMMA AbortRows ==
    ASSUME TypeInv, RowsInv, NEW c \in Call, Abort(c)
    PROVE  RowsInv'
  <1> USE AccountsAssumption DEF TypeInv
  <1>1. /\ \A d \in Call : call'[d] = IF d = c THEN Idle ELSE call[d]
        /\ account' = account /\ membership' = membership
    BY DEF Abort, TypeOK
  <1>2. CASE call[c].at \notin {"upsert", "assign"}
    <2>1. disturbed' = disturbed
      BY <1>2 DEF Abort
    <2>2. \A d \in Call :
             \/ call'[d] = call[d]
             \/ /\ call[d].at \notin {"upsert", "assign"}
                /\ call'[d].at = "idle"
      BY <1>1, <1>2 DEF Idle
    <2> QED
      BY <1>1, <2>1, <2>2, QuietRows
  <1>3. CASE call[c].at \in {"upsert", "assign"}
    <2> DEFINE u == call[c].user
    <2>1. RowsAreBacked'
      BY <1>1 DEF RowsInv, RowsAreBacked, Idle
    <2>2. /\ disturbed \subseteq disturbed'
          /\ u \notin disturbed' => call[c].active = Nothing
      BY <1>3 DEF Abort
    <2>3. ASSUME NEW v \in User \ disturbed' PROVE RowInv(v)'
      <3>1. v \in User \ disturbed
        BY <2>2, <2>3
      <3>2. CASE v # u
        BY <1>1, <3>1, <3>2, OtherRows DEF RowsInv, Idle
      <3>3. CASE v = u
        <4>1. BetweenRows(v) = {c} /\ call[c].active = Nothing
          BY <1>3, <2>2, <2>3, <3>1, <3>3 DEF RowsInv, RowInv, BetweenRows
        <4>2. BetweenRows(v)' = {}
          BY <1>1, <4>1 DEF BetweenRows, Idle
        <4>3. membership[v] # Nothing => account[v].active = membership[v].active
          BY <3>1, <4>1 DEF RowsInv, RowInv
        <4> QED
          BY <1>1, <4>2, <4>3 DEF RowInv
      <3> QED
        BY <3>2, <3>3
    <2> QED
      BY <2>1, <2>3 DEF RowsInv
  <1> QED
    BY <1>2, <1>3

LEMMA RowsInvariance == Spec => []RowsInv
  <1>1. Init => RowsInv
    BY DEF Init, RowsInv, RowsAreBacked, RowInv, BetweenRows, Idle
  <1>2. ASSUME TypeInv, RowsInv, [Next]_vars PROVE RowsInv'
    <2> USE <1>2 DEF TypeInv
    <2>1. CASE UNCHANGED vars
      BY <2>1, QuietRows DEF vars
    <2>2. CASE Tick
      BY <2>2, QuietRows DEF Tick
    <2>3. CASE Manage
      <3>1. ASSUME NEW c \in Call, NEW u \in User, NEW o \in Office, Create(c, u, o)
            PROVE  RowsInv'
        BY <3>1, QuietRows DEF Create, Free, Writing, TypeOK
      <3>2. ASSUME NEW c \in Call, NEW u \in User, NEW role \in Role \union {Nothing},
                   NEW scope \in Unit \union {Nothing}, NEW active \in BOOLEAN \union {Nothing},
                   Update(c, u, role, scope, active)
            PROVE  RowsInv'
        BY <3>2, QuietRows DEF Update, Free, Writing, TypeOK
      <3> QED
        BY <2>3, <3>1, <3>2, FirstWrite, SecondWrite DEF Manage
    <2> QED
      BY <2>1, <2>2, <2>3, SignInRows, AbortRows DEF Next
  <1> QED
    BY <1>1, <1>2, TypeInvariance, PTL DEF Spec

(***************************************************************************)
(* User and membership agree on whether an officer is active whenever      *)
(* nobody is between the two writes, unless calls overlapped there or were *)
(* cut off.                                                                *)
(***************************************************************************)
THEOREM OfficersRowsAgree == Spec => []RowsAgree
  BY RowsInvariance, RowsInvSuffices, PTL
=============================================================================
