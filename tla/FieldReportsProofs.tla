------------------------- MODULE FieldReportsProofs -------------------------
(***************************************************************************)
(* Whoever is to be told of a report is told, once: for every area, every  *)
(* number of users, reports and devices, and every overlap of dispatches,  *)
(* errors and crashes.  What a step of a dispatch does to what is owed and *)
(* to what may be pushed is described once (Advances), and the invariants  *)
(* follow from that description.                                           *)
(***************************************************************************)
EXTENDS FieldReports, TLAPS

(* An event is for users. *)
LEMMA AudienceIsUsers ==
    ASSUME NEW e \in Event
    PROVE  Audience(e) \subseteq User
BY NotificationsAssumption DEF Audience, Event, EventType, WardOfficers, LgaOfficers

(* What the step of a dispatch d does to rows, debts and pushes. *)
Advances(d) ==
    /\ dispatch' \in [Dispatch -> Running \union {Idle}]
    /\ \A o \in Dispatch \ {d} : dispatch'[o] = dispatch[o]
    /\ inbox \subseteq inbox' /\ dropped \subseteq dropped'
    /\ Owed(d) \subseteq inbox' \union dropped' \union Owed(d)'
    /\ \A u \in User, t \in Token : MayPush(d, u, t)' =>
          /\ dispatch'[d].event = dispatch[d].event
          /\ MayPush(d, u, t) \/ <<KeyOf(dispatch[d].event), u>> \in inbox' \ inbox
    /\ \A p \in pushed' : \/ p \in pushed
                         \/ \E u \in User, t \in Token :
                               /\ p = <<KeyOf(dispatch[d].event), u, t>>
                               /\ MayPush(d, u, t) /\ ~MayPush(d, u, t)'
    /\ \A p \in repeated' : \/ p \in repeated
                           \/ /\ p \in pushed
                              /\ \E u \in User, t \in Token :
                                    p = <<KeyOf(dispatch[d].event), u, t>> /\ MayPush(d, u, t)
    /\ dispatch'[d] # Idle => /\ dispatch'[d].at = "resolve" => dispatch'[d].created = {}
                             /\ dispatch'[d].invalid \subseteq dead'

(* Nothing owed is forgotten by a dispatch. *)
LEMMA AdvancesOwes ==
    ASSUME NEW d \in Dispatch, Advances(d)
    PROVE  ToldOrOwed \subseteq ToldOrOwed'
<1>1. \A o \in Dispatch \ {d} : Owed(o)' = Owed(o)
  BY DEF Advances, Owed
<1> QED BY <1>1 DEF Advances, ToldOrOwed

(* One pusher per event and device remains, and it pushes once. *)
LEMMA AdvancesPushesOnce ==
    ASSUME NEW d \in Dispatch, Advances(d), PushedOnce, OnePusher,
           pushed \subseteq Key \X User \X Token
    PROVE  PushedOnce' /\ OnePusher'
<1> DEFINE k == KeyOf(dispatch[d].event)
<1>1. \A o \in Dispatch \ {d}, u \in User, t \in Token :
        /\ MayPush(o, u, t)' = MayPush(o, u, t)
        /\ KeyOf(dispatch[o].event)' = KeyOf(dispatch[o].event)
  BY DEF Advances, MayPush, KeyOf
<1>2. PushedOnce'
  <2>1. repeated' = {}
    BY DEF Advances, PushedOnce, OnePusher
  <2>2. ASSUME NEW p \in pushed'
        PROVE  <<p[1], p[2]>> \in inbox'
    <3>1. CASE p \in pushed
      BY <3>1 DEF Advances, PushedOnce
    <3>2. CASE p \notin pushed
      <4>1. PICK u \in User, t \in Token : p = <<k, u, t>> /\ MayPush(d, u, t)
        BY <3>2 DEF Advances
      <4>2. <<k, u>> \in inbox
        BY <4>1 DEF OnePusher
      <4> QED BY <4>1, <4>2 DEF Advances
    <3> QED BY <3>1, <3>2
  <2> QED BY <2>1, <2>2 DEF PushedOnce
<1>3. ASSUME NEW u \in User, NEW t \in Token, MayPush(d, u, t)'
      PROVE  /\ KeyOf(dispatch[d].event)' = k
             /\ <<k, u>> \in inbox'
             /\ <<k, u, t>> \notin pushed'
             /\ \A o \in Dispatch \ {d} : MayPush(o, u, t) => KeyOf(dispatch[o].event) # k
  <2>1. /\ KeyOf(dispatch[d].event)' = k
        /\ <<k, u>> \in inbox'
        /\ MayPush(d, u, t) \/ <<k, u>> \notin inbox
    BY <1>3 DEF Advances, KeyOf, OnePusher
  <2>2. <<k, u, t>> \notin pushed
    BY <2>1 DEF PushedOnce, OnePusher
  <2>3. <<k, u, t>> \notin pushed'
    <3> SUFFICES ASSUME <<k, u, t>> \in pushed'
                 PROVE  FALSE
      OBVIOUS
    <3>1. PICK v \in User, s \in Token : /\ <<k, u, t>> = <<k, v, s>>
                                       /\ ~MayPush(d, v, s)'
      BY <2>2 DEF Advances
    <3> QED BY <3>1, <1>3
  <2>4. \A o \in Dispatch \ {d} : MayPush(o, u, t) => KeyOf(dispatch[o].event) # k
    BY <2>1 DEF OnePusher
  <2> QED BY <2>1, <2>3, <2>4
<1>4. ASSUME NEW o \in Dispatch \ {d}, NEW u \in User, NEW t \in Token, MayPush(o, u, t)'
      PROVE  LET l == KeyOf(dispatch[o].event)
             IN  /\ KeyOf(dispatch[o].event)' = l
                 /\ <<l, u>> \in inbox'
                 /\ <<l, u, t>> \notin pushed'
                 /\ MayPush(d, u, t)' => k # l
                 /\ \A c \in Dispatch \ {d, o} : MayPush(c, u, t) => KeyOf(dispatch[c].event) # l
  <2> DEFINE l == KeyOf(dispatch[o].event)
  <2>1. MayPush(o, u, t) /\ KeyOf(dispatch[o].event)' = l
    BY <1>1, <1>4
  <2>2. /\ <<l, u>> \in inbox /\ <<l, u, t>> \notin pushed
        /\ MayPush(d, u, t) => k # l
        /\ \A c \in Dispatch \ {d, o} : MayPush(c, u, t) => KeyOf(dispatch[c].event) # l
    BY <2>1 DEF OnePusher
  <2>3. <<l, u, t>> \notin pushed'
    <3> SUFFICES ASSUME <<l, u, t>> \in pushed'
                 PROVE  FALSE
      OBVIOUS
    <3>1. PICK v \in User, s \in Token : <<l, u, t>> = <<k, v, s>> /\ MayPush(d, v, s)
      BY <2>2 DEF Advances
    <3>2. l = k /\ u = v /\ t = s
      BY <3>1
    <3> QED BY <3>1, <3>2, <2>2
  <2>4. MayPush(d, u, t)' => k # l
    BY <1>3, <2>1
  <2> QED BY <2>1, <2>2, <2>3, <2>4 DEF Advances
<1>5. OnePusher'
  <2> SUFFICES ASSUME NEW o \in Dispatch, NEW u \in User, NEW t \in Token, MayPush(o, u, t)'
               PROVE  LET l == KeyOf(dispatch[o].event)'
                      IN  /\ <<l, u>> \in inbox'
                          /\ <<l, u, t>> \notin pushed'
                          /\ \A c \in Dispatch \ {o} :
                                MayPush(c, u, t)' => KeyOf(dispatch[c].event)' # l
    BY DEF OnePusher
  <2>1. CASE o = d
    BY <2>1, <1>3, <1>1
  <2>2. CASE o # d
    <3> DEFINE l == KeyOf(dispatch[o].event)
    <3>1. /\ KeyOf(dispatch[o].event)' = l
          /\ <<l, u>> \in inbox' /\ <<l, u, t>> \notin pushed'
          /\ MayPush(d, u, t)' => k # l
          /\ \A c \in Dispatch \ {d, o} : MayPush(c, u, t) => KeyOf(dispatch[c].event) # l
      BY <2>2, <1>4
    <3>2. ASSUME NEW c \in Dispatch \ {o}, MayPush(c, u, t)'
          PROVE  KeyOf(dispatch[c].event)' # l
      <4>1. CASE c = d
        BY <4>1, <3>1, <3>2, <1>3
      <4>2. CASE c # d
        BY <4>2, <3>1, <3>2, <1>1
      <4> QED BY <4>1, <4>2
    <3> QED BY <3>1, <3>2
  <2> QED BY <2>1, <2>2
<1> QED BY <1>2, <1>5

-----------------------------------------------------------------------------
(* A dispatch that is at some step is under way. *)
LEMMA UnderWay ==
    ASSUME NotificationsTypeOK, NEW d \in Dispatch
    PROVE  /\ dispatch[d] = Idle \/ dispatch[d] \in Running
           /\ dispatch[d].at \in {"resolve", "rows", "tokens", "send", "clean"} =>
                dispatch[d] \in Running
           /\ dispatch[d] \in Running => dispatch[d].at # "idle"
           /\ Idle.at = "idle"
BY DEF NotificationsTypeOK, Idle, Running

(* How a dispatch moves on. *)
LEMMA ContinueEffect ==
    ASSUME NotificationsTypeOK, NEW d \in Dispatch, NEW update \in Running,
           NEW at, NEW more \in BOOLEAN,
           more => at \in {"resolve", "rows", "tokens", "send", "clean"},
           Continue(d, at, more, update)
    PROVE  /\ dispatch' \in [Dispatch -> Running \union {Idle}]
           /\ \A o \in Dispatch \ {d} : dispatch'[o] = dispatch[o]
           /\ ~more => dispatch'[d] = Idle
           /\ more => /\ dispatch'[d] # Idle
                      /\ dispatch'[d].at = at
                      /\ dispatch'[d].event = update.event
                      /\ dispatch'[d].todo = update.todo
                      /\ dispatch'[d].created = update.created
                      /\ dispatch'[d].tokens = update.tokens
                      /\ dispatch'[d].invalid = update.invalid
<1>1. more => /\ [update EXCEPT !.at = at] \in Running
              /\ [update EXCEPT !.at = at].at = at
              /\ [update EXCEPT !.at = at].event = update.event
              /\ [update EXCEPT !.at = at].todo = update.todo
              /\ [update EXCEPT !.at = at].created = update.created
              /\ [update EXCEPT !.at = at].tokens = update.tokens
              /\ [update EXCEPT !.at = at].invalid = update.invalid
  BY DEF Running
<1>2. dispatch \in [Dispatch -> Running \union {Idle}]
  BY DEF NotificationsTypeOK
<1>3. dispatch'[d] = IF more THEN [update EXCEPT !.at = at] ELSE Idle
  BY <1>2 DEF Continue
<1>4. /\ dispatch' \in [Dispatch -> Running \union {Idle}]
      /\ \A o \in Dispatch \ {d} : dispatch'[o] = dispatch[o]
  BY <1>1, <1>2 DEF Continue
<1>5. more => dispatch'[d] # Idle
  BY <1>1, <1>3 DEF Idle
<1> QED BY <1>1, <1>3, <1>4, <1>5

(* The invariants of the dispatches that their steps rely on. *)
DispatchInv == NotificationsTypeOK /\ DispatchesSound

LEMMA ResolveAdvances ==
    ASSUME DispatchInv, NEW d \in Dispatch, Resolve(d)
    PROVE  Advances(d)
<1> DEFINE to == Audience(dispatch[d].event)
           update == [dispatch[d] EXCEPT !.todo = to]
<1>1. dispatch[d] \in Running /\ dispatch[d].at = "resolve"
  BY UnderWay DEF Resolve, DispatchInv
<1>2. to \subseteq User
  BY <1>1, AudienceIsUsers DEF Running
<1>3. /\ update \in Running
      /\ update.event = dispatch[d].event /\ update.todo = to
      /\ update.created = dispatch[d].created /\ update.invalid = dispatch[d].invalid
  BY <1>1, <1>2 DEF Running
<1>4. Continue(d, "rows", to # {}, update)
  BY DEF Resolve
<1>5. /\ dispatch' \in [Dispatch -> Running \union {Idle}]
      /\ \A o \in Dispatch \ {d} : dispatch'[o] = dispatch[o]
      /\ to = {} => dispatch'[d] = Idle
      /\ to # {} => /\ dispatch'[d] # Idle
                    /\ dispatch'[d].at = "rows"
                    /\ dispatch'[d].event = dispatch[d].event
                    /\ dispatch'[d].todo = to
                    /\ dispatch'[d].created = dispatch[d].created
                    /\ dispatch'[d].invalid = dispatch[d].invalid
  BY <1>3, <1>4, ContinueEffect DEF DispatchInv
<1>6. dispatch[d].created = {}
  BY <1>1, UnderWay DEF DispatchInv, DispatchesSound
<1>7. Owed(d) = {KeyOf(dispatch[d].event)} \X to
  BY <1>1 DEF Owed
<1>8. to # {} => Owed(d)' = {KeyOf(dispatch[d].event)} \X to
  BY <1>5 DEF Owed, KeyOf
<1>9. Owed(d) \subseteq Owed(d)'
  BY <1>7, <1>8
<1>10. \A u \in User, t \in Token : ~MayPush(d, u, t)'
  BY <1>5, <1>6 DEF MayPush, Idle
<1>11. dispatch'[d] # Idle => dispatch'[d].at # "resolve" /\ dispatch'[d].invalid \subseteq dead
  BY <1>1, <1>5, UnderWay DEF DispatchInv, DispatchesSound
<1> QED
  BY <1>5, <1>9, <1>10, <1>11 DEF Advances, Resolve

(* Once a recipient is done with, only the others are owed a row. *)
LEMMA DoneEffect ==
    ASSUME DispatchInv, NEW d \in Dispatch, NEW u \in User, NEW new \in SUBSET {u},
           dispatch[d].at = "rows", u \in dispatch[d].todo, Done(d, u, new)
    PROVE  /\ dispatch' \in [Dispatch -> Running \union {Idle}]
           /\ \A o \in Dispatch \ {d} : dispatch'[o] = dispatch[o]
           /\ Owed(d) \subseteq Owed(d)' \union {<<KeyOf(dispatch[d].event), u>>}
           /\ \A v \in User, t \in Token : MayPush(d, v, t)' =>
                /\ dispatch'[d].event = dispatch[d].event
                /\ MayPush(d, v, t) \/ v \in new
           /\ dispatch'[d] # Idle =>
                dispatch'[d].at # "resolve" /\ dispatch'[d].invalid \subseteq dead
<1> DEFINE todo    == dispatch[d].todo \ {u}
           created == dispatch[d].created \union new
           typed   == [dispatch[d] EXCEPT !.todo = todo, !.created = created]
           more    == todo # {} \/ created # {}
           at      == IF todo # {} THEN "rows" ELSE "tokens"
           key     == KeyOf(dispatch[d].event)
<1>1. dispatch[d] \in Running
  BY UnderWay DEF DispatchInv
<1>2. /\ typed \in Running
      /\ typed.event = dispatch[d].event /\ typed.todo = todo
      /\ typed.created = created /\ typed.invalid = dispatch[d].invalid
  BY <1>1 DEF Running
<1>3. /\ Continue(d, at, more, typed)
      /\ at \in {"rows", "tokens"}
      /\ more \in BOOLEAN
  BY DEF Done
<1>a. created \subseteq dispatch[d].created \union new
  OBVIOUS
<1>b. at # "rows" => todo = {}
  OBVIOUS
<1>c. ~more => todo = {}
  OBVIOUS
<1> HIDE DEF typed, more, at, created
<1>4. /\ dispatch' \in [Dispatch -> Running \union {Idle}]
      /\ \A o \in Dispatch \ {d} : dispatch'[o] = dispatch[o]
      /\ ~more => dispatch'[d] = Idle
      /\ more => /\ dispatch'[d] # Idle
                 /\ dispatch'[d].at = at
                 /\ dispatch'[d].event = dispatch[d].event
                 /\ dispatch'[d].todo = todo
                 /\ dispatch'[d].created = created
                 /\ dispatch'[d].invalid = dispatch[d].invalid
  BY <1>2, <1>3, ContinueEffect DEF DispatchInv
<1>5. Owed(d) = {key} \X dispatch[d].todo
  BY DEF Owed
<1>6. todo # {} => Owed(d)' = {key} \X todo
  BY <1>b, <1>c, <1>3, <1>4 DEF Owed, KeyOf
<1>7. Owed(d) \subseteq Owed(d)' \union {<<key, u>>}
  BY <1>5, <1>6
<1>8. \A v \in User, t \in Token : MayPush(d, v, t)' =>
        /\ dispatch'[d].event = dispatch[d].event
        /\ MayPush(d, v, t) \/ v \in new
  <2>1. CASE more
    <3>1. \A v \in User, t \in Token : MayPush(d, v, t)' => v \in created
      BY <1>3, <1>4, <2>1 DEF MayPush
    <3> QED BY <1>4, <1>a, <2>1, <3>1 DEF MayPush
  <2>2. CASE ~more
    BY <1>4, <2>2 DEF MayPush, Idle
  <2> QED BY <2>1, <2>2
<1>9. dispatch'[d] # Idle =>
        dispatch'[d].at # "resolve" /\ dispatch'[d].invalid \subseteq dead
  BY <1>1, <1>3, <1>4, UnderWay DEF DispatchInv, DispatchesSound
<1> QED
  BY <1>4, <1>7, <1>8, <1>9

LEMMA PersistAdvances ==
    ASSUME DispatchInv, NEW d \in Dispatch, NEW u \in User, Persist(d, u)
    PROVE  Advances(d)
<1> DEFINE key == KeyOf(dispatch[d].event)
           new == {v \in {u} \cap PushAudience(dispatch[d].event) : <<key, v>> \notin inbox}
<1>1. /\ dispatch[d].at = "rows" /\ u \in dispatch[d].todo
      /\ inbox' = inbox \union {<<key, u>>}
      /\ Done(d, u, new)
      /\ UNCHANGED <<pushed, repeated, dropped, dead>>
  BY DEF Persist
<1>2. /\ new \in SUBSET {u}
      /\ \A v \in new : <<key, v>> \in inbox' \ inbox
  BY <1>1
<1> HIDE DEF new
<1> QED
  BY <1>1, <1>2, DoneEffect DEF Advances

LEMMA PersistFailsAdvances ==
    ASSUME DispatchInv, NEW d \in Dispatch, NEW u \in User, PersistFails(d, u)
    PROVE  Advances(d)
<1>1. /\ dispatch[d].at = "rows" /\ u \in dispatch[d].todo
      /\ dropped' = dropped \union {<<KeyOf(dispatch[d].event), u>>}
      /\ Done(d, u, {})
      /\ UNCHANGED <<inbox, pushed, repeated, dead>>
  BY DEF PersistFails
<1> QED
  BY <1>1, DoneEffect DEF Advances

LEMMA TokensAdvances ==
    ASSUME DispatchInv, NEW d \in Dispatch, TokensForUsers(d)
    PROVE  Advances(d)
<1> DEFINE found == {<<device[t].user, t>> : t \in
                       {s \in Token : /\ device[s].active
                                      /\ device[s].user \in dispatch[d].created}}
           typed == [dispatch[d] EXCEPT !.tokens = found]
<1>1. dispatch[d] \in Running /\ dispatch[d].at = "tokens"
  BY UnderWay DEF TokensForUsers, DispatchInv
<1>2. /\ found \subseteq User \X Token
      /\ \A u \in User, t \in Token : <<u, t>> \in found => u \in dispatch[d].created
  BY <1>1 DEF Running
<1>3. Continue(d, "send", found # {}, typed)
  BY DEF TokensForUsers
<1> HIDE DEF found
<1>4. /\ typed \in Running
      /\ typed.event = dispatch[d].event /\ typed.tokens = found
      /\ typed.invalid = dispatch[d].invalid
  BY <1>1, <1>2 DEF Running
<1>5. /\ dispatch' \in [Dispatch -> Running \union {Idle}]
      /\ \A o \in Dispatch \ {d} : dispatch'[o] = dispatch[o]
      /\ found = {} => dispatch'[d] = Idle
      /\ found # {} => /\ dispatch'[d] # Idle
                       /\ dispatch'[d].at = "send"
                       /\ dispatch'[d].event = dispatch[d].event
                       /\ dispatch'[d].tokens = found
                       /\ dispatch'[d].invalid = dispatch[d].invalid
  BY <1>3, <1>4, ContinueEffect DEF DispatchInv
<1>6. Owed(d) = {}
  BY <1>1 DEF Owed
<1>7. \A u \in User, t \in Token : MayPush(d, u, t)' =>
        dispatch'[d].event = dispatch[d].event /\ MayPush(d, u, t)
  BY <1>1, <1>2, <1>5 DEF MayPush, Idle
<1>8. dispatch'[d] # Idle =>
        dispatch'[d].at # "resolve" /\ dispatch'[d].invalid \subseteq dead
  BY <1>1, <1>5, UnderWay DEF DispatchInv, DispatchesSound
<1> QED
  BY <1>5, <1>6, <1>7, <1>8 DEF Advances, TokensForUsers

LEMMA MulticastAdvances ==
    ASSUME DispatchInv, NEW d \in Dispatch, Multicast(d)
    PROVE  Advances(d)
<1>1. dispatch[d] \in Running /\ dispatch[d].at = "send"
  BY UnderWay DEF Multicast, DispatchInv
<1>2. PICK chunk \in SUBSET dispatch[d].tokens :
        \E accepted \in SUBSET chunk : \E throws \in BOOLEAN : Send(d, chunk, accepted, throws)
  BY DEF Multicast
<1>a. PICK accepted \in SUBSET chunk, throws \in BOOLEAN : Send(d, chunk, accepted, throws)
  BY <1>2
<1> DEFINE key       == KeyOf(dispatch[d].event)
           remaining == dispatch[d].tokens \ chunk
           refused   == IF throws THEN {} ELSE {c[2] : c \in chunk} \cap dead
           invalid   == dispatch[d].invalid \union refused
           sent      == {<<key, c[1], c[2]>> : c \in accepted}
           typed     == [dispatch[d] EXCEPT !.tokens = remaining, !.invalid = invalid]
           more      == remaining # {} \/ invalid # {}
           at        == IF remaining # {} THEN "send" ELSE "clean"
<1>3. /\ Continue(d, at, more, typed)
      /\ pushed' = pushed \union sent
      /\ repeated' = repeated \union (pushed \cap sent)
      /\ UNCHANGED <<inbox, dropped, dead>>
  BY <1>a DEF Send
<1>4. dispatch[d].tokens \subseteq User \X Token /\ remaining \subseteq User \X Token
  BY <1>1 DEF Running
<1>5. ASSUME NEW p \in sent
      PROVE  \E u \in User, t \in Token : /\ p = <<key, u, t>>
                                        /\ <<u, t>> \in dispatch[d].tokens
                                        /\ <<u, t>> \notin remaining
  <2>1. PICK c \in accepted : p = <<key, c[1], c[2]>>
    OBVIOUS
  <2>2. c \in User \X Token /\ c \in dispatch[d].tokens /\ c \notin remaining
    BY <1>4
  <2> QED BY <2>1, <2>2
<1>6. refused \subseteq dead
  OBVIOUS
<1>7. dispatch[d].invalid \subseteq dead /\ dead \subseteq Token
  BY <1>1, UnderWay DEF DispatchInv, DispatchesSound, NotificationsTypeOK
<1> HIDE DEF refused, sent
<1>8. invalid \subseteq dead /\ invalid \subseteq Token
  BY <1>6, <1>7
<1>9. /\ at \in {"send", "clean"} /\ more \in BOOLEAN
      /\ at = "send" => remaining # {}
      /\ remaining \subseteq dispatch[d].tokens
  OBVIOUS
<1> HIDE DEF remaining, invalid, more, at
<1>10. /\ typed \in Running
       /\ typed.event = dispatch[d].event /\ typed.tokens = remaining
       /\ typed.invalid = invalid
  BY <1>1, <1>4, <1>8 DEF Running
<1> HIDE DEF typed
<1>11. /\ dispatch' \in [Dispatch -> Running \union {Idle}]
       /\ \A o \in Dispatch \ {d} : dispatch'[o] = dispatch[o]
       /\ ~more => dispatch'[d] = Idle
       /\ more => /\ dispatch'[d] # Idle
                  /\ dispatch'[d].at = at
                  /\ dispatch'[d].event = dispatch[d].event
                  /\ dispatch'[d].tokens = remaining
                  /\ dispatch'[d].invalid = invalid
  BY <1>3, <1>9, <1>10, ContinueEffect DEF DispatchInv
<1>12. Owed(d) = {}
  BY <1>1 DEF Owed
<1>13. \A u \in User, t \in Token : MayPush(d, u, t)' =>
         dispatch'[d].event = dispatch[d].event /\ <<u, t>> \in remaining
  BY <1>9, <1>11 DEF MayPush, Idle
<1>14. \A u \in User, t \in Token : MayPush(d, u, t) <=> <<u, t>> \in dispatch[d].tokens
  BY <1>1 DEF MayPush
<1>15. dispatch'[d] # Idle =>
         dispatch'[d].at # "resolve" /\ dispatch'[d].invalid \subseteq dead
  BY <1>8, <1>9, <1>11
<1>16. \A p \in pushed' : \/ p \in pushed
                        \/ \E u \in User, t \in Token :
                              /\ p = <<key, u, t>>
                              /\ MayPush(d, u, t) /\ ~MayPush(d, u, t)'
  BY <1>3, <1>5, <1>13, <1>14
<1>17. \A p \in repeated' : \/ p \in repeated
                          \/ /\ p \in pushed
                             /\ \E u \in User, t \in Token :
                                   p = <<key, u, t>> /\ MayPush(d, u, t)
  BY <1>3, <1>5, <1>14
<1>18. \A u \in User, t \in Token : MayPush(d, u, t)' => MayPush(d, u, t)
  BY <1>9, <1>13, <1>14
<1> QED
  BY <1>3, <1>11, <1>12, <1>13, <1>15, <1>16, <1>17, <1>18 DEF Advances

(* A dispatch that ends, for whatever reason, owes what it drops. *)
LEMMA EndAdvances ==
    ASSUME DispatchInv, NEW d \in Dispatch, NEW at, NEW update,
           Continue(d, at, FALSE, update),
           Owed(d) \subseteq dropped', dropped \subseteq dropped',
           UNCHANGED <<inbox, pushed, repeated>>
    PROVE  Advances(d)
<1>1. /\ dispatch' = [dispatch EXCEPT ![d] = Idle]
      /\ dispatch \in [Dispatch -> Running \union {Idle}]
  BY DEF Continue, DispatchInv, NotificationsTypeOK
<1>2. /\ dispatch' \in [Dispatch -> Running \union {Idle}]
      /\ dispatch'[d] = Idle
      /\ \A o \in Dispatch \ {d} : dispatch'[o] = dispatch[o]
  BY <1>1
<1>3. \A u, t : ~MayPush(d, u, t)'
  BY <1>2 DEF MayPush, Idle
<1> QED
  BY <1>2, <1>3 DEF Advances

(* The listener's dispatch owes what the event is for. *)
LEMMA EmitAdvances ==
    ASSUME DispatchInv, NEW d \in Dispatch, NEW e \in Event, Emit(d, e),
           UNCHANGED <<inbox, pushed, repeated, dropped>>
    PROVE  Advances(d) /\ {KeyOf(e)} \X Audience(e) \subseteq ToldOrOwed'
<1> DEFINE new == [at |-> "resolve", event |-> e, todo |-> {}, created |-> {},
                   tokens |-> {}, invalid |-> {}]
<1>1. new \in Running /\ new.at = "resolve" /\ new.event = e /\ new.created = {} /\ new.invalid = {}
  BY DEF Running
<1>2. /\ dispatch[d] = Idle
      /\ dispatch' = [dispatch EXCEPT ![d] = new]
      /\ dispatch \in [Dispatch -> Running \union {Idle}]
  BY DEF Emit, DispatchInv, NotificationsTypeOK
<1> HIDE DEF new
<1>3. /\ dispatch' \in [Dispatch -> Running \union {Idle}]
      /\ dispatch'[d] = new
      /\ \A o \in Dispatch \ {d} : dispatch'[o] = dispatch[o]
  BY <1>1, <1>2
<1>4. Owed(d) = {}
  BY <1>2 DEF Owed, Idle
<1>5. Owed(d)' = {KeyOf(e)} \X Audience(e)
  BY <1>1, <1>3 DEF Owed, KeyOf
<1>6. \A u, t : ~MayPush(d, u, t)'
  BY <1>1, <1>3 DEF MayPush
<1>7. {KeyOf(e)} \X Audience(e) \subseteq ToldOrOwed'
  BY <1>5 DEF ToldOrOwed
<1> QED
  BY <1>1, <1>3, <1>4, <1>6, <1>7 DEF Advances

-----------------------------------------------------------------------------
(* What every step keeps of the dispatches. *)
Kept == /\ ToldOrOwed \subseteq ToldOrOwed'
        /\ PushedOnce' /\ OnePusher' /\ DispatchesSound'
        /\ dispatch' \in [Dispatch -> Running \union {Idle}]

(* A step of one dispatch, whichever it is, keeps it. *)
LEMMA AdvancesKeeps ==
    ASSUME FieldIInv, NEW d \in Dispatch, Advances(d), UNCHANGED dead
    PROVE  Kept
<1>1. pushed \subseteq Key \X User \X Token /\ PushedOnce /\ OnePusher /\ DispatchesSound
  BY DEF FieldIInv, TypeOK, NotificationsTypeOK
<1>2. DispatchesSound'
  BY <1>1 DEF DispatchesSound, Advances
<1> QED
  BY <1>1, <1>2, AdvancesOwes, AdvancesPushesOnce DEF Kept, Advances

(* And so does what users do with their devices and inbox. *)
LEMMA OthersKeep ==
    ASSUME FieldIInv, UNCHANGED <<inbox, dispatch, pushed, repeated, dropped>>,
           dead \subseteq dead'
    PROVE  Kept
<1>1. /\ PushedOnce /\ OnePusher /\ DispatchesSound
      /\ dispatch \in [Dispatch -> Running \union {Idle}]
  BY DEF FieldIInv, TypeOK, NotificationsTypeOK
<1>2. ToldOrOwed' = ToldOrOwed
  BY DEF ToldOrOwed, Owed
<1>3. PushedOnce'
  BY <1>1 DEF PushedOnce
<1>4. OnePusher'
  <2>1. \A d, u, t : MayPush(d, u, t)' <=> MayPush(d, u, t)
    BY DEF MayPush
  <2> QED BY <1>1, <2>1 DEF OnePusher, KeyOf
<1>5. DispatchesSound'
  BY <1>1 DEF DispatchesSound
<1> QED
  BY <1>1, <1>2, <1>3, <1>4, <1>5 DEF Kept

(* A crash drops what is owed, and nobody is left to push. *)
LEMMA CrashKeeps ==
    ASSUME FieldIInv, Crash
    PROVE  Kept
<1>1. PushedOnce
  BY DEF FieldIInv
<1>2. /\ dropped' = dropped \union UNION {Owed(d) : d \in Dispatch}
      /\ dispatch' = [d \in Dispatch |-> Idle]
      /\ UNCHANGED <<inbox, pushed, repeated>>
  BY DEF Crash
<1>3. ToldOrOwed \subseteq ToldOrOwed'
  BY <1>2 DEF ToldOrOwed
<1>4. PushedOnce'
  BY <1>1, <1>2 DEF PushedOnce
<1>5. OnePusher'
  BY <1>2 DEF OnePusher, MayPush, Idle
<1>6. DispatchesSound' /\ dispatch' \in [Dispatch -> Running \union {Idle}]
  BY <1>2 DEF DispatchesSound
<1> QED
  BY <1>3, <1>4, <1>5, <1>6 DEF Kept

(* The step of a dispatch, in all its forms. *)
LEMMA DispatchKeeps ==
    ASSUME FieldIInv, NEW d \in Dispatch,
           \/ Resolve(d)
           \/ \E u \in User : Persist(d, u) \/ PersistFails(d, u)
           \/ TokensForUsers(d)
           \/ Multicast(d)
           \/ DeactivateTokens(d)
           \/ DispatchFails(d)
    PROVE  Kept
<1>1. DispatchInv
  BY DEF FieldIInv, TypeOK, DispatchInv
<1>2. CASE Resolve(d)
  BY <1>1, <1>2, ResolveAdvances, AdvancesKeeps DEF Resolve
<1>3. ASSUME NEW u \in User, Persist(d, u)
      PROVE  Kept
  BY <1>1, <1>3, PersistAdvances, AdvancesKeeps DEF Persist
<1>4. ASSUME NEW u \in User, PersistFails(d, u)
      PROVE  Kept
  BY <1>1, <1>4, PersistFailsAdvances, AdvancesKeeps DEF PersistFails
<1>5. CASE TokensForUsers(d)
  BY <1>1, <1>5, TokensAdvances, AdvancesKeeps DEF TokensForUsers
<1>6. CASE Multicast(d)
  BY <1>1, <1>6, MulticastAdvances, AdvancesKeeps DEF Multicast, Send
<1>7. CASE DeactivateTokens(d)
  <2>1. Owed(d) = {}
    BY <1>7 DEF DeactivateTokens, Owed
  <2>2. Advances(d)
    BY <1>1, <1>7, <2>1, EndAdvances DEF DeactivateTokens
  <2> QED BY <1>7, <2>2, AdvancesKeeps DEF DeactivateTokens
<1>8. CASE DispatchFails(d)
  <2>1. Advances(d)
    BY <1>1, <1>8, EndAdvances DEF DispatchFails
  <2> QED BY <1>8, <2>1, AdvancesKeeps DEF DispatchFails
<1> QED
  BY <1>2, <1>3, <1>4, <1>5, <1>6, <1>7, <1>8

-----------------------------------------------------------------------------
(* Keys are keys, and what is owed is owed to users. *)
LEMMA OwedTyped ==
    ASSUME NotificationsTypeOK, NEW d \in Dispatch
    PROVE  /\ dispatch[d] \in Running => /\ KeyOf(dispatch[d].event) \in Key
                                        /\ dispatch[d].tokens \subseteq User \X Token
           /\ Owed(d) \subseteq Key \X User
<1>1. dispatch[d] \in Running => /\ dispatch[d].event \in Event
                                 /\ KeyOf(dispatch[d].event) \in Key
                                 /\ dispatch[d].todo \subseteq User
                                 /\ dispatch[d].tokens \subseteq User \X Token
  BY DEF Running, KeyOf, Key, Event
<1>2. CASE dispatch[d].at = "resolve"
  <2>1. Audience(dispatch[d].event) \subseteq User
    BY <1>1, <1>2, UnderWay, AudienceIsUsers
  <2> QED BY <1>1, <1>2, <2>1, UnderWay DEF Owed
<1>3. CASE dispatch[d].at = "rows"
  BY <1>1, <1>3, UnderWay DEF Owed
<1>4. CASE dispatch[d].at \notin {"resolve", "rows"}
  BY <1>1, <1>4 DEF Owed
<1> QED BY <1>1, <1>2, <1>3, <1>4

(* The rows, pushes and devices. *)
TablesTyped ==
    /\ inbox \subseteq Key \X User
    /\ read \subseteq inbox
    /\ device \in [Token -> Device]
    /\ pushed \subseteq Key \X User \X Token
    /\ repeated \subseteq pushed
    /\ dropped \subseteq Key \X User
    /\ dead \subseteq Token
    /\ left \subseteq Token

(* A dispatch writes rows for users, and switches off dead tokens only. *)
LEMMA DispatchTyped ==
    ASSUME FieldIInv, NEW d \in Dispatch,
           \/ Resolve(d)
           \/ \E u \in User : Persist(d, u) \/ PersistFails(d, u)
           \/ TokensForUsers(d)
           \/ Multicast(d)
           \/ DeactivateTokens(d)
           \/ DispatchFails(d)
    PROVE  TablesTyped' /\ SilentForAReason'
<1>1. /\ NotificationsTypeOK /\ TablesTyped /\ SilentForAReason /\ DispatchesSound
  BY DEF FieldIInv, TypeOK, NotificationsTypeOK, TablesTyped
<1>2. CASE UNCHANGED <<inbox, read, device, pushed, repeated, dropped, dead, left>>
  BY <1>1, <1>2 DEF TablesTyped, SilentForAReason
<1>3. ASSUME NEW u \in User, Persist(d, u)
      PROVE  TablesTyped' /\ SilentForAReason'
  <2>1. <<KeyOf(dispatch[d].event), u>> \in Key \X User
    BY <1>1, <1>3, OwedTyped, UnderWay DEF Persist
  <2> QED BY <1>1, <1>3, <2>1 DEF Persist, TablesTyped, SilentForAReason
<1>4. ASSUME NEW u \in User, PersistFails(d, u)
      PROVE  TablesTyped' /\ SilentForAReason'
  <2>1. <<KeyOf(dispatch[d].event), u>> \in Key \X User
    BY <1>1, <1>4, OwedTyped, UnderWay DEF PersistFails
  <2> QED BY <1>1, <1>4, <2>1 DEF PersistFails, TablesTyped, SilentForAReason
<1>5. CASE Multicast(d)
  <2> DEFINE key == KeyOf(dispatch[d].event)
  <2>1. key \in Key /\ dispatch[d].tokens \subseteq User \X Token
    BY <1>1, <1>5, OwedTyped, UnderWay DEF Multicast
  <2> HIDE DEF key
  <2>2. PICK chunk \in SUBSET dispatch[d].tokens :
          \E accepted \in SUBSET chunk : \E throws \in BOOLEAN : Send(d, chunk, accepted, throws)
    BY <1>5 DEF Multicast
  <2>3. PICK accepted \in SUBSET chunk :
          /\ pushed' = pushed \union {<<key, c[1], c[2]>> : c \in accepted}
          /\ repeated' = repeated \union (pushed \cap {<<key, c[1], c[2]>> : c \in accepted})
          /\ UNCHANGED <<inbox, read, device, dropped, dead, left>>
    BY <2>2 DEF Send, key
  <2>4. {<<key, c[1], c[2]>> : c \in accepted} \subseteq Key \X User \X Token
    BY <2>1
  <2> QED BY <1>1, <2>3, <2>4 DEF TablesTyped, SilentForAReason
<1>6. CASE DeactivateTokens(d)
  <2>1. dispatch[d] # Idle /\ dispatch[d].invalid \subseteq dead
    BY <1>1, <1>6, UnderWay DEF DeactivateTokens, DispatchesSound
  <2>2. \A t \in Token : [device[t] EXCEPT !.active = FALSE] \in Device
    BY <1>1 DEF TablesTyped, Device
  <2>3. /\ device' = [t \in Token |-> IF t \in dispatch[d].invalid
                                     THEN [device[t] EXCEPT !.active = FALSE] ELSE device[t]]
        /\ UNCHANGED <<inbox, read, pushed, repeated, dropped, dead, left>>
    BY <1>6 DEF DeactivateTokens
  <2>4. TablesTyped'
    BY <1>1, <2>2, <2>3 DEF TablesTyped
  <2>5. \A t \in Token : t \notin dead => device'[t] = device[t]
    BY <2>1, <2>3
  <2>6. SilentForAReason'
    BY <1>1, <2>3, <2>5 DEF SilentForAReason
  <2> QED BY <2>4, <2>6
<1>7. CASE DispatchFails(d)
  BY <1>1, <1>7, OwedTyped DEF DispatchFails, TablesTyped, SilentForAReason
<1> QED
  BY <1>2, <1>3, <1>4, <1>5, <1>6, <1>7 DEF Resolve, TokensForUsers

(* What users do with devices and inbox. *)
LEMMA UsersTyped ==
    ASSUME FieldIInv,
           \/ \E u \in Holder, t \in Token : RegisterDevice(u, t) \/ UnregisterDevice(u, t)
           \/ \E t \in Token : Uninstall(t)
           \/ \E u \in Reader : MarkAllRead(u) \/ \E k \in Key : MarkRead(k, u)
    PROVE  TablesTyped' /\ SilentForAReason' /\ Kept
<1>1. TablesTyped /\ SilentForAReason
  BY DEF FieldIInv, TypeOK, NotificationsTypeOK, TablesTyped
<1>2. ASSUME NEW u \in Holder, NEW t \in Token, RegisterDevice(u, t)
      PROVE  TablesTyped' /\ SilentForAReason'
  <2>1. [user |-> u, active |-> TRUE] \in Device
    BY NotificationsAssumption DEF Device
  <2> QED
    BY <1>1, <1>2, <2>1 DEF RegisterDevice, TablesTyped, SilentForAReason
<1>3. ASSUME NEW u \in Holder, NEW t \in Token, UnregisterDevice(u, t)
      PROVE  TablesTyped' /\ SilentForAReason'
  <2>1. [device[t] EXCEPT !.active = FALSE] \in Device
    BY <1>1 DEF TablesTyped, Device
  <2>2. device' = [device EXCEPT ![t] = [device[t] EXCEPT !.active = FALSE]]
    BY <1>3 DEF UnregisterDevice
  <2>3. device' \in [Token -> Device] /\ \A s \in Token \ {t} : device'[s] = device[s]
    BY <1>1, <2>1, <2>2 DEF TablesTyped
  <2> QED
    BY <1>1, <1>3, <2>3 DEF UnregisterDevice, TablesTyped, SilentForAReason
<1>4. ASSUME NEW t \in Token, Uninstall(t)
      PROVE  TablesTyped' /\ SilentForAReason'
  BY <1>1, <1>4 DEF Uninstall, TablesTyped, SilentForAReason
<1>5. ASSUME NEW u \in Reader, MarkAllRead(u) \/ \E k \in Key : MarkRead(k, u)
      PROVE  TablesTyped' /\ SilentForAReason'
  BY <1>1, <1>5 DEF MarkAllRead, MarkRead, TablesTyped, SilentForAReason
<1>6. Kept
  BY OthersKeep DEF RegisterDevice, UnregisterDevice, Uninstall, MarkAllRead, MarkRead
<1> QED
  BY <1>2, <1>3, <1>4, <1>5, <1>6

LEMMA NotificationsStep ==
    ASSUME FieldIInv, NotificationsNext
    PROVE  NotificationsTypeOK' /\ SilentForAReason' /\ Kept
<1>1. CASE Crash
  <2>1. NotificationsTypeOK /\ TablesTyped /\ SilentForAReason
    BY DEF FieldIInv, TypeOK, NotificationsTypeOK, TablesTyped
  <2>2. UNION {Owed(d) : d \in Dispatch} \subseteq Key \X User
    BY <2>1, OwedTyped
  <2>3. TablesTyped' /\ SilentForAReason'
    BY <1>1, <2>1, <2>2 DEF Crash, TablesTyped, SilentForAReason
  <2> QED BY <1>1, <2>3, CrashKeeps DEF Kept, NotificationsTypeOK, TablesTyped
<1>2. CASE \E d \in Dispatch :
             \/ Resolve(d)
             \/ \E u \in User : Persist(d, u) \/ PersistFails(d, u)
             \/ TokensForUsers(d)
             \/ Multicast(d)
             \/ DeactivateTokens(d)
             \/ DispatchFails(d)
  BY <1>2, DispatchKeeps, DispatchTyped DEF Kept, NotificationsTypeOK, TablesTyped
<1>3. CASE \/ \E u \in Holder, t \in Token : RegisterDevice(u, t) \/ UnregisterDevice(u, t)
           \/ \E t \in Token : Uninstall(t)
           \/ \E u \in Reader : MarkAllRead(u) \/ \E k \in Key : MarkRead(k, u)
  BY <1>3, UsersTyped DEF Kept, NotificationsTypeOK, TablesTyped
<1> QED
  BY <1>1, <1>2, <1>3 DEF NotificationsNext

-----------------------------------------------------------------------------
(* What was told or owed stays so, and with it what is told of a report. *)
LEMMA ToldStays ==
    ASSUME NEW r \in Entity, Told(r), ToldOrOwed \subseteq ToldOrOwed', report'[r] = report[r]
    PROVE  Told(r)'
BY DEF Told

(* A handler that emits no event, or one that a dispatch takes. *)
LEMMA HandlerKeeps ==
    ASSUME FieldIInv, UNCHANGED <<inbox, read, device, pushed, repeated, dropped, dead, left>>,
           UNCHANGED dispatch \/ \E d \in Dispatch, e \in Event : Emit(d, e)
    PROVE  Kept /\ NotificationsTypeOK' /\ SilentForAReason'
<1>1. DispatchInv
  BY DEF FieldIInv, TypeOK, DispatchInv
<1>2. Kept
  <2>1. CASE UNCHANGED dispatch
    BY <2>1, OthersKeep
  <2>2. ASSUME NEW d \in Dispatch, NEW e \in Event, Emit(d, e)
        PROVE  Kept
    BY <1>1, <2>2, EmitAdvances, AdvancesKeeps
  <2> QED BY <2>1, <2>2
<1> QED
  BY <1>2 DEF Kept, FieldIInv, TypeOK, NotificationsTypeOK, SilentForAReason

(* What an event of a report's row is for. *)
LEMMA EventTells ==
    ASSUME DispatchInv, NEW d \in Dispatch, NEW r \in Entity, NEW row \in Report,
           NEW type \in EventType, NEW actor \in User,
           Emit(d, EventAbout(type, r, row, actor)),
           UNCHANGED <<inbox, pushed, repeated, dropped>>
    PROVE  /\ EventAbout(type, r, row, actor) \in Event
           /\ type = "INCIDENT_RESOLVED" =>
                {<<type, r>>} \X ({row.reporter} \ {actor}) \subseteq ToldOrOwed'
           /\ type = "INCIDENT_ESCALATED" =>
                {<<type, r>>} \X (LgaOfficers(row.ward) \ {actor}) \subseteq ToldOrOwed'
           /\ type = "INCIDENT_REPORTED" =>
                {<<type, r>>} \X (WardOfficers(row.ward) \ {actor}) \subseteq ToldOrOwed'
<1> DEFINE e == EventAbout(type, r, row, actor)
<1>1. /\ e \in Event
      /\ e.type = type /\ e.entity = r /\ e.actor = actor
      /\ e.subject = row.reporter /\ e.ward = row.ward
  BY DEF EventAbout, Event, Report
<1> HIDE DEF e
<1>2. KeyOf(e) = <<type, r>>
  BY <1>1 DEF KeyOf
<1>3. {<<type, r>>} \X Audience(e) \subseteq ToldOrOwed'
  BY <1>1, <1>2, EmitAdvances DEF e
<1>4. /\ type = "INCIDENT_RESOLVED" => Audience(e) = {row.reporter} \ {actor}
      /\ type = "INCIDENT_ESCALATED" => Audience(e) = LgaOfficers(row.ward) \ {actor}
      /\ type = "INCIDENT_REPORTED" => WardOfficers(row.ward) \ {actor} \subseteq Audience(e)
  BY <1>1 DEF Audience, EventType
<1> QED
  BY <1>1, <1>3, <1>4 DEF e

LEMMA CreateKeeps ==
    ASSUME FieldIInv, NEW u \in User, NEW r \in Entity,
           NEW incident \in BOOLEAN, NEW urgent \in BOOLEAN, NEW ward \in Ward \union {None},
           Create(u, r, incident, urgent, ward)
    PROVE  FieldIInv'
<1> DEFINE escalated == WardScoped(u) /\ incident
           row == [status    |-> IF escalated THEN "ESCALATED" ELSE "OPEN",
                   incident  |-> incident,
                   urgent    |-> urgent,
                   ward      |-> ward,
                   reporter  |-> u,
                   handledBy |-> IF escalated THEN u ELSE None]
           type == IF escalated THEN "INCIDENT_ESCALATED" ELSE "INCIDENT_REPORTED"
<1>1. /\ DispatchInv /\ ReportsAreTold
      /\ report \in [Entity -> Report \union {NoReport}]
  BY DEF FieldIInv, TypeOK, DispatchInv
<1>2. row \in Report /\ type \in EventType
  BY DEF Report, ReportStatus, EventType
<1>3. /\ row.incident = incident /\ row.reporter = u /\ row.ward = ward
      /\ row.status # "RESOLVED"
      /\ row.status = "ESCALATED" => escalated
      /\ escalated => row.handledBy = u
  OBVIOUS
<1>4. /\ report' = [report EXCEPT ![r] = row]
      /\ UNCHANGED <<inbox, read, device, pushed, repeated, dropped, dead, left>>
      /\ incident => \E d \in Dispatch : Emit(d, EventAbout(type, r, row, u))
      /\ ~incident => UNCHANGED dispatch
  BY DEF Create
<1>5. /\ escalated => incident /\ type = "INCIDENT_ESCALATED"
      /\ ~escalated => type = "INCIDENT_REPORTED"
      /\ incident /\ ~WardScoped(u) => ~escalated
      /\ EventAbout(type, r, row, u) \in Event
  BY <1>2 DEF EventAbout, Event, Report
<1> HIDE DEF row, type, escalated
<1>6. Kept /\ NotificationsTypeOK' /\ SilentForAReason'
  BY <1>4, <1>5, HandlerKeeps
<1>7. Told(r)'
  <2>1. report'[r] = row
    BY <1>1, <1>4
  <2>2. CASE incident
    <3>1. PICK d \in Dispatch : Emit(d, EventAbout(type, r, row, u))
      BY <1>4, <2>2
    <3>2. /\ type = "INCIDENT_ESCALATED" =>
               {<<type, r>>} \X (LgaOfficers(row.ward) \ {u}) \subseteq ToldOrOwed'
          /\ type = "INCIDENT_REPORTED" =>
               {<<type, r>>} \X (WardOfficers(row.ward) \ {u}) \subseteq ToldOrOwed'
      BY <1>1, <1>2, <1>4, <3>1, EventTells
    <3> QED BY <1>3, <1>5, <2>1, <3>2 DEF Told
  <2>3. CASE ~incident
    BY <1>3, <1>5, <2>1, <2>3 DEF Told
  <2> QED BY <2>2, <2>3
<1>8. ASSUME NEW s \in Entity \ {r}
      PROVE  Told(s)'
  BY <1>1, <1>4, <1>6, ToldStays DEF ReportsAreTold, Kept
<1>9. ReportsAreTold'
  BY <1>7, <1>8 DEF ReportsAreTold
<1>10. report' \in [Entity -> Report \union {NoReport}]
  BY <1>1, <1>2, <1>4
<1> QED
  BY <1>6, <1>9, <1>10 DEF FieldIInv, TypeOK, Kept

LEMMA UpdateStatusKeeps ==
    ASSUME FieldIInv, NEW u \in User, NEW r \in Entity, NEW status \in ReportStatus,
           UpdateStatus(u, r, status)
    PROVE  FieldIInv'
<1> DEFINE old  == report[r]
           row  == [old EXCEPT !.status = status, !.handledBy = u]
           type == IF status = "RESOLVED" THEN "INCIDENT_RESOLVED" ELSE "INCIDENT_ESCALATED"
<1>1. /\ DispatchInv /\ ReportsAreTold
      /\ report \in [Entity -> Report \union {NoReport}]
  BY DEF FieldIInv, TypeOK, DispatchInv
<1>2. old \in Report /\ type \in EventType
  BY <1>1 DEF UpdateStatus, EventType
<1>3. /\ row \in Report
      /\ row.status = status /\ row.handledBy = u
      /\ row.incident = old.incident /\ row.reporter = old.reporter /\ row.ward = old.ward
  BY <1>2 DEF Report
<1>4. /\ report' = [report EXCEPT ![r] = row]
      /\ UNCHANGED <<inbox, read, device, pushed, repeated, dropped, dead, left>>
      /\ status # "OPEN" => \E d \in Dispatch : Emit(d, EventAbout(type, r, old, u))
      /\ status = "OPEN" => UNCHANGED dispatch
      /\ old # NoReport
  BY <1>1 DEF UpdateStatus
<1>5. /\ status = "RESOLVED" => type = "INCIDENT_RESOLVED"
      /\ status = "ESCALATED" => type = "INCIDENT_ESCALATED"
      /\ EventAbout(type, r, old, u) \in Event
  BY <1>2 DEF EventAbout, Event, Report
<1> HIDE DEF row, type
<1>6. Kept /\ NotificationsTypeOK' /\ SilentForAReason'
  BY <1>4, <1>5, HandlerKeeps
<1>7. Told(r)'
  <2>1. report'[r] = row
    BY <1>1, <1>4
  <2>2. old.incident /\ ~WardScoped(old.reporter) =>
          {<<"INCIDENT_REPORTED", r>>} \X (WardOfficers(old.ward) \ {old.reporter})
              \subseteq ToldOrOwed'
    BY <1>1, <1>4, <1>6 DEF ReportsAreTold, Told, Kept
  <2>3. ASSUME status # "OPEN"
        PROVE  /\ type = "INCIDENT_RESOLVED" =>
                    {<<type, r>>} \X ({row.reporter} \ {u}) \subseteq ToldOrOwed'
               /\ type = "INCIDENT_ESCALATED" =>
                    {<<type, r>>} \X (LgaOfficers(row.ward) \ {u}) \subseteq ToldOrOwed'
    <3>1. PICK d \in Dispatch : Emit(d, EventAbout(type, r, old, u))
      BY <1>4, <2>3
    <3> HIDE DEF old
    <3> QED BY <1>1, <1>2, <1>3, <1>4, <3>1, EventTells
  <2> HIDE DEF old
  <2> QED BY <1>3, <1>5, <2>1, <2>2, <2>3 DEF Told
<1>8. ASSUME NEW s \in Entity \ {r}
      PROVE  Told(s)'
  BY <1>1, <1>4, <1>6, ToldStays DEF ReportsAreTold, Kept
<1>9. ReportsAreTold'
  BY <1>7, <1>8 DEF ReportsAreTold
<1>10. report' \in [Entity -> Report \union {NoReport}]
  BY <1>1, <1>3, <1>4
<1> QED
  BY <1>6, <1>9, <1>10 DEF FieldIInv, TypeOK, Kept

(* The invariant is inductive. *)
THEOREM FieldInvariance == Spec => []FieldIInv
<1>1. Init => FieldIInv
  <2> SUFFICES ASSUME Init
               PROVE  FieldIInv
    OBVIOUS
  <2>1. NotificationsTypeOK
    BY DEF Init, NotificationsInit, NotificationsTypeOK, Device
  <2>2. TypeOK
    BY <2>1 DEF Init, TypeOK
  <2>3. ReportsAreTold
    BY DEF Init, ReportsAreTold, Told
  <2>4. PushedOnce /\ SilentForAReason
    BY DEF Init, NotificationsInit, PushedOnce, SilentForAReason
  <2>5. OnePusher /\ DispatchesSound
    BY DEF Init, NotificationsInit, OnePusher, DispatchesSound, MayPush, Idle
  <2> QED BY <2>2, <2>3, <2>4, <2>5 DEF FieldIInv
<1>2. FieldIInv /\ [Next]_vars => FieldIInv'
  <2> SUFFICES ASSUME FieldIInv, [Next]_vars
               PROVE  FieldIInv'
    OBVIOUS
  <2>1. ASSUME UNCHANGED report,
               NotificationsTypeOK' /\ SilentForAReason' /\ Kept
        PROVE  FieldIInv'
    <3>1. ASSUME NEW r \in Entity
          PROVE  Told(r)'
      BY <2>1, ToldStays DEF FieldIInv, ReportsAreTold, Kept
    <3>2. ReportsAreTold'
      BY <3>1 DEF ReportsAreTold
    <3> QED BY <2>1, <3>2 DEF FieldIInv, TypeOK, Kept
  <2>2. CASE NotificationsNext /\ UNCHANGED report
    BY <2>1, <2>2, NotificationsStep
  <2>3. ASSUME NEW u \in User, NEW r \in Entity,
               NEW incident \in BOOLEAN, NEW urgent \in BOOLEAN, NEW ward \in Ward \union {None},
               Create(u, r, incident, urgent, ward)
        PROVE  FieldIInv'
    BY <2>3, CreateKeeps
  <2>4. ASSUME NEW u \in User, NEW r \in Entity, NEW status \in ReportStatus,
               UpdateStatus(u, r, status)
        PROVE  FieldIInv'
    BY <2>4, UpdateStatusKeeps
  <2>5. CASE UNCHANGED vars
    BY <2>1, <2>5, HandlerKeeps DEF vars, notificationVars
  <2> QED BY <2>2, <2>3, <2>4, <2>5 DEF Next
<1> QED BY <1>1, <1>2, PTL DEF Spec

(* The tables hold reports, rows, tokens and dispatches of their kinds. *)
THEOREM TablesTypeCorrect == Spec => []TypeOK
<1>1. FieldIInv => TypeOK
  BY DEF FieldIInv
<1> QED BY <1>1, FieldInvariance, PTL

(* Whoever is to be told of a report has the row, is owed it by a dispatch *)
(* under way, or lost it to an error or a crash.                           *)
THEOREM AllReportsAreTold == Spec => []ReportsAreTold
<1>1. FieldIInv => ReportsAreTold
  BY DEF FieldIInv
<1> QED BY <1>1, FieldInvariance, PTL

(* No device rings twice for one event, and each push is in the inbox. *)
THEOREM AllPushedOnce == Spec => []PushedOnce
<1>1. FieldIInv => PushedOnce
  BY DEF FieldIInv
<1> QED BY <1>1, FieldInvariance, PTL

(* Of the dispatches that tell of an event, one may push to a user. *)
THEOREM AllOnePusher == Spec => []OnePusher
<1>1. FieldIInv => OnePusher
  BY DEF FieldIInv
<1> QED BY <1>1, FieldInvariance, PTL

(* A device is silent by its holder's wish, or because its app is gone. *)
THEOREM AllSilentForAReason == Spec => []SilentForAReason
<1>1. FieldIInv => SilentForAReason
  BY DEF FieldIInv
<1> QED BY <1>1, FieldInvariance, PTL

(* No step takes a notification out of those that are read. *)
THEOREM AllReadStaysRead == Spec => ReadStaysRead
<1>1. ASSUME NEW d \in Dispatch,
             \/ Resolve(d)
             \/ \E u \in User : Persist(d, u) \/ PersistFails(d, u)
             \/ TokensForUsers(d)
             \/ DeactivateTokens(d)
             \/ DispatchFails(d)
      PROVE  UNCHANGED read
  BY <1>1 DEF Resolve, Persist, PersistFails, TokensForUsers, DeactivateTokens, DispatchFails
<1>2. ASSUME NEW d \in Dispatch, Multicast(d)
      PROVE  UNCHANGED read
  BY <1>2 DEF Multicast, Send
<1>3. ASSUME \/ \E u \in Holder, t \in Token : RegisterDevice(u, t) \/ UnregisterDevice(u, t)
             \/ \E t \in Token : Uninstall(t)
             \/ Crash
      PROVE  UNCHANGED read
  BY <1>3 DEF RegisterDevice, UnregisterDevice, Uninstall, Crash
<1>4. ASSUME NEW u \in Reader, MarkAllRead(u) \/ \E k \in Key : MarkRead(k, u)
      PROVE  read \subseteq read'
  BY <1>4 DEF MarkAllRead, MarkRead
<1>5. ASSUME NEW u \in User, NEW r \in Entity,
             \/ \E incident, urgent \in BOOLEAN, ward \in Ward \union {None} :
                   Create(u, r, incident, urgent, ward)
             \/ \E status \in ReportStatus : UpdateStatus(u, r, status)
      PROVE  UNCHANGED read
  BY <1>5 DEF Create, UpdateStatus
<1>6. NotificationsNext => read \subseteq read'
  BY <1>1, <1>2, <1>3, <1>4 DEF NotificationsNext
<1>7. Next => read \subseteq read'
  BY <1>5, <1>6 DEF Next
<1>8. [Next]_vars => [read \subseteq read']_vars
  BY <1>7
<1> QED BY <1>8, PTL DEF Spec, ReadStaysRead
=============================================================================
