------------------------ MODULE CollationScreensProofs ------------------------
(***************************************************************************)
(* What the officers' screens rest on, for every hierarchy and every set   *)
(* of figures: photos, reasons, and that a ward in which every unit is     *)
(* approved is on the screen of somebody who can move it on.               *)
(***************************************************************************)
EXTENDS CollationBrowse, CollationProofs, SumTheorems

(* The statuses of the officers' screens, together. *)
ScreenInv == SubmittedHasEc8a /\ ReasonExactlyWhileReturned /\ WardForwarded

(* Where no row of a ward or its units changes, nothing is forwarded. *)
LEMMA ForwardedFrame ==
    ASSUME WardForwarded, NEW w \in Wards,
           rows'[w].status = rows[w].status,
           \A p \in Children(w) : rows'[p].status = "APPROVED" => rows[p].status = "APPROVED"
    PROVE  ApprovedChildren(rows', w) # {} =>
              rows'[w].status \in {"SUBMITTED", "APPROVED", "REJECTED"}
BY DEF WardForwarded, ApprovedChildren

LEMMA UpsertScreen ==
    ASSUME TypeOK, ScreenInv, NEW u \in Unit, NEW fig \in Figures, NEW photo \in BOOLEAN,
           UpsertResult(u, fig, photo)
    PROVE  ScreenInv'
<1>1. /\ \A v \in Unit : v # u => rows'[v] = rows[v]
      /\ rows'[u].status = "DRAFT" /\ rows'[u].reason = FALSE
      /\ u \notin Wards
  BY UpsertEffect
<1>2. SubmittedHasEc8a'
  BY <1>1, UnitClasses DEF ScreenInv, SubmittedHasEc8a
<1>3. ReasonExactlyWhileReturned'
  BY <1>1 DEF ScreenInv, ReasonExactlyWhileReturned
<1>4. \A w \in Wards : /\ rows'[w] = rows[w]
                       /\ \A p \in Children(w) : rows'[p].status = "APPROVED" =>
                                                    rows[p].status = "APPROVED"
  BY <1>1, Tree, UnitClasses
<1>5. WardForwarded'
  BY <1>4, ForwardedFrame DEF ScreenInv, WardForwarded
<1> QED BY <1>2, <1>3, <1>5 DEF ScreenInv

LEMMA AttachScreen ==
    ASSUME TypeOK, ScreenInv, NEW u \in Unit, AttachEc8aPhoto(u)
    PROVE  ScreenInv'
<1>1. /\ \A v \in Unit : v # u => rows'[v] = rows[v]
      /\ rows'[u].status = rows[u].status /\ rows'[u].reason = rows[u].reason
      /\ rows'[u].photo
  <2>1. /\ \A v \in Unit : v # u => rows'[v] = rows[v]
        /\ rows'[u] = [rows[u] EXCEPT !.photo = TRUE]
    BY AttachEffect
  <2>2. rows[u] \in Row
    BY DEF TypeOK
  <2> QED BY <2>1, <2>2 DEF Row
<1>2. SubmittedHasEc8a'
  BY <1>1, UnitClasses DEF ScreenInv, SubmittedHasEc8a
<1>3. ReasonExactlyWhileReturned'
  BY <1>1 DEF ScreenInv, ReasonExactlyWhileReturned
<1>4. \A v \in Unit : rows'[v].status = rows[v].status
  BY <1>1
<1>5. WardForwarded'
  BY <1>4, Tree, UnitClasses, ForwardedFrame DEF ScreenInv, WardForwarded
<1> QED BY <1>2, <1>3, <1>5 DEF ScreenInv

LEMMA SubmitScreen ==
    ASSUME TypeOK, ScreenInv, NEW u \in Unit, SubmitResult(u)
    PROVE  ScreenInv'
<1>1. /\ \A v \in Unit : v # u => rows'[v] = rows[v]
      /\ rows'[u].status = "SUBMITTED" /\ rows'[u].reason = FALSE
      /\ rows'[u].photo = rows[u].photo
      /\ u \notin Wards
      /\ u \in PollingUnits => rows[u].photo
  <2>1. /\ \A v \in Unit : v # u => rows'[v] = rows[v]
        /\ rows'[u] = [rows[u] EXCEPT !.status = "SUBMITTED", !.reason = FALSE]
        /\ u \notin Wards
        /\ u \in PollingUnits => rows[u].photo
    BY SubmitEffect
  <2>2. rows[u] \in Row
    BY DEF TypeOK
  <2> QED BY <2>1, <2>2 DEF Row
<1>2. SubmittedHasEc8a'
  BY <1>1, UnitClasses DEF ScreenInv, SubmittedHasEc8a
<1>3. ReasonExactlyWhileReturned'
  BY <1>1 DEF ScreenInv, ReasonExactlyWhileReturned
<1>4. \A w \in Wards : /\ rows'[w] = rows[w]
                       /\ \A p \in Children(w) : rows'[p].status = "APPROVED" =>
                                                    rows[p].status = "APPROVED"
  BY <1>1, Tree, UnitClasses
<1>5. WardForwarded'
  BY <1>4, ForwardedFrame DEF ScreenInv, WardForwarded
<1> QED BY <1>2, <1>3, <1>5 DEF ScreenInv

(* The rollup forwards the ward of an approved unit. *)
LEMMA ApproveScreen ==
    ASSUME TypeOK, ScreenInv, NEW c \in DOMAIN Parent, ApproveResult(c)
    PROVE  ScreenInv'
<1>1. /\ \A v \in Unit : v # c /\ v # Parent[c] => rows'[v] = rows[v]
      /\ rows[c].status = "SUBMITTED"
      /\ rows'[c].status = "APPROVED" /\ rows'[c].reason = FALSE
      /\ rows'[c].photo = rows[c].photo
      /\ rows'[Parent[c]].status = RollupStatus(Parent[c])
      /\ rows'[Parent[c]].reason = FALSE
  BY ApproveEffect
<1>2. RollupStatus(Parent[c]) # "REJECTED"
  BY DEF RollupStatus
<1>3. SubmittedHasEc8a'
  BY <1>1, Tree, UnitClasses DEF ScreenInv, SubmittedHasEc8a
<1>4. ReasonExactlyWhileReturned'
  BY <1>1, <1>2 DEF ScreenInv, ReasonExactlyWhileReturned
<1>5. WardForwarded'
  <2>1. ASSUME NEW w \in Wards, ApprovedChildren(rows', w) # {}
        PROVE  rows'[w].status \in {"SUBMITTED", "APPROVED", "REJECTED"}
    <3>1. CASE w = Parent[c]
      <4>1. RollupStatus(w) = "SUBMITTED"
        BY DEF RollupStatus, Wards
      <4> QED BY <1>1, <3>1, <4>1
    <3>2. CASE w = c
      BY <1>1, <3>2
    <3>3. CASE w # c /\ w # Parent[c]
      <4>1. rows'[w] = rows[w]
        BY <1>1, <3>3, UnitClasses
      <4>2. \A p \in Children(w) : p # c /\ p # Parent[c]
        BY <3>3, Tree
      <4>3. \A p \in Children(w) : rows'[p] = rows[p]
        BY <1>1, <4>2, Tree
      <4> QED BY <2>1, <4>1, <4>3, ForwardedFrame DEF ScreenInv
    <3> QED BY <3>1, <3>2, <3>3
  <2> QED BY <2>1 DEF WardForwarded
<1> QED BY <1>3, <1>4, <1>5 DEF ScreenInv

LEMMA ApproveAllScreen ==
    ASSUME TypeOK, ScreenInv, NEW l \in Lgas, ApproveAllLgaWardResults(l)
    PROVE  ScreenInv'
<1> DEFINE pending == {w \in Children(l) : rows[w].status = "SUBMITTED"}
<1>1. /\ \A v \in Unit : v \notin pending /\ v # l => rows'[v] = rows[v]
      /\ \A w \in pending : rows'[w] = [rows[w] EXCEPT !.status = "APPROVED"]
      /\ rows'[l].status = "APPROVED" /\ rows'[l].reason = FALSE
  BY ApproveAllEffect
<1>2. \A w \in pending : w \in Wards /\ w \in Unit /\ rows[w].status = "SUBMITTED"
  BY Tree
<1> HIDE DEF pending
<1>3. \A w \in pending : /\ rows'[w].status = "APPROVED"
                         /\ rows'[w].reason = rows[w].reason
  BY <1>1, <1>2 DEF TypeOK, Row
<1>4. \A p \in PollingUnits : rows'[p] = rows[p]
  BY <1>1, <1>2, UnitClasses
<1>5. SubmittedHasEc8a'
  BY <1>4 DEF ScreenInv, SubmittedHasEc8a
<1>6. ReasonExactlyWhileReturned'
  BY <1>1, <1>2, <1>3 DEF ScreenInv, ReasonExactlyWhileReturned
<1>7. WardForwarded'
  <2>1. ASSUME NEW w \in Wards, ApprovedChildren(rows', w) # {}
        PROVE  rows'[w].status \in {"SUBMITTED", "APPROVED", "REJECTED"}
    <3>1. CASE w \in pending
      BY <1>3, <3>1
    <3>2. CASE w \notin pending
      <4>1. rows'[w] = rows[w]
        BY <1>1, <3>2, UnitClasses
      <4>2. \A p \in Children(w) : rows'[p] = rows[p]
        BY <1>4, Tree
      <4> QED BY <2>1, <4>1, <4>2, ForwardedFrame DEF ScreenInv
    <3> QED BY <3>1, <3>2
  <2> QED BY <2>1 DEF WardForwarded
<1> QED BY <1>5, <1>6, <1>7 DEF ScreenInv

LEMMA RejectScreen ==
    ASSUME TypeOK, ScreenInv, NEW c \in DOMAIN Parent, NEW flags, RejectResult(c, flags)
    PROVE  ScreenInv'
<1>1. /\ \A v \in Unit : v # c /\ v # Parent[c] => rows'[v] = rows[v]
      /\ rows'[c].status = "REJECTED" /\ rows'[c].reason = TRUE
      /\ \/ rows'[Parent[c]] = rows[Parent[c]]
         \/ /\ c \in PollingUnits
            /\ rows[Parent[c]].status = "REJECTED"
            /\ rows'[Parent[c]].status = "REJECTED"
            /\ rows'[Parent[c]].reason = rows[Parent[c]].reason
  BY RejectEffect
<1>2. /\ \A v \in Unit : v # c => rows'[v].status = rows[v].status
      /\ \A v \in Unit : v # c => rows'[v].reason = rows[v].reason
  BY <1>1
<1>3. SubmittedHasEc8a'
  BY <1>1, Tree, UnitClasses DEF ScreenInv, SubmittedHasEc8a
<1>4. ReasonExactlyWhileReturned'
  BY <1>1, <1>2 DEF ScreenInv, ReasonExactlyWhileReturned
<1>5. WardForwarded'
  <2>1. ASSUME NEW w \in Wards, ApprovedChildren(rows', w) # {}
        PROVE  rows'[w].status \in {"SUBMITTED", "APPROVED", "REJECTED"}
    <3>1. CASE w = c
      BY <1>1, <3>1
    <3>2. CASE w # c
      <4>1. rows'[w].status = rows[w].status
        BY <1>2, <3>2, UnitClasses
      <4>2. \A p \in Children(w) : rows'[p].status = "APPROVED" => rows[p].status = "APPROVED"
        BY <1>1, <1>2, Tree
      <4> QED BY <2>1, <4>1, <4>2, ForwardedFrame DEF ScreenInv
    <3> QED BY <3>1, <3>2
  <2> QED BY <2>1 DEF WardForwarded
<1> QED BY <1>3, <1>4, <1>5 DEF ScreenInv

LEMMA ResubmitScreen ==
    ASSUME TypeOK, ScreenInv, NEW w \in Wards, ResubmitWardToLga(w)
    PROVE  ScreenInv'
<1>1. /\ \A v \in Unit : v # w => rows'[v] = rows[v]
      /\ rows'[w].status = "SUBMITTED" /\ rows'[w].reason = FALSE
  BY ResubmitEffect
<1>2. SubmittedHasEc8a'
  BY <1>1, UnitClasses DEF ScreenInv, SubmittedHasEc8a
<1>3. ReasonExactlyWhileReturned'
  BY <1>1 DEF ScreenInv, ReasonExactlyWhileReturned
<1>4. \A v \in Wards : v # w =>
         /\ rows'[v] = rows[v]
         /\ \A p \in Children(v) : rows'[p] = rows[p]
  BY <1>1, Tree, UnitClasses
<1>5. WardForwarded'
  BY <1>1, <1>4, ForwardedFrame DEF ScreenInv, WardForwarded
<1> QED BY <1>2, <1>3, <1>5 DEF ScreenInv

LEMMA ReturnFlaggedScreen ==
    ASSUME TypeOK, FlagsInWard, ScreenInv, NEW w \in Wards, ReturnLgaFlaggedPus(w)
    PROVE  ScreenInv'
<1> DEFINE toReturn == {p \in rows[w].flagged : rows[p].status \in {"APPROVED", "SUBMITTED"}}
<1>1. /\ toReturn \subseteq Children(w)
      /\ \A v \in Unit : v \notin toReturn /\ v # w => rows'[v] = rows[v]
      /\ \A p \in toReturn : rows'[p].status = "REJECTED" /\ rows'[p].reason = TRUE
      /\ rows[w].status = "REJECTED" /\ rows'[w].status = "REJECTED"
      /\ rows'[w].reason = rows[w].reason
  BY ReturnFlaggedEffect
<1> HIDE DEF toReturn
<1>2. \A p \in toReturn : p \in PollingUnits /\ p \in Unit
  BY <1>1, Tree
<1>3. SubmittedHasEc8a'
  BY <1>1, <1>2, UnitClasses DEF ScreenInv, SubmittedHasEc8a
<1>4. ReasonExactlyWhileReturned'
  BY <1>1 DEF ScreenInv, ReasonExactlyWhileReturned
<1>5. ASSUME NEW v \in Wards, v # w
      PROVE  /\ rows'[v] = rows[v]
             /\ \A p \in Children(v) : rows'[p].status = "APPROVED" => rows[p].status = "APPROVED"
  BY <1>1, <1>2, <1>5, Tree, UnitClasses
<1>6. WardForwarded'
  BY <1>1, <1>5, ForwardedFrame DEF ScreenInv, WardForwarded
<1> QED BY <1>3, <1>4, <1>6 DEF ScreenInv

LEMMA NextScreen == IInv /\ ScreenInv /\ [Next]_vars => ScreenInv'
<1> SUFFICES ASSUME IInv, ScreenInv, [Next]_vars PROVE ScreenInv'
  OBVIOUS
<1>1. TypeOK /\ FlagsInWard
  BY DEF IInv
<1>2. CASE UNCHANGED vars
  BY <1>2 DEF vars, ScreenInv, SubmittedHasEc8a, ReasonExactlyWhileReturned, WardForwarded,
              ApprovedChildren
<1>3. CASE Next
  BY <1>1, <1>3, UpsertScreen, AttachScreen, SubmitScreen, ApproveScreen, RejectScreen,
     ApproveAllScreen, ResubmitScreen, ReturnFlaggedScreen DEF Next
<1> QED BY <1>2, <1>3

LEMMA InitScreen == Init => ScreenInv
<1> SUFFICES ASSUME Init PROVE ScreenInv
  OBVIOUS
<1>1. \A u \in Unit : rows[u].status = "NONE" /\ rows[u].reason = FALSE
  BY DEF Init, Absent
<1>2. \A w \in Wards : ApprovedChildren(rows, w) = {}
  BY <1>1, Tree DEF ApprovedChildren
<1> QED BY <1>1, <1>2, UnitClasses
        DEF ScreenInv, SubmittedHasEc8a, ReasonExactlyWhileReturned, WardForwarded

LEMMA ScreenInvariance == Spec => [](IInv /\ ScreenInv)
<1>1. Init => IInv /\ ScreenInv
  BY InitIInv, InitScreen
<1>2. IInv /\ ScreenInv /\ [Next]_vars => (IInv /\ ScreenInv)'
  BY NextIInv, NextScreen
<1> QED BY <1>1, <1>2, PTL DEF Spec

-----------------------------------------------------------------------------
(* No result is submitted or approved without its EC8A form, whatever was  *)
(* returned, typed again or resubmitted in between (submitResult 996).     *)
THEOREM AllSubmittedHaveEc8a == Spec => []SubmittedHasEc8a
<1>1. ScreenInv => SubmittedHasEc8a
  BY DEF ScreenInv
<1> QED BY ScreenInvariance, <1>1, PTL

(* A row has a reason for its return exactly while it is returned.  The    *)
(* bulk approval relies on it: it does not clear the column (771-780).     *)
THEOREM AllReasonsWhileReturned == Spec => []ReasonExactlyWhileReturned
<1>1. ScreenInv => ReasonExactlyWhileReturned
  BY DEF ScreenInv
<1> QED BY ScreenInvariance, <1>1, PTL

(***************************************************************************)
(* Nobody waits for somebody who is not asked, whatever was returned,      *)
(* flagged, corrected and resubmitted: while a ward is not approved, an    *)
(* agent, its officer or the LGA officer has something to do on a screen.  *)
(***************************************************************************)
THEOREM AlwaysSomebodyIsAsked == Spec => []SomebodyIsAsked
<1>1. IInv /\ ScreenInv => SomebodyIsAsked
  BY ForwardedIsAsked DEF IInv, TypeOK, ScreenInv
<1> QED BY <1>1, ScreenInvariance, PTL

-----------------------------------------------------------------------------
(* The parties: finitely many, each with a column. *)
LEMMA Columns ==
    /\ IsFiniteSet(Party)
    /\ DOMAIN PartyColumns \in SUBSET Nat
    /\ \A c \in Party : \E i \in DOMAIN PartyColumns : PartyColumns[i] = c
    /\ Client \in Party
<1>1. DOMAIN PartyColumns = 1 .. Len(PartyColumns) /\ Len(PartyColumns) \in Nat
  BY BrowseAssumption
<1>2. IsFiniteSet(DOMAIN PartyColumns) /\ DOMAIN PartyColumns \in SUBSET Nat
  <2>1. IsFiniteSet(1 .. Len(PartyColumns))
    BY <1>1, FS_Interval
  <2> QED BY <1>1, <2>1
<1>3. Party = {PartyColumns[i] : i \in DOMAIN PartyColumns}
  BY DEF Party, Range
<1>4. IsFiniteSet(Party)
  <2>1. PartyColumns \in [DOMAIN PartyColumns -> Party]
    BY <1>1, BrowseAssumption
  <2>2. PartyColumns \in Surjection(DOMAIN PartyColumns, Party)
    BY <1>3, <2>1 DEF Surjection
  <2> QED BY <1>2, <2>2, FS_Surjection
<1> QED BY <1>2, <1>3, <1>4, BrowseAssumption

(* The most votes of some parties: none has more, and it is one party's or nothing. *)
LEMMA MostOf ==
    ASSUME NEW parties \in [Party -> Nat], NEW S \in SUBSET Party
    PROVE  /\ Most(parties, S) \in Nat
           /\ \A c \in S : Most(parties, S) >= parties[c]
           /\ Most(parties, S) = 0 \/ \E c \in S : parties[c] = Most(parties, S)
<1> DEFINE V == {parties[c] : c \in S}
<1>1. IsFiniteSet(S)
  BY Columns, FS_Subset
<1>2. IsFiniteSet(V)
  <2> DEFINE f == [c \in S |-> parties[c]]
  <2>1. f \in Surjection(S, V)
    BY DEF Surjection
  <2> HIDE DEF f, V
  <2> QED BY <1>1, <2>1, FS_Surjection
<1>3. V \in SUBSET Nat
  OBVIOUS
<1> HIDE DEF V
<1> DEFINE W == {0} \union V
<1>4. IsFiniteSet(W)
  <2>1. IsFiniteSet({0})
    BY FS_Singleton
  <2> QED BY <1>2, <2>1, FS_Union
<1>5. W \in SUBSET Nat /\ W # {}
  BY <1>3
<1> HIDE DEF W
<1>6. Max(W) \in W /\ Max(W) \in Nat /\ \A y \in W : Max(W) >= y
  BY <1>4, <1>5, MaxOf
<1>7. Most(parties, S) = Max(W)
  BY DEF Most, V, W
<1> QED BY <1>6, <1>7 DEF V, W

LEMMA FirstLeads ==
    ASSUME NEW leaders \in SUBSET Party, leaders # {}
    PROVE  FirstColumn(leaders) \in leaders
<1> DEFINE at == {i \in DOMAIN PartyColumns : PartyColumns[i] \in leaders}
<1>1. at \in SUBSET Nat /\ at # {}
  BY Columns
<1>2. Min(at) \in at
  <2> HIDE DEF at
  <2> QED BY <1>1, MinOf
<1> QED BY <1>2 DEF FirstColumn

(***************************************************************************)
(* What computeOutcome makes of any votes.                                 *)
(***************************************************************************)
LEMMA OutcomeOf ==
    ASSUME NEW parties \in [Party -> Nat]
    PROVE  LET race == ComputeOutcome(parties)
               others == Party \ {Client}
           IN  /\ race.outcome = "WIN" <=>
                     parties[Client] > 0 /\ \A c \in others : parties[Client] > parties[c]
               /\ race.outcome = "LOSS" <=> \E c \in others : parties[Client] < parties[c]
               /\ race.outcome = "PENDING" <=> \A c \in Party : parties[c] = 0
               /\ race.outcome # "PENDING" =>
                     \A c \in Party : parties[race.leadingParty] >= parties[c]
               /\ IF race.outcome = "LOSS"
                  THEN parties[Client] + race.margin = Most(parties, others)
                  ELSE parties[Client] - race.margin = Most(parties, others)
<1> DEFINE race == ComputeOutcome(parties)
           others == Party \ {Client}
           max == Most(parties, Party)
           second == Most(parties, others)
           leaders == Leaders(parties, max)
           first == FirstColumn(leaders)
<1>1. Client \in Party /\ \A c \in Party : parties[c] \in Nat
  BY Columns
<1>2. /\ max \in Nat
      /\ \A c \in Party : max >= parties[c]
      /\ max = 0 \/ \E c \in Party : parties[c] = max
  BY MostOf
<1>3. /\ second \in Nat
      /\ \A c \in others : second >= parties[c]
      /\ second = 0 \/ \E c \in others : parties[c] = second
  BY MostOf
<1>4. leaders = {c \in Party : parties[c] = max}
  BY DEF Leaders
<1>5. race = CASE max = 0 -> [outcome |-> "PENDING", leadingParty |-> "NONE", margin |-> 0]
               [] max > 0 /\ Client \in leaders /\ leaders # {Client} ->
                     [outcome |-> "TIE", leadingParty |-> Client, margin |-> 0]
               [] max > 0 /\ leaders = {Client} ->
                     [outcome |-> "WIN", leadingParty |-> Client,
                      margin |-> parties[Client] - second]
               [] OTHER -> [outcome |-> "LOSS", leadingParty |-> first,
                            margin |-> max - parties[Client]]
  BY DEF ComputeOutcome
<1>6. leaders # {} => first \in leaders
  BY <1>4, FirstLeads
<1> HIDE DEF race, max, second, leaders, first
<1>7. CASE max = 0
  <2>1. race.outcome = "PENDING" /\ race.margin = 0
    BY <1>5, <1>7
  <2>2. \A c \in Party : parties[c] = 0
    BY <1>1, <1>2, <1>7
  <2>3. second = 0
    BY <1>3, <2>2
  <2> QED BY <1>1, <2>1, <2>2, <2>3 DEF race, second
<1>8. CASE max > 0
  <2>1. \E c \in Party : parties[c] = max
    BY <1>2, <1>8
  <2>2. first \in Party /\ parties[first] = max /\ leaders # {}
    BY <1>4, <1>6, <2>1
  <2>3. CASE Client \in leaders /\ leaders # {Client}
    <3>1. race.outcome = "TIE" /\ race.leadingParty = Client /\ race.margin = 0
      BY <1>5, <1>8, <2>3
    <3>2. PICK c \in others : parties[c] = max
      BY <1>4, <2>3
    <3>3. parties[Client] = max
      BY <1>4, <2>3
    <3>4. second = max
      BY <1>1, <1>2, <1>3, <1>8, <3>2
    <3>5. ~(\E d \in others : parties[Client] < parties[d])
      BY <1>1, <1>2, <3>3
    <3>6. ~(parties[Client] > parties[c]) /\ parties[Client] # 0
      BY <1>1, <1>2, <1>8, <3>2, <3>3
    <3>7. parties[Client] - 0 = max
      BY <1>2, <3>3
    <3> QED BY <1>1, <1>2, <3>1, <3>2, <3>3, <3>4, <3>5, <3>6, <3>7 DEF race, second
  <2>4. CASE leaders = {Client}
    <3>1. race = [outcome |-> "WIN", leadingParty |-> Client, margin |-> parties[Client] - second]
      BY <1>5, <1>8, <2>4
    <3>2. parties[Client] = max /\ \A d \in others : parties[d] < max
      <4>1. \A d \in others : parties[d] # max /\ parties[d] \in Nat /\ max >= parties[d]
        BY <1>1, <1>2, <1>4, <2>4
      <4> QED BY <1>2, <1>4, <2>4, <4>1
    <3>3. parties[Client] - (parties[Client] - second) = second
      BY <1>1, <1>3
    <3>4. parties[Client] > 0 /\ parties[Client] # 0 /\ \A d \in others : parties[Client] > parties[d]
      BY <1>1, <1>2, <1>8, <3>2
    <3>5. ~(\E d \in others : parties[Client] < parties[d])
      BY <1>1, <1>2, <3>2
    <3>6. \A d \in Party : parties[Client] >= parties[d]
      BY <1>1, <1>2, <3>2
    <3> QED BY <1>1, <3>1, <3>3, <3>4, <3>5, <3>6 DEF race, second
  <2>5. CASE Client \notin leaders
    <3>1. race = [outcome |-> "LOSS", leadingParty |-> first, margin |-> max - parties[Client]]
      BY <1>2, <1>5, <1>8, <2>5
    <3>2. parties[Client] < max /\ first \in others
      BY <1>1, <1>2, <1>4, <2>2, <2>5
    <3>3. second = max
      BY <1>1, <1>2, <1>3, <1>8, <2>2, <3>2
    <3>4. parties[Client] + (max - parties[Client]) = max
      BY <1>1, <1>2
    <3>5. parties[first] # 0 /\ parties[Client] < parties[first] /\ ~(parties[Client] > parties[first])
      BY <1>1, <1>2, <1>8, <2>2, <3>2
    <3>6. \A d \in Party : parties[first] >= parties[d]
      BY <1>2, <2>2
    <3> QED BY <2>2, <3>1, <3>2, <3>3, <3>4, <3>5, <3>6 DEF race, second
  <2> QED BY <2>3, <2>4, <2>5
<1> QED BY <1>2, <1>7, <1>8

-----------------------------------------------------------------------------
LEMMA FiniteChildren ==
    /\ \A u \in Unit : Children(u) \subseteq Unit /\ IsFiniteSet(Children(u))
    /\ IsFiniteSet(Lgas)
    /\ \A S \in SUBSET Unit : IsFiniteSet(S) /\ Cardinality(S) \in Nat
<1>1. \A S \in SUBSET Unit : IsFiniteSet(S) /\ Cardinality(S) \in Nat
  BY FiniteAssumption, FS_Subset, FS_CardinalityType
<1>2. \A u \in Unit : Children(u) \in SUBSET Unit
  BY Tree DEF Children
<1> QED BY <1>1, <1>2, UnitClasses

(* Two parts of a finite set. *)
LEMMA TwoParts ==
    ASSUME NEW S, IsFiniteSet(S), NEW T, IsFiniteSet(T), S \cap T = {}
    PROVE  Cardinality(S \union T) = Cardinality(S) + Cardinality(T)
<1>1. Cardinality(S \union T) = Cardinality(S) + Cardinality(T) - Cardinality(S \cap T)
  BY FS_Union
<1>2. Cardinality(S \cap T) = 0
  BY FS_EmptySet
<1>3. Cardinality(S) \in Nat /\ Cardinality(T) \in Nat
  BY FS_CardinalityType
<1> QED BY <1>1, <1>2, <1>3

(* Every unit is shown with one of five statuses. *)
LEMMA CountsOfWard ==
    ASSUME TypeOK, NEW S \in SUBSET Unit
    PROVE  /\ \A s : CountOf(S, s) \in Nat
           /\ Cardinality({p \in S : HasResult(p)})
                 = CountOf(S, "SUBMITTED") + CountOf(S, "APPROVED") + CountOf(S, "REJECTED")
           /\ Cardinality(S) = Cardinality({p \in S : HasResult(p)})
                                + CountOf(S, "DRAFT") + CountOf(S, "NOT_STARTED")
<1> DEFINE With(s) == {u \in S : Shown(u) = s}
           subm == With("SUBMITTED")
           appr == With("APPROVED")
           reje == With("REJECTED")
           draf == With("DRAFT")
           none == With("NOT_STARTED")
           seen == {p \in S : HasResult(p)}
<1>1. \A s : With(s) \in SUBSET Unit /\ IsFiniteSet(With(s)) /\ Cardinality(With(s)) \in Nat
  BY FiniteChildren
<1>2. \A s : CountOf(S, s) = Cardinality(With(s))
  BY DEF CountOf
<1>3. \A p \in S : Shown(p) \in {"SUBMITTED", "APPROVED", "REJECTED", "DRAFT", "NOT_STARTED"}
  BY DEF TypeOK, Row, Status, Shown
<1>4. seen = (subm \union appr) \union reje
  BY DEF HasResult
<1>5. S = (seen \union draf) \union none
  BY <1>3 DEF HasResult
<1>6. /\ subm \cap appr = {} /\ (subm \union appr) \cap reje = {}
      /\ seen \cap draf = {} /\ (seen \union draf) \cap none = {}
  BY DEF HasResult
<1>7. /\ IsFiniteSet(subm) /\ IsFiniteSet(appr) /\ IsFiniteSet(reje)
      /\ IsFiniteSet(draf) /\ IsFiniteSet(none)
  BY <1>1
<1>8. IsFiniteSet(seen)
  <2>1. seen \in SUBSET Unit
    OBVIOUS
  <2> QED BY <2>1, FiniteChildren
<1>9. \A s : CountOf(S, s) \in Nat
  BY <1>1, <1>2
<1>10. /\ CountOf(S, "SUBMITTED") = Cardinality(subm)
       /\ CountOf(S, "APPROVED") = Cardinality(appr)
       /\ CountOf(S, "REJECTED") = Cardinality(reje)
       /\ CountOf(S, "DRAFT") = Cardinality(draf)
       /\ CountOf(S, "NOT_STARTED") = Cardinality(none)
  BY <1>2
<1> HIDE DEF With, subm, appr, reje, draf, none, seen
<1>11. Cardinality(subm \union appr) = Cardinality(subm) + Cardinality(appr)
  BY <1>6, <1>7, TwoParts
<1>12. IsFiniteSet(subm \union appr) /\ IsFiniteSet(seen \union draf)
  BY <1>7, <1>8, FS_Union
<1>13. Cardinality(seen) = Cardinality(subm \union appr) + Cardinality(reje)
  BY <1>4, <1>6, <1>7, <1>12, TwoParts
<1>14. Cardinality(seen \union draf) = Cardinality(seen) + Cardinality(draf)
  BY <1>6, <1>7, <1>8, TwoParts
<1>15. Cardinality(S) = Cardinality(seen \union draf) + Cardinality(none)
  BY <1>5, <1>6, <1>7, <1>12, TwoParts
<1> QED BY <1>9, <1>10, <1>11, <1>13, <1>14, <1>15 DEF seen

(* The coverage of an LGA is that of its wards. *)
LEMMA CoverageOfLga ==
    ASSUME NEW l \in Lgas
    PROVE  Cardinality({p \in PusOfLga(l) : HasResult(p)})
             = SumFunction([w \in Children(l) |-> Cardinality({p \in Children(w) : HasResult(p)})])
<1> DEFINE M == [w \in Children(l) |-> {p \in Children(w) : HasResult(p)}]
           W == Children(l)
           f == [w \in W |-> Cardinality({p \in Children(w) : HasResult(p)})]
           g == [w \in W |-> Cardinality(M[w])]
<1>1. IsFiniteSet(W) /\ \A w \in W : w \in Wards /\ w \in Unit
  BY FiniteChildren, UnitClasses, Tree
<1>2. \A w \in W : IsFiniteSet(M[w])
  <2>1. \A w \in W : M[w] \in SUBSET Unit
    BY <1>1, FiniteChildren
  <2> QED BY <2>1, FiniteChildren
<1>3. \A v, w \in W : v # w => M[v] \cap M[w] = {}
  BY DEF Children
<1>4. UNION {M[w] : w \in W} = {p \in PusOfLga(l) : HasResult(p)}
  BY DEF PusOfLga
<1>5. f = g
  OBVIOUS
<1>6. SumFunction(f) = SumFunctionOnSet(f, W)
  BY DEF SumFunction
<1> HIDE DEF M, W
<1>7. Cardinality(UNION {M[w] : w \in W}) = SumFunctionOnSet(g, W)
  BY <1>1, <1>2, <1>3, CardinalityOfParts
<1> QED BY <1>4, <1>5, <1>6, <1>7 DEF W

(* Whatever the statuses, the screens count the same. *)
LEMMA CountedAlike == TypeOK => ScreensAgree
<1> SUFFICES ASSUME TypeOK PROVE ScreensAgree
  OBVIOUS
<1>1. ASSUME NEW w \in Wards
      PROVE  /\ \A s \in DOMAIN StatusCounts(w) :
                   StatusCounts(w)[s] = Cardinality(WardPuSubmissions(w, s))
             /\ Readiness(w).missingPus = StatusCounts(w)["DRAFT"] + StatusCounts(w)["NOT_STARTED"]
             /\ Readiness(w).submittedPus = StatusCounts(w)["SUBMITTED"]
             /\ Cardinality(LgaWardPuResults(w)) = WardRow(w).reporting.reported
             /\ WardRow(w).reporting.reported + Readiness(w).missingPus = Readiness(w).totalPus
  <2> DEFINE S == Children(w)
             n == Cardinality(S)
             seen == Cardinality({p \in S : HasResult(p)})
             subm == CountOf(S, "SUBMITTED")
             appr == CountOf(S, "APPROVED")
             reje == CountOf(S, "REJECTED")
             draf == CountOf(S, "DRAFT")
             none == CountOf(S, "NOT_STARTED")
  <2>1. S \in SUBSET Unit
    BY UnitClasses, FiniteChildren
  <2>2. /\ subm \in Nat /\ appr \in Nat /\ reje \in Nat /\ draf \in Nat /\ none \in Nat
        /\ seen = subm + appr + reje /\ n = seen + draf + none
    <3> HIDE DEF S
    <3> QED BY <2>1, CountsOfWard
  <2>3. /\ DOMAIN StatusCounts(w) = Status \union {"NOT_STARTED"}
        /\ \A s \in Status : StatusCounts(w)[s] = CountOf(S, s)
        /\ StatusCounts(w)["NOT_STARTED"] =
              IF n - subm - appr - reje - draf > 0 THEN n - subm - appr - reje - draf ELSE 0
    BY DEF StatusCounts, Status
  <2>4. \A s : CountOf(S, s) = Cardinality(WardPuSubmissions(w, s))
    BY DEF CountOf, WardPuSubmissions
  <2>5. /\ Readiness(w).missingPus = none + draf /\ Readiness(w).submittedPus = subm
        /\ Readiness(w).totalPus = n
    BY DEF Readiness
  <2>6. WardRow(w).reporting.reported = seen
    BY DEF WardRow, MapRow, Coverage
  <2>7. Cardinality(LgaWardPuResults(w)) = seen
    BY DEF LgaWardPuResults, HasResult
  <2> HIDE DEF S, n, seen, subm, appr, reje, draf, none
  <2>8. StatusCounts(w)["NOT_STARTED"] = none
    BY <2>2, <2>3
  <2>9. StatusCounts(w)["DRAFT"] = draf /\ StatusCounts(w)["SUBMITTED"] = subm
    BY <2>3 DEF Status, draf, subm
  <2>10. \A s \in DOMAIN StatusCounts(w) : StatusCounts(w)[s] = Cardinality(WardPuSubmissions(w, s))
    BY <2>3, <2>4, <2>8 DEF none
  <2>11. none + draf = draf + none /\ seen + (none + draf) = n
    BY <2>2
  <2> QED BY <2>5, <2>6, <2>7, <2>8, <2>9, <2>10, <2>11
<1>2. ASSUME NEW l \in Lgas
      PROVE  LgaRow(l).reporting.reported
                = SumFunction([w \in Children(l) |-> WardRow(w).reporting.reported])
  <2> DEFINE f == [w \in Children(l) |-> Cardinality({p \in Children(w) : HasResult(p)})]
             g == [w \in Children(l) |-> WardRow(w).reporting.reported]
  <2>1. \A w : WardRow(w).reporting.reported = Cardinality({p \in Children(w) : HasResult(p)})
    BY DEF WardRow, MapRow, Coverage
  <2>2. f = g
    BY <2>1
  <2>3. LgaRow(l).reporting.reported = Cardinality({p \in PusOfLga(l) : HasResult(p)})
    BY DEF LgaRow, MapRow, Coverage
  <2>4. Cardinality({p \in PusOfLga(l) : HasResult(p)}) = SumFunction(f)
    BY CoverageOfLga
  <2> HIDE DEF f, g
  <2>5. LgaRow(l).reporting.reported = SumFunction(g)
    BY <2>2, <2>3, <2>4
  <2> QED BY <2>5 DEF g
<1> QED BY <1>1, <1>2 DEF ScreensAgree

-----------------------------------------------------------------------------
(* A row counts nothing, its own figure, or its approved children's. *)
Counts(rs, u) ==
    \/ rs[u].tally = {}
    \/ \E f \in Figures : rs[u].tally = {<<u, f>>}
    \/ ApprovedChildren(rs, u) # {}

LEMMA CountsOfLga == LgaOwnFigures <=> \A l \in Lgas : Counts(rows, l)
BY DEF LgaOwnFigures, Counts

LEMMA CountsOfLgaNext == LgaOwnFigures' <=> \A l \in Lgas : Counts(rows', l)
BY DEF LgaOwnFigures, Counts, ApprovedChildren

(* Approved wards stay approved, so an LGA that had one has it still. *)
LEMMA StepOwnFigures == IInv /\ IInv' /\ LgaOwnFigures /\ [Next]_vars => LgaOwnFigures'
<1> SUFFICES ASSUME IInv, IInv', LgaOwnFigures, [Next]_vars, NEW l \in Lgas
             PROVE  Counts(rows', l)
  BY CountsOfLgaNext
<1>1. /\ l \in Unit /\ l \notin PollingUnits /\ l \notin Wards
      /\ \A w \in Children(l) : w \in Wards /\ w \in Unit
      /\ TypeOK /\ TypeOK' /\ FlagsInWard
  BY UnitClasses, Tree DEF IInv
<1>2. Counts(rows, l)
  BY CountsOfLga
<1>3. ApprovedChildren(rows, l) # {} => ApprovedChildren(rows', l) # {}
  <2>1. \A w \in Wards : rows[w].status = "APPROVED" => rows'[w].status = "APPROVED"
    BY StepApprovals DEF ApprovalsOfOneLga
  <2> QED BY <1>1, <2>1 DEF ApprovedChildren
<1>4. CASE rows'[l].tally = rows[l].tally
  BY <1>2, <1>3, <1>4 DEF Counts
<1>5. CASE rows'[l].tally # rows[l].tally
  <2>1. CASE UNCHANGED vars
    BY <1>5, <2>1 DEF vars
  <2>2. ASSUME NEW u \in Unit, NEW fig \in Figures, NEW photo \in BOOLEAN,
               UpsertResult(u, fig, photo)
        PROVE  Counts(rows', l)
    BY <1>1, <1>5, <2>2, UpsertEffect DEF Counts
  <2>3. ASSUME NEW u \in Unit, AttachEc8aPhoto(u)
        PROVE  FALSE
    <3>1. /\ \A v \in Unit : v # u => rows'[v] = rows[v]
          /\ rows'[u] = [rows[u] EXCEPT !.photo = TRUE] /\ rows[u] \in Row
      BY <1>1, <2>3, AttachEffect DEF TypeOK
    <3> QED BY <1>1, <1>5, <3>1 DEF Row
  <2>4. ASSUME NEW u \in Unit, SubmitResult(u)
        PROVE  FALSE
    <3>1. /\ \A v \in Unit : v # u => rows'[v] = rows[v]
          /\ rows[u] \in Row
          /\ rows'[u] = [rows[u] EXCEPT !.status = "SUBMITTED", !.reason = FALSE]
      BY <1>1, <2>4, SubmitEffect DEF TypeOK
    <3> QED BY <1>1, <1>5, <3>1 DEF Row
  <2>5. ASSUME NEW c \in DOMAIN Parent, ApproveResult(c)
        PROVE  Counts(rows', l)
    <3>1. /\ \A v \in Unit : v # c /\ v # Parent[c] => rows'[v] = rows[v]
          /\ rows'[c].status = "APPROVED" /\ rows'[c].tally = rows[c].tally
      BY <1>1, <2>5, ApproveEffect
    <3>2. l = Parent[c]
      BY <1>1, <1>5, <3>1
    <3> QED BY <3>1, <3>2, Tree DEF Counts, ApprovedChildren
  <2>6. ASSUME NEW c \in DOMAIN Parent, NEW flags, RejectResult(c, flags)
        PROVE  FALSE
    <3>1. /\ \A v \in Unit : v # c /\ v # Parent[c] => rows'[v] = rows[v]
          /\ rows'[c].tally = rows[c].tally
          /\ rows'[Parent[c]] = rows[Parent[c]] \/ c \in PollingUnits
      BY <1>1, <2>6, RejectEffect
    <3>2. l = Parent[c] => c \notin PollingUnits
      BY <1>1, Tree
    <3> QED BY <1>1, <1>5, <3>1, <3>2
  <2>7. ASSUME NEW k \in Lgas, ApproveAllLgaWardResults(k)
        PROVE  Counts(rows', l)
    <3> DEFINE pending == {w \in Children(k) : rows[w].status = "SUBMITTED"}
    <3>1. /\ pending # {}
          /\ \A v \in Unit : v \notin pending /\ v # k => rows'[v] = rows[v]
          /\ \A w \in pending : rows'[w] = [rows[w] EXCEPT !.status = "APPROVED"]
      BY <1>1, <2>7, ApproveAllEffect
    <3>2. \A w \in pending : w \in Wards /\ w \in Unit
      BY Tree
    <3>3. l = k
      BY <1>1, <1>5, <3>1, <3>2
    <3>4. PICK w \in pending : TRUE
      BY <3>1
    <3>5. rows'[w].status = "APPROVED"
      BY <1>1, <3>1, <3>2, <3>4 DEF TypeOK, Row
    <3> QED BY <3>3, <3>4, <3>5 DEF Counts, ApprovedChildren
  <2>8. ASSUME NEW w \in Wards, ResubmitWardToLga(w)
        PROVE  FALSE
    BY <1>1, <1>5, <2>8, ResubmitEffect
  <2>9. ASSUME NEW w \in Wards, ReturnLgaFlaggedPus(w)
        PROVE  FALSE
    <3> DEFINE toReturn == {p \in rows[w].flagged : rows[p].status \in {"APPROVED", "SUBMITTED"}}
    <3>1. /\ toReturn \subseteq Children(w)
          /\ \A v \in Unit : v \notin toReturn /\ v # w => rows'[v] = rows[v]
      BY <1>1, <2>9, ReturnFlaggedEffect
    <3>2. l \notin toReturn /\ l # w
      BY <1>1, <3>1, Tree
    <3> QED BY <1>1, <1>5, <3>1, <3>2
  <2> QED BY <2>1, <2>2, <2>3, <2>4, <2>5, <2>6, <2>7, <2>8, <2>9 DEF Next
<1> QED BY <1>4, <1>5

LEMMA InitOwnFigures == Init => LgaOwnFigures
BY UnitClasses DEF Init, Absent, LgaOwnFigures

BrowseInv == IInv /\ LgaOwnFigures

LEMMA BrowseInvariance == Spec => []BrowseInv
<1>1. Init => BrowseInv
  BY InitIInv, InitOwnFigures DEF BrowseInv
<1>2. BrowseInv /\ [Next]_vars => BrowseInv'
  BY NextIInv, StepOwnFigures DEF BrowseInv
<1> QED BY <1>1, <1>2, PTL DEF Spec

-----------------------------------------------------------------------------
(* The total of a ward has one figure of each of its approved units. *)
LEMMA TallyOfWard ==
    ASSUME IInv, NEW w \in Wards
    PROVE  /\ IsFiniteSet(rows[w].tally)
           /\ \A e \in rows[w].tally : e[1] \in Children(w) /\ rows[e[1]].status = "APPROVED"
<1>1. rows[w].tally = UNION {rows[p].tally : p \in ApprovedChildren(rows, w)}
  BY DEF IInv, WardTallyFaithful, AggregateTally
<1>2. \A p \in ApprovedChildren(rows, w) :
         /\ p \in Children(w) /\ p \in PollingUnits /\ rows[p].status = "APPROVED"
         /\ \E f \in Figures : rows[p].tally = {<<p, f>>}
  BY Tree DEF ApprovedChildren, IInv, PuTallyOwn
<1>3. \A e \in rows[w].tally : e[1] \in Children(w) /\ rows[e[1]].status = "APPROVED"
  BY <1>1, <1>2
<1>4. IsFiniteSet(rows[w].tally)
  <2> DEFINE approved == ApprovedChildren(rows, w)
             tallies == {rows[p].tally : p \in approved}
             t == [p \in approved |-> rows[p].tally]
  <2>1. approved \in SUBSET Unit
    BY UnitClasses, FiniteChildren DEF ApprovedChildren
  <2>2. IsFiniteSet(approved)
    BY <2>1, FiniteChildren
  <2>3. t \in Surjection(approved, tallies)
    BY DEF Surjection
  <2> HIDE DEF approved, t
  <2>4. IsFiniteSet(tallies)
    <3> HIDE DEF tallies
    <3> QED BY <2>2, <2>3, FS_Surjection
  <2>5. \A x \in tallies : IsFiniteSet(x)
    <3>1. \A p \in approved : \E f \in Figures : rows[p].tally = {<<p, f>>}
      BY <1>2 DEF approved
    <3>2. \A x \in tallies : \E e : x = {e}
      BY <3>1
    <3> QED BY <3>2, FS_Singleton
  <2> HIDE DEF tallies
  <2>6. IsFiniteSet(UNION tallies)
    BY <2>4, <2>5, FS_UNION
  <2> QED BY <1>1, <2>6 DEF tallies, approved
<1> QED BY <1>3, <1>4

(* The total of an LGA with approved wards has theirs, which do not overlap. *)
LEMMA TallyOfLga ==
    ASSUME BrowseInv, NEW l \in Lgas
    PROVE  /\ IsFiniteSet(rows[l].tally)
           /\ \A v, w \in ApprovedChildren(rows, l) :
                 v # w => rows[v].tally \cap rows[w].tally = {}
           /\ \/ rows[l].tally = UNION {rows[w].tally : w \in ApprovedChildren(rows, l)}
              \/ /\ ApprovedChildren(rows, l) = {}
                 /\ \A e \in rows[l].tally : e[1] = l
<1> DEFINE approved == ApprovedChildren(rows, l)
<1>1. /\ \A w \in approved : w \in Wards /\ w \in Children(l)
      /\ IsFiniteSet(approved)
  <2>1. approved \in SUBSET Unit /\ \A w \in approved : w \in Wards /\ w \in Children(l)
    BY Tree, UnitClasses DEF ApprovedChildren
  <2> QED BY <2>1, FiniteChildren
<1>2. \A v, w \in approved : v # w => rows[v].tally \cap rows[w].tally = {}
  <2>1. \A w \in approved : \A e \in rows[w].tally : e[1] \in Children(w)
    BY <1>1, TallyOfWard DEF BrowseInv
  <2> QED BY <2>1 DEF Children
<1>3. CASE approved = {}
  <2>1. rows[l].tally = {} \/ \E f \in Figures : rows[l].tally = {<<l, f>>}
    BY <1>3 DEF BrowseInv, LgaOwnFigures
  <2>2. IsFiniteSet(rows[l].tally)
    BY <2>1, FS_EmptySet, FS_Singleton
  <2> QED BY <1>2, <1>3, <2>1, <2>2
<1>4. CASE approved # {}
  <2>1. rows[l].tally = UNION {rows[w].tally : w \in approved}
    BY <1>4 DEF BrowseInv, IInv, LgaCountsApprovedWards, AggregateTally
  <2> DEFINE tallies == {rows[w].tally : w \in approved}
             t == [w \in approved |-> rows[w].tally]
  <2>2. t \in Surjection(approved, tallies)
    BY DEF Surjection
  <2>3. \A x \in tallies : IsFiniteSet(x)
    BY <1>1, TallyOfWard DEF BrowseInv
  <2> HIDE DEF t, approved
  <2>4. IsFiniteSet(tallies)
    <3> HIDE DEF tallies
    <3> QED BY <1>1, <2>2, FS_Surjection
  <2>5. IsFiniteSet(UNION tallies)
    <3> HIDE DEF tallies
    <3> QED BY <2>3, <2>4, FS_UNION
  <2> QED BY <1>2, <2>1, <2>5 DEF tallies, approved
<1> QED BY <1>3, <1>4

LEMMA CountedAreReported == BrowseInv => CountedIsReported
<1> SUFFICES ASSUME BrowseInv PROVE CountedIsReported
  OBVIOUS
<1>1. \A u : rows[u].status = "APPROVED" => HasResult(u)
  BY DEF HasResult, Shown
<1>2. \A w \in Wards : \A e \in rows[w].tally : HasResult(e[1])
  BY <1>1, TallyOfWard DEF BrowseInv
<1>3. ASSUME NEW l \in Lgas, NEW e \in rows[l].tally, LevelOf[e[1]] = "POLLING_UNIT"
      PROVE  HasResult(e[1])
  <2>1. e[1] # l
    BY <1>3 DEF Lgas
  <2>2. PICK w \in ApprovedChildren(rows, l) : e \in rows[w].tally
    BY <2>1, TallyOfLga
  <2>3. w \in Wards
    BY Tree DEF ApprovedChildren
  <2> QED BY <1>2, <2>2, <2>3
<1>4. ASSUME NEW w \in Wards, Shown(w) = "APPROVED"
      PROVE  WardRow(w).reporting.reported = WardRow(w).reporting.total
  <2>1. \A p \in Children(w) : rows[p].status = "APPROVED"
    BY <1>4 DEF BrowseInv, IInv, WardApprovedComplete, AllPollingUnitsApproved, Shown
  <2>2. {p \in Children(w) : HasResult(p)} = Children(w)
    BY <1>1, <2>1
  <2> QED BY <2>2 DEF WardRow, MapRow, Coverage
<1> QED BY <1>2, <1>3, <1>4 DEF CountedIsReported

-----------------------------------------------------------------------------
VotesIn(c) == [e \in Unit \X Figures |-> VotesOf[e[1]][e[2]][c]]

(* The votes of a row as a sum over its total. *)
LEMMA TotalsOf ==
    ASSUME TypeOK, NEW u \in Unit, IsFiniteSet(rows[u].tally), NEW c \in Party
    PROVE  /\ PartyTotals(u)[c] = SumFunctionOnSet(VotesIn(c), rows[u].tally)
           /\ PartyTotals(u)[c] \in Nat
           /\ \A e \in rows[u].tally : VotesIn(c)[e] \in Nat
<1> DEFINE T == rows[u].tally
           f == [e \in T |-> VotesOf[e[1]][e[2]][c]]
           g == VotesIn(c)
<1>1. T \subseteq Unit \X Figures
  BY DEF TypeOK, Row, Tallies
<1>2. \A e \in T : g[e] \in Nat /\ f[e] = g[e]
  BY <1>1, BrowseAssumption DEF VotesIn
<1>3. PartyTotals(u)[c] = SumFunctionOnSet(f, T)
  BY DEF PartyTotals, SumFunction
<1> HIDE DEF f, g
<1>4. SumFunctionOnSet(f, T) = SumFunctionOnSet(g, T)
  <2> HIDE DEF T
  <2> QED BY <1>2, SumAgree DEF T
<1>5. SumFunctionOnSet(g, T) \in Nat
  BY <1>2, SumType
<1> QED BY <1>2, <1>3, <1>4, <1>5 DEF g

LEMMA TotalsTyped ==
    ASSUME BrowseInv, NEW u \in Wards \union Lgas
    PROVE  PartyTotals(u) \in [Party -> Nat]
<1>1. u \in Unit /\ IsFiniteSet(rows[u].tally) /\ TypeOK
  BY UnitClasses, TallyOfWard, TallyOfLga DEF BrowseInv, IInv
<1>2. \A c \in Party : PartyTotals(u)[c] \in Nat
  BY <1>1, TotalsOf
<1> QED BY <1>2 DEF PartyTotals

LEMMA OutcomesAreMajorities == BrowseInv => OutcomeIsMajority
<1> SUFFICES ASSUME BrowseInv, NEW u \in Wards \union Lgas
             PROVE  LET row == MapRow(u, {})
                        votes == row.parties
                        others == Party \ {Client}
                    IN  /\ row.outcome = "WIN" <=>
                              votes[Client] > 0 /\ \A c \in others : votes[Client] > votes[c]
                        /\ row.outcome = "LOSS" <=> \E c \in others : votes[Client] < votes[c]
                        /\ row.outcome = "PENDING" <=> \A c \in Party : votes[c] = 0
                        /\ row.outcome # "PENDING" =>
                              \A c \in Party : votes[row.leadingParty] >= votes[c]
                        /\ IF row.outcome = "LOSS"
                           THEN votes[Client] + row.margin = Most(votes, others)
                           ELSE votes[Client] - row.margin = Most(votes, others)
  BY DEF OutcomeIsMajority
<1> DEFINE row == MapRow(u, {})
           race == ComputeOutcome(PartyTotals(u))
<1>1. /\ row.parties = PartyTotals(u) /\ row.outcome = race.outcome
      /\ row.leadingParty = race.leadingParty /\ row.margin = race.margin
  BY DEF MapRow
<1>2. PartyTotals(u) \in [Party -> Nat]
  BY TotalsTyped
<1> HIDE DEF row
<1> QED BY <1>1, <1>2, OutcomeOf DEF row

LEMMA RowsRaces ==
    /\ \A w : WardRow(w).outcome = ComputeOutcome(PartyTotals(w)).outcome
    /\ \A l : LgaRow(l).outcome = ComputeOutcome(PartyTotals(l)).outcome
    /\ \A l : LgaRow(l).parties = PartyTotals(l)
BY DEF WardRow, LgaRow, MapRow

(* The votes of an LGA are those of its approved wards together. *)
LEMMA LgaSumsWards ==
    ASSUME BrowseInv, NEW l \in Lgas, ApprovedChildren(rows, l) # {}, NEW c \in Party
    PROVE  PartyTotals(l)[c]
             = SumFunctionOnSet([w \in ApprovedChildren(rows, l) |-> PartyTotals(w)[c]],
                                ApprovedChildren(rows, l))
<1> DEFINE W == ApprovedChildren(rows, l)
           M == [w \in W |-> rows[w].tally]
           f == VotesIn(c)
           part == [w \in W |-> PartyTotals(w)[c]]
           sum == [w \in W |-> SumFunctionOnSet(f, M[w])]
<1>1. /\ \A w \in W : w \in Wards /\ w \in Unit
      /\ W \in SUBSET Unit /\ l \in Unit /\ TypeOK
  BY Tree, UnitClasses DEF ApprovedChildren, BrowseInv, IInv
<1>2. IsFiniteSet(W)
  BY <1>1, FiniteChildren
<1>3. \A w \in W : /\ IsFiniteSet(M[w])
                   /\ part[w] = sum[w]
                   /\ \A e \in M[w] : f[e] \in Nat
  BY <1>1, TallyOfWard, TotalsOf DEF BrowseInv
<1>4. \A v, w \in W : v # w => M[v] \cap M[w] = {}
  BY TallyOfLga
<1>5. IsFiniteSet(rows[l].tally) /\ rows[l].tally = UNION {M[w] : w \in W}
  BY TallyOfLga
<1>6. PartyTotals(l)[c] = SumFunctionOnSet(f, rows[l].tally)
  BY <1>1, <1>5, TotalsOf
<1>7. part = sum
  BY <1>3
<1> HIDE DEF W, M, f
<1>8. SumFunctionOnSet(f, UNION {M[w] : w \in W}) = SumFunctionOnSet(sum, W)
  BY <1>2, <1>3, <1>4, SumOverParts
<1>9. PartyTotals(l)[c] = SumFunctionOnSet(part, W)
  BY <1>5, <1>6, <1>7, <1>8
<1> QED BY <1>9 DEF W

(* One who leads every summand leads the sum. *)
LEMMA LeadsSum ==
    ASSUME NEW W, IsFiniteSet(W), NEW f, NEW g,
           \A w \in W : f[w] \in Nat /\ g[w] \in Nat /\ f[w] >= g[w],
           \E w \in W : f[w] > g[w]
    PROVE  /\ SumFunctionOnSet(f, W) \in Nat /\ SumFunctionOnSet(g, W) \in Nat
           /\ SumFunctionOnSet(f, W) > SumFunctionOnSet(g, W)
<1>1. PICK w \in W : g[w] < f[w]
  OBVIOUS
<1>2. \A x \in W : f[x] \in Nat /\ g[x] \in Nat /\ g[x] <= f[x]
  OBVIOUS
<1>3. SumFunctionOnSet(g, W) < SumFunctionOnSet(f, W)
  BY <1>1, <1>2, SumGreater
<1>4. SumFunctionOnSet(f, W) \in Nat /\ SumFunctionOnSet(g, W) \in Nat
  BY <1>2, SumType
<1> QED BY <1>3, <1>4

LEMMA WonWardsWinLga ==
    ASSUME BrowseInv, NEW l \in Lgas, ApprovedChildren(rows, l) # {},
           \A w \in ApprovedChildren(rows, l) : WardRow(w).outcome = "WIN"
    PROVE  LgaRow(l).outcome = "WIN"
<1> DEFINE W == ApprovedChildren(rows, l)
           of(c) == [w \in W |-> PartyTotals(w)[c]]
           others == Party \ {Client}
<1>1. /\ \A w \in W : w \in Wards /\ w \in Wards \union Lgas
      /\ W \in SUBSET Unit /\ l \in Wards \union Lgas
  BY Tree, UnitClasses DEF ApprovedChildren
<1>2. IsFiniteSet(W) /\ Client \in Party
  BY <1>1, FiniteChildren, Columns
<1>3. \A w \in W : PartyTotals(w) \in [Party -> Nat]
  BY <1>1, TotalsTyped
<1>4. \A w \in W : /\ PartyTotals(w)[Client] > 0
                   /\ \A c \in others : PartyTotals(w)[Client] > PartyTotals(w)[c]
  BY <1>3, OutcomeOf, RowsRaces
<1>5. \A c \in Party : PartyTotals(l)[c] = SumFunctionOnSet(of(c), W)
  BY LgaSumsWards
<1>6. PartyTotals(l)[Client] > 0
  <2> DEFINE f == of(Client)
             zero == [w \in W |-> 0]
  <2>1. /\ \A w \in W : f[w] \in Nat /\ zero[w] \in Nat /\ f[w] >= zero[w]
        /\ \E w \in W : f[w] > zero[w]
    BY <1>2, <1>3, <1>4
  <2>2. PartyTotals(l)[Client] = SumFunctionOnSet(f, W)
    BY <1>2, <1>5
  <2> HIDE DEF f, zero, W
  <2>3. /\ SumFunctionOnSet(f, W) \in Nat /\ SumFunctionOnSet(zero, W) \in Nat
        /\ SumFunctionOnSet(f, W) > SumFunctionOnSet(zero, W)
    BY <1>2, <2>1, LeadsSum
  <2> QED BY <2>2, <2>3
<1>7. ASSUME NEW c \in others PROVE PartyTotals(l)[Client] > PartyTotals(l)[c]
  <2> DEFINE f == of(Client)
             g == of(c)
  <2>1. /\ \A w \in W : f[w] \in Nat /\ g[w] \in Nat /\ f[w] >= g[w]
        /\ \E w \in W : f[w] > g[w]
    BY <1>2, <1>3, <1>4
  <2>2. PartyTotals(l)[Client] = SumFunctionOnSet(f, W) /\ PartyTotals(l)[c] = SumFunctionOnSet(g, W)
    BY <1>2, <1>5
  <2> HIDE DEF f, g, W
  <2>3. SumFunctionOnSet(f, W) > SumFunctionOnSet(g, W)
    BY <1>2, <2>1, LeadsSum
  <2> QED BY <2>2, <2>3
<1>8. PartyTotals(l) \in [Party -> Nat]
  BY <1>1, TotalsTyped
<1> HIDE DEF W
<1> QED BY <1>6, <1>7, <1>8, OutcomeOf, RowsRaces

LEMMA WonLgasLead ==
    ASSUME BrowseInv, \A l \in Lgas : LgaRow(l).outcome # "LOSS",
           \E l \in Lgas : LgaRow(l).outcome = "WIN"
    PROVE  RaceLead > 0
<1> DEFINE of(c) == [l \in Lgas |-> LgaRow(l).parties[c]]
           others == Party \ {Client}
<1>1. IsFiniteSet(Lgas) /\ Client \in Party
  BY FiniteChildren, Columns
<1>2. \A l \in Lgas : PartyTotals(l) \in [Party -> Nat]
  BY TotalsTyped
<1>3. \A l \in Lgas : \A c \in others : PartyTotals(l)[Client] >= PartyTotals(l)[c]
  BY <1>1, <1>2, OutcomeOf, RowsRaces
<1>4. PICK k \in Lgas : /\ PartyTotals(k)[Client] > 0
                        /\ \A c \in others : PartyTotals(k)[Client] > PartyTotals(k)[c]
  BY <1>2, OutcomeOf, RowsRaces
<1>5. \A c \in Party : /\ StatewideTotals[c] = SumFunctionOnSet(of(c), Lgas)
                       /\ \A l \in Lgas : of(c)[l] = PartyTotals(l)[c] /\ of(c)[l] \in Nat
  BY <1>2, RowsRaces DEF StatewideTotals, SumFunction
<1>6. StatewideTotals \in [Party -> Nat]
  <2>1. \A c \in Party : StatewideTotals[c] \in Nat
    <3> SUFFICES ASSUME NEW c \in Party PROVE StatewideTotals[c] \in Nat
      OBVIOUS
    <3> DEFINE f == of(c)
    <3>1. StatewideTotals[c] = SumFunctionOnSet(f, Lgas) /\ \A l \in Lgas : f[l] \in Nat
      BY <1>5
    <3> HIDE DEF f
    <3> QED BY <1>1, <3>1, SumType
  <2> QED BY <2>1 DEF StatewideTotals
<1>7. StatewideTotals[Client] > 0
  <2> DEFINE f == of(Client)
             zero == [l \in Lgas |-> 0]
  <2>1. /\ \A l \in Lgas : f[l] \in Nat /\ f[l] = PartyTotals(l)[Client] /\ zero[l] = 0
        /\ StatewideTotals[Client] = SumFunctionOnSet(f, Lgas)
    BY <1>1, <1>5
  <2> HIDE DEF f, zero
  <2>2. /\ \A l \in Lgas : f[l] \in Nat /\ zero[l] \in Nat /\ f[l] >= zero[l]
        /\ f[k] > zero[k]
    BY <1>4, <2>1
  <2>3. /\ SumFunctionOnSet(f, Lgas) \in Nat /\ SumFunctionOnSet(zero, Lgas) \in Nat
        /\ SumFunctionOnSet(f, Lgas) > SumFunctionOnSet(zero, Lgas)
    BY <1>1, <2>2, LeadsSum
  <2> QED BY <2>1, <2>3
<1>8. ASSUME NEW c \in others PROVE StatewideTotals[Client] > StatewideTotals[c]
  <2> DEFINE f == of(Client)
             g == of(c)
  <2>1. /\ \A l \in Lgas : f[l] \in Nat /\ g[l] \in Nat /\ f[l] >= g[l]
        /\ f[k] > g[k]
    BY <1>1, <1>3, <1>4, <1>5
  <2>2. StatewideTotals[Client] = SumFunctionOnSet(f, Lgas) /\ StatewideTotals[c] = SumFunctionOnSet(g, Lgas)
    BY <1>1, <1>5
  <2> HIDE DEF f, g
  <2>3. SumFunctionOnSet(f, Lgas) > SumFunctionOnSet(g, Lgas)
    BY <1>1, <2>1, LeadsSum
  <2> QED BY <2>2, <2>3
<1>9. /\ Most(StatewideTotals, others) \in Nat
      /\ \/ Most(StatewideTotals, others) = 0
         \/ \E c \in others : StatewideTotals[c] = Most(StatewideTotals, others)
  BY <1>6, MostOf
<1>10. StatewideTotals[Client] > Most(StatewideTotals, others)
  BY <1>7, <1>8, <1>9
<1>11. StatewideTotals[Client] \in Nat
  BY <1>1, <1>6
<1> QED BY <1>9, <1>10, <1>11 DEF RaceLead

-----------------------------------------------------------------------------
(***************************************************************************)
(* The cards of a ward, its list, the LGA's readiness and the situation    *)
(* room's coverage count the same polling units alike in every state,      *)
(* whatever the number of units and wards.                                 *)
(***************************************************************************)
THEOREM ScreensAlwaysAgree == Spec => []ScreensAgree
BY TypeCorrect, CountedAlike, PTL

(***************************************************************************)
(* The map never shows the votes of a polling unit that the coverage       *)
(* beside it does not count as reported, whatever was returned, corrected  *)
(* and approved in which order.                                            *)
(***************************************************************************)
THEOREM AllCountedAreReported == Spec => []CountedIsReported
BY BrowseInvariance, CountedAreReported, PTL

(* The outcome and the margin the map shows are those of the votes it      *)
(* shows, for any number of parties and any votes (computeOutcome 71-101). *)
THEOREM AllOutcomesAreMajorities == Spec => []OutcomeIsMajority
BY BrowseInvariance, OutcomesAreMajorities, PTL

(***************************************************************************)
(* The levels of the map do not contradict each other: all approved wards  *)
(* won is the LGA won, and LGAs won with none lost is the race led.        *)
(***************************************************************************)
THEOREM WonEverywhereIsAlwaysWon == Spec => []WonEverywhereIsWon
<1>1. BrowseInv => WonEverywhereIsWon
  BY WonWardsWinLga, WonLgasLead DEF WonEverywhereIsWon
<1> QED BY <1>1, BrowseInvariance, PTL
=============================================================================
