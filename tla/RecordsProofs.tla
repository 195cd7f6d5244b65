-------------------------- MODULE RecordsProofs --------------------------
(***************************************************************************)
(* Theorems about the records of a campaign: what is delivered of a        *)
(* commitment, and whose it is, for any campaigns, groups, commitments and *)
(* any number of overlapping requests.                                     *)
(***************************************************************************)
EXTENDS Commitments, TLAPS

Underway(d) == patch[d].at # "none"

(* An update that no other crossed leaves amounts within the target. *)
StillWithin ==
    \A d \in Patch :
        Underway(d) /\ ~patch[d].stale /\ patch[d].id \in DOMAIN commitments =>
            LET m == patch[d].id IN
            Or(patch[d].request.current, commitments[m].current)
                <= Or(patch[d].request.target, commitments[m].target)

(* A group it hands the commitment to was found in the campaign. *)
StillItsCampaign ==
    \A d \in Patch :
        /\ Underway(d)
        /\ patch[d].at = "write" /\ patch[d].request.group # Keep
        /\ patch[d].id \in DOMAIN commitments
        /\ patch[d].request.group \in DOMAIN groups
        => InCampaign(patch[d].request.group, commitments[patch[d].id].campaign)

(* Ids under way were given out, so no later row has them. *)
IdsGiven ==
    \A d \in Patch :
        Underway(d) => /\ patch[d].id \in given
                       /\ patch[d].at = "write" /\ patch[d].request.group # Keep
                            => patch[d].request.group \in given

CommitmentsInv ==
    /\ CommitmentsTypeOK
    /\ DeliveredWithinTarget
    /\ CommitmentOfItsGroup
    /\ StillWithin
    /\ StillItsCampaign
    /\ IdsGiven

-----------------------------------------------------------------------------
(* A row added, and rows taken away. *)
LEMMA AddRow ==
    ASSUME NEW R, NEW f, f \in [DOMAIN f -> R], NEW x, NEW r \in R
    PROVE  LET g == Having(f, x, r) IN
           /\ g \in [DOMAIN g -> R]
           /\ DOMAIN g = DOMAIN f \union {x}
           /\ g[x] = r
           /\ \A y \in DOMAIN f \ {x} : g[y] = f[y]
BY DEF Having

LEMMA DropRows ==
    ASSUME NEW R, NEW f, f \in [DOMAIN f -> R], NEW S
    PROVE  LET g == Without(f, S) IN
           /\ g \in [DOMAIN g -> R]
           /\ DOMAIN g = DOMAIN f \ S
           /\ \A y \in DOMAIN f \ S : g[y] = f[y]
BY DEF Without, Restrict

-----------------------------------------------------------------------------
LEMMA InvInit == CommitmentsInit => CommitmentsInv
<1> SUFFICES ASSUME CommitmentsInit
             PROVE  CommitmentsInv
  OBVIOUS
<1>1. DOMAIN groups = {} /\ DOMAIN commitments = {}
  BY DEF CommitmentsInit
<1>2. CommitmentsTypeOK
  BY <1>1 DEF CommitmentsInit, CommitmentsTypeOK, PatchState
<1> QED
  BY <1>1, <1>2 DEF CommitmentsInit, CommitmentsInv, DeliveredWithinTarget, CommitmentOfItsGroup,
     StillWithin, StillItsCampaign, IdsGiven, Underway, Waiting

(* A new group: its id is new to every row and to every update. *)
LEMMA InvCreateGroup ==
    ASSUME CommitmentsInv, NEW g \in Group, NEW k \in Campaign, NEW located \in BOOLEAN,
           CreateGroup(g, k, located)
    PROVE  CommitmentsInv'
<1> USE DEF CommitmentsInv
<1>1. /\ g \notin given
      /\ groups' = Having(groups, g, [campaign |-> k, located |-> located])
      /\ given' = given \union {g}
      /\ UNCHANGED <<commitments, patch, crossed>>
  BY DEF CreateGroup
<1>2. /\ groups' \in [DOMAIN groups' -> GroupRow]
      /\ DOMAIN groups' = DOMAIN groups \union {g}
      /\ \A h \in DOMAIN groups \ {g} : groups'[h] = groups[h]
  <2> DEFINE row == [campaign |-> k, located |-> located]
  <2>1. row \in GroupRow
    BY DEF GroupRow
  <2>2. groups \in [DOMAIN groups -> GroupRow] /\ groups' = Having(groups, g, row)
    BY <1>1 DEF CommitmentsTypeOK
  <2> HIDE DEF row
  <2> QED BY <2>1, <2>2, AddRow
<1>3. g \notin DOMAIN groups
  BY <1>1 DEF CommitmentsTypeOK
<1>4. \A h \in DOMAIN groups, c \in Campaign : InCampaign(h, c)' = InCampaign(h, c)
  BY <1>2, <1>3 DEF InCampaign
<1>5. CommitmentsTypeOK'
  BY <1>1, <1>2 DEF CommitmentsTypeOK
<1>6. DeliveredWithinTarget' /\ StillWithin' /\ IdsGiven'
  BY <1>1 DEF DeliveredWithinTarget, StillWithin, IdsGiven, Underway
<1>7. CommitmentOfItsGroup'
  BY <1>1, <1>2, <1>3 DEF CommitmentOfItsGroup, InCampaign
<1>8. StillItsCampaign'
  BY <1>1, <1>2, <1>3 DEF StillItsCampaign, IdsGiven, Underway, InCampaign
<1> QED BY <1>5, <1>6, <1>7, <1>8

LEMMA InvUpdateGroup ==
    ASSUME CommitmentsInv, NEW g \in Group, NEW located \in BOOLEAN, UpdateGroup(g, located)
    PROVE  CommitmentsInv'
<1> USE DEF CommitmentsInv
<1>1. /\ g \in DOMAIN groups
      /\ groups' = [groups EXCEPT ![g].located = located]
      /\ UNCHANGED <<commitments, given, patch, crossed>>
  BY DEF UpdateGroup
<1>2. /\ groups' \in [DOMAIN groups' -> GroupRow]
      /\ DOMAIN groups' = DOMAIN groups
      /\ \A h \in DOMAIN groups : groups'[h].campaign = groups[h].campaign
  BY <1>1 DEF CommitmentsTypeOK, GroupRow
<1>3. CommitmentsTypeOK'
  BY <1>1, <1>2 DEF CommitmentsTypeOK
<1>4. DeliveredWithinTarget' /\ StillWithin' /\ IdsGiven'
  BY <1>1 DEF DeliveredWithinTarget, StillWithin, IdsGiven, Underway
<1>5. CommitmentOfItsGroup' /\ StillItsCampaign'
  BY <1>1, <1>2 DEF CommitmentOfItsGroup, StillItsCampaign, Underway, InCampaign
<1> QED BY <1>3, <1>4, <1>5

(* A group takes its commitments with it, so none is left without. *)
LEMMA InvRemoveGroup ==
    ASSUME CommitmentsInv, NEW g \in Group, RemoveGroup(g)
    PROVE  CommitmentsInv'
<1> USE DEF CommitmentsInv
<1> DEFINE S == {m \in DOMAIN commitments : commitments[m].group = g}
<1>1. /\ groups' = Without(groups, {g})
      /\ commitments' = Without(commitments, S)
      /\ UNCHANGED <<given, patch, crossed>>
  BY DEF RemoveGroup
<1>2. /\ groups' \in [DOMAIN groups' -> GroupRow]
      /\ DOMAIN groups' = DOMAIN groups \ {g}
      /\ \A h \in DOMAIN groups \ {g} : groups'[h] = groups[h]
  BY <1>1, DropRows DEF CommitmentsTypeOK
<1>3. /\ commitments' \in [DOMAIN commitments' -> CommitmentRow]
      /\ DOMAIN commitments' = DOMAIN commitments \ S
      /\ \A m \in DOMAIN commitments \ S : commitments'[m] = commitments[m]
  <2> HIDE DEF S
  <2> QED BY <1>1, DropRows DEF CommitmentsTypeOK
<1>4. CommitmentsTypeOK'
  BY <1>1, <1>2, <1>3 DEF CommitmentsTypeOK
<1>5. DeliveredWithinTarget' /\ StillWithin' /\ IdsGiven'
  BY <1>1, <1>3 DEF DeliveredWithinTarget, StillWithin, IdsGiven, Underway
<1>6. CommitmentOfItsGroup'
  <2> SUFFICES ASSUME NEW m \in DOMAIN commitments'
               PROVE  InCampaign(commitments[m].group, commitments[m].campaign)'
    BY DEF CommitmentOfItsGroup
  <2>1. m \in DOMAIN commitments /\ commitments[m].group # g /\ commitments'[m] = commitments[m]
    BY <1>3
  <2>2. InCampaign(commitments[m].group, commitments[m].campaign)
    BY <2>1 DEF CommitmentOfItsGroup
  <2> QED BY <1>2, <2>1, <2>2 DEF InCampaign
<1>7. StillItsCampaign'
  <2>1. DOMAIN commitments' \subseteq DOMAIN commitments
        /\ \A m \in DOMAIN commitments' : commitments'[m] = commitments[m]
    BY <1>3
  <2> HIDE DEF S
  <2> QED BY <1>1, <1>2, <2>1 DEF StillItsCampaign, Underway, InCampaign
<1> QED BY <1>4, <1>5, <1>6, <1>7

LEMMA InvCreateCommitment ==
    ASSUME CommitmentsInv, NEW m \in Commitment, NEW k \in Campaign, NEW g \in Group,
           NEW t \in Target, NEW c \in Current, CreateCommitment(m, k, g, t, c)
    PROVE  CommitmentsInv'
<1> USE DEF CommitmentsInv
<1> DEFINE row == [campaign |-> k, group |-> g, target |-> t, current |-> c]
<1>1. /\ m \notin given /\ InCampaign(g, k) /\ c <= t
      /\ commitments' = Having(commitments, m, row)
      /\ given' = given \union {m}
      /\ UNCHANGED <<groups, patch, crossed>>
  BY DEF CreateCommitment
<1>2. row \in CommitmentRow
  BY DEF CommitmentRow
<1>3. /\ commitments' \in [DOMAIN commitments' -> CommitmentRow]
      /\ DOMAIN commitments' = DOMAIN commitments \union {m}
      /\ commitments'[m] = row
      /\ \A n \in DOMAIN commitments \ {m} : commitments'[n] = commitments[n]
  <2> HIDE DEF row
  <2>1. commitments \in [DOMAIN commitments -> CommitmentRow]
    BY DEF CommitmentsTypeOK
  <2>2. commitments' = Having(commitments, m, row)
    BY <1>1
  <2> QED BY <1>2, <2>1, <2>2 DEF Having
<1>4. m \notin DOMAIN commitments /\ \A d \in Patch : Underway(d) => patch[d].id # m
  BY <1>1 DEF CommitmentsTypeOK, IdsGiven
<1>5. CommitmentsTypeOK'
  BY <1>1, <1>3 DEF CommitmentsTypeOK
<1>6. DeliveredWithinTarget' /\ CommitmentOfItsGroup'
  BY <1>1, <1>3, <1>4 DEF DeliveredWithinTarget, CommitmentOfItsGroup, InCampaign
<1>7. StillWithin' /\ StillItsCampaign' /\ IdsGiven'
  BY <1>1, <1>3, <1>4 DEF StillWithin, StillItsCampaign, IdsGiven, Underway, InCampaign
<1> QED BY <1>5, <1>6, <1>7

LEMMA InvRemoveCommitment ==
    ASSUME CommitmentsInv, NEW m \in Commitment, RemoveCommitment(m)
    PROVE  CommitmentsInv'
<1> USE DEF CommitmentsInv
<1>1. /\ commitments' = Without(commitments, {m})
      /\ UNCHANGED <<groups, given, patch, crossed>>
  BY DEF RemoveCommitment
<1>2. /\ commitments' \in [DOMAIN commitments' -> CommitmentRow]
      /\ DOMAIN commitments' = DOMAIN commitments \ {m}
      /\ \A n \in DOMAIN commitments \ {m} : commitments'[n] = commitments[n]
  BY <1>1, DropRows DEF CommitmentsTypeOK
<1>3. CommitmentsTypeOK'
  BY <1>1, <1>2 DEF CommitmentsTypeOK
<1>4. DeliveredWithinTarget' /\ CommitmentOfItsGroup'
  BY <1>1, <1>2 DEF DeliveredWithinTarget, CommitmentOfItsGroup, InCampaign
<1>5. StillWithin' /\ StillItsCampaign' /\ IdsGiven'
  BY <1>1, <1>2 DEF StillWithin, StillItsCampaign, IdsGiven, Underway, InCampaign
<1> QED BY <1>3, <1>4, <1>5

LEMMA InvReadCommitment ==
    ASSUME CommitmentsInv, NEW e \in Patch, NEW m \in Commitment, NEW request \in Request,
           ReadCommitment(e, m, request)
    PROVE  CommitmentsInv'
<1> USE DEF CommitmentsInv
<1> DEFINE begun == [at |-> IF request.group = Keep THEN "write" ELSE "group",
                     id |-> m, request |-> request, stale |-> FALSE]
<1>1. /\ m \in DOMAIN commitments
      /\ Or(request.current, commitments[m].current) <= Or(request.target, commitments[m].target)
      /\ patch' = [patch EXCEPT ![e] = begun]
      /\ UNCHANGED <<groups, commitments, given, crossed>>
  BY DEF ReadCommitment
<1>2. begun \in PatchState
  BY DEF PatchState
<1>3. /\ patch' \in [Patch -> PatchState]
      /\ patch'[e] = begun
      /\ \A d \in Patch \ {e} : patch'[d] = patch[d]
  <2> HIDE DEF begun
  <2> QED BY <1>1, <1>2 DEF CommitmentsTypeOK
<1>4. /\ begun.id = m /\ begun.request = request
      /\ begun.at = "write" => request.group = Keep
  OBVIOUS
<1> HIDE DEF begun
<1>5. CommitmentsTypeOK'
  BY <1>1, <1>3 DEF CommitmentsTypeOK
<1>6. DeliveredWithinTarget' /\ CommitmentOfItsGroup'
  BY <1>1 DEF DeliveredWithinTarget, CommitmentOfItsGroup, InCampaign
<1>7. StillWithin'
  BY <1>1, <1>3, <1>4 DEF StillWithin, Underway
<1>8. StillItsCampaign'
  BY <1>1, <1>3, <1>4 DEF StillItsCampaign, Underway, InCampaign
<1>9. IdsGiven'
  BY <1>1, <1>3, <1>4 DEF IdsGiven, Underway, CommitmentsTypeOK
<1> QED BY <1>5, <1>6, <1>7, <1>8, <1>9

(* The group is in the campaign of the commitment, when it is looked for. *)
LEMMA InvFindGroup ==
    ASSUME CommitmentsInv, NEW e \in Patch, FindGroup(e)
    PROVE  CommitmentsInv'
<1> USE DEF CommitmentsInv
<1> DEFINE m == patch[e].id
           found == /\ m \in DOMAIN commitments
                    /\ InCampaign(patch[e].request.group, commitments[m].campaign)
           next == IF found THEN [patch[e] EXCEPT !.at = "write"] ELSE Waiting
<1>1. /\ patch[e].at = "group"
      /\ patch' = [patch EXCEPT ![e] = next]
      /\ UNCHANGED <<groups, commitments, given, crossed>>
  BY DEF FindGroup
<1>2. patch[e] \in [at : {"group", "write"}, id : Commitment, request : Request, stale : BOOLEAN]
  BY <1>1 DEF CommitmentsTypeOK, PatchState, Waiting
<1>3. next \in PatchState
  BY <1>2 DEF PatchState
<1>4. /\ patch' \in [Patch -> PatchState]
      /\ patch'[e] = next
      /\ \A d \in Patch \ {e} : patch'[d] = patch[d]
  <2> HIDE DEF next
  <2> QED BY <1>1, <1>3 DEF CommitmentsTypeOK
<1>5. next.at # "none" => /\ found
                          /\ next.id = m /\ next.request = patch[e].request
                          /\ next.stale = patch[e].stale
  BY <1>2 DEF Waiting
<1> HIDE DEF next
<1>6. CommitmentsTypeOK'
  BY <1>1, <1>4 DEF CommitmentsTypeOK
<1>7. DeliveredWithinTarget' /\ CommitmentOfItsGroup'
  BY <1>1 DEF DeliveredWithinTarget, CommitmentOfItsGroup, InCampaign
<1>8. StillWithin'
  BY <1>1, <1>4, <1>5 DEF StillWithin, Underway
<1>9. StillItsCampaign'
  BY <1>1, <1>4, <1>5 DEF StillItsCampaign, Underway, InCampaign
<1>10. IdsGiven'
  BY <1>1, <1>4, <1>5 DEF IdsGiven, Underway, InCampaign, CommitmentsTypeOK
<1> QED BY <1>6, <1>7, <1>8, <1>9, <1>10

(* What is written was checked, or it is recorded that it no longer was;   *)
(* the others under way at the commitment then know it, unless its amounts *)
(* are as they were.                                                       *)
LEMMA InvWriteCommitment ==
    ASSUME CommitmentsInv, NEW e \in Patch, WriteCommitment(e)
    PROVE  CommitmentsInv'
<1> USE DEF CommitmentsInv
<1> DEFINE m == patch[e].id
           named == patch[e].request
           lost == \/ m \notin DOMAIN commitments
                   \/ named.group # Keep /\ named.group \notin DOMAIN groups
           row == [commitments[m] EXCEPT !.group = Or(named.group, @),
                                         !.target = Or(named.target, @),
                                         !.current = Or(named.current, @)]
           other(d) == /\ patch[d].at # "none" /\ patch[d].id = m
                       /\ <<row.target, row.current>> # Amounts(m)
<1>0. patch[e].at = "write" /\ UNCHANGED <<groups, given>>
  BY DEF WriteCommitment
<1>1. patch[e] \in [at : {"group", "write"}, id : Commitment, request : Request, stale : BOOLEAN]
  BY <1>0 DEF CommitmentsTypeOK, PatchState, Waiting
<1>2. CASE lost
  <2>1. /\ patch' = [patch EXCEPT ![e] = Waiting]
        /\ UNCHANGED <<groups, given, commitments, crossed>>
    BY <1>2 DEF WriteCommitment
  <2>2. /\ patch' \in [Patch -> PatchState]
        /\ patch'[e].at = "none"
        /\ \A d \in Patch \ {e} : patch'[d] = patch[d]
    BY <2>1 DEF CommitmentsTypeOK, PatchState, Waiting
  <2>3. CommitmentsTypeOK'
    BY <2>1, <2>2 DEF CommitmentsTypeOK
  <2>4. DeliveredWithinTarget' /\ CommitmentOfItsGroup'
    BY <2>1 DEF DeliveredWithinTarget, CommitmentOfItsGroup, InCampaign
  <2>5. StillWithin' /\ StillItsCampaign' /\ IdsGiven'
    BY <2>1, <2>2 DEF StillWithin, StillItsCampaign, IdsGiven, Underway, InCampaign
  <2> QED BY <2>3, <2>4, <2>5
<1>3. CASE ~lost
  <2>1. /\ m \in DOMAIN commitments
        /\ commitments' = [commitments EXCEPT ![m] = row]
        /\ patch' = [d \in Patch |-> IF d = e THEN Waiting
                                     ELSE IF other(d) THEN [patch[d] EXCEPT !.stale = TRUE]
                                     ELSE patch[d]]
        /\ crossed' = IF patch[e].stale THEN crossed \union {m} ELSE crossed \ {m}
    BY <1>3 DEF WriteCommitment
  <2>2. commitments[m] \in CommitmentRow
    BY <2>1 DEF CommitmentsTypeOK
  <2>3. /\ row \in CommitmentRow
        /\ row.campaign = commitments[m].campaign
        /\ row.group = Or(named.group, commitments[m].group)
        /\ row.target = Or(named.target, commitments[m].target)
        /\ row.current = Or(named.current, commitments[m].current)
    BY <1>1, <2>2 DEF CommitmentRow, Request, Or
  <2>4. /\ commitments' \in [DOMAIN commitments' -> CommitmentRow]
        /\ DOMAIN commitments' = DOMAIN commitments
        /\ commitments'[m] = row
        /\ \A n \in DOMAIN commitments \ {m} : commitments'[n] = commitments[n]
    <3> HIDE DEF row
    <3> QED BY <2>1, <2>3 DEF CommitmentsTypeOK
  <2>5. ASSUME NEW d \in Patch, Underway(d)'
        PROVE  /\ d # e /\ Underway(d)
               /\ patch'[d].at = patch[d].at
               /\ patch'[d].id = patch[d].id
               /\ patch'[d].request = patch[d].request
               /\ ~patch'[d].stale => ~patch[d].stale /\ ~other(d)
               /\ patch'[d] \in PatchState
    <3>1. d # e
      BY <2>1, <2>5 DEF Underway, Waiting
    <3>2. CASE other(d)
      <4>1. patch[d] \in [at : {"group", "write"}, id : Commitment, request : Request,
                          stale : BOOLEAN]
        BY <3>2 DEF CommitmentsTypeOK, PatchState, Waiting
      <4>2. patch'[d] = [patch[d] EXCEPT !.stale = TRUE]
        BY <2>1, <3>1, <3>2
      <4> HIDE DEF other
      <4> QED BY <3>1, <3>2, <4>1, <4>2 DEF Underway, PatchState
    <3>3. CASE ~other(d)
      <4>1. patch'[d] = patch[d]
        BY <2>1, <3>1, <3>3
      <4> HIDE DEF other
      <4> QED BY <2>5, <3>1, <3>3, <4>1 DEF Underway, CommitmentsTypeOK
    <3> QED BY <3>2, <3>3
  <2>6. CommitmentsTypeOK'
    <3>1. \A d \in Patch : patch'[d] \in PatchState
      <4> TAKE d \in Patch
      <4>1. CASE Underway(d)'
        BY <2>5, <4>1
      <4>2. CASE ~Underway(d)'
        <5>1. d = e \/ patch'[d] = patch[d] \/ other(d)
          BY <2>1
        <5>2. ASSUME d # e, other(d) PROVE FALSE
          <6>1. patch[d] \in [at : {"group", "write"}, id : Commitment, request : Request,
                              stale : BOOLEAN]
            BY <5>2 DEF CommitmentsTypeOK, PatchState, Waiting
          <6>2. patch'[d] = [patch[d] EXCEPT !.stale = TRUE]
            BY <2>1, <5>2
          <6> HIDE DEF other
          <6> QED BY <4>2, <6>1, <6>2 DEF Underway
        <5> HIDE DEF other
        <5>3. d = e => patch'[d] = Waiting
          BY <2>1
        <5> QED BY <5>1, <5>2, <5>3 DEF PatchState, CommitmentsTypeOK
      <4> QED BY <4>1, <4>2
    <3>2. patch' \in [Patch -> PatchState]
      <4> HIDE DEF other
      <4> QED BY <2>1, <3>1
    <3> QED BY <1>0, <1>1, <2>1, <2>4, <3>2 DEF CommitmentsTypeOK
  <2>7. DeliveredWithinTarget'
    <3>1. ~patch[e].stale => row.current <= row.target
      BY <1>0, <2>1, <2>3 DEF StillWithin, Underway
    <3> HIDE DEF row
    <3> QED BY <2>1, <2>4, <3>1 DEF DeliveredWithinTarget
  <2>8. CommitmentOfItsGroup'
    <3>1. InCampaign(row.group, row.campaign)
      <4>1. named.group = Keep => row.group = commitments[m].group
        BY <2>3 DEF Or
      <4>2. named.group # Keep => row.group = named.group
        BY <2>3 DEF Or
      <4> QED
        BY <1>0, <1>3, <2>1, <2>3, <4>1, <4>2 DEF CommitmentOfItsGroup, StillItsCampaign, Underway
    <3> HIDE DEF row
    <3> QED BY <1>0, <2>4, <3>1 DEF CommitmentOfItsGroup, InCampaign
  <2>9. StillWithin'
    <3> SUFFICES ASSUME NEW d \in Patch, Underway(d)', ~patch'[d].stale,
                        patch'[d].id \in DOMAIN commitments'
                 PROVE  LET n == patch'[d].id IN
                        Or(patch'[d].request.current, commitments'[n].current)
                            <= Or(patch'[d].request.target, commitments'[n].target)
      BY DEF StillWithin
    <3>1. /\ Underway(d) /\ ~patch[d].stale /\ ~other(d)
          /\ patch'[d].id = patch[d].id /\ patch'[d].request = patch[d].request
      BY <2>5
    <3>2. patch[d].id = m => /\ row.target = commitments[m].target
                             /\ row.current = commitments[m].current
      BY <3>1 DEF Underway, Amounts
    <3> HIDE DEF row, other
    <3> QED BY <2>4, <3>1, <3>2 DEF StillWithin
  <2>10. StillItsCampaign'
    <3> HIDE DEF row, other
    <3> QED BY <1>0, <2>3, <2>4, <2>5 DEF StillItsCampaign, InCampaign
  <2>11. IdsGiven'
    <3> HIDE DEF row, other
    <3> QED BY <1>0, <2>5 DEF IdsGiven
  <2> QED BY <2>6, <2>7, <2>8, <2>9, <2>10, <2>11
<1> QED BY <1>2, <1>3

-----------------------------------------------------------------------------
LEMMA InvNext == CommitmentsInv /\ [CommitmentsNext]_commitmentVars => CommitmentsInv'
<1> SUFFICES ASSUME CommitmentsInv, [CommitmentsNext]_commitmentVars
             PROVE  CommitmentsInv'
  OBVIOUS
<1>1. CASE CommitmentsNext
  BY <1>1, InvCreateGroup, InvUpdateGroup, InvRemoveGroup, InvCreateCommitment,
     InvRemoveCommitment, InvReadCommitment, InvFindGroup, InvWriteCommitment
     DEF CommitmentsNext
<1>2. CASE UNCHANGED commitmentVars
  BY <1>2 DEF commitmentVars, CommitmentsInv, CommitmentsTypeOK, DeliveredWithinTarget,
     CommitmentOfItsGroup, StillWithin, StillItsCampaign, IdsGiven, Underway, InCampaign
<1> QED BY <1>1, <1>2

(* The inductive invariant holds of every behaviour of the handlers. *)
THEOREM CommitmentsInvariant == CommitmentsSpec => []CommitmentsInv
BY InvInit, InvNext, PTL DEF CommitmentsSpec

(* Rows and updates under way keep their types. *)
THEOREM CommitmentsTyped == CommitmentsSpec => []CommitmentsTypeOK
BY CommitmentsInvariant, PTL DEF CommitmentsInv

(* Nothing is delivered beyond its target but by updates that crossed. *)
THEOREM WithinTarget == CommitmentsSpec => []DeliveredWithinTarget
BY CommitmentsInvariant, PTL DEF CommitmentsInv

(* A commitment is that of a group of its own campaign. *)
THEOREM OfItsGroup == CommitmentsSpec => []CommitmentOfItsGroup
BY CommitmentsInvariant, PTL DEF CommitmentsInv
=============================================================================
