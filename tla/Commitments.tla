------------------------------ MODULE Commitments ------------------------------
(***************************************************************************)
(* Support groups and what they have committed to, of which so much is     *)
(* delivered (modules/support-groups, modules/commitments).  An update     *)
(* reads the commitment, checks the amounts it will have, asks for the     *)
(* group it names, and writes by id what the request named; other requests *)
(* come between.  The other handlers check what no request changes, or     *)
(* what the database checks again as they write, and are one step.         *)
(*                                                                         *)
(* Every campaign has members, and what a request asks of its user's       *)
(* membership is left out.  A definition marked "Slip" is a faulty variant *)
(* of the one after it that no action uses.                                *)
(***************************************************************************)
EXTENDS Naturals, Functions

CONSTANTS
    Campaign,
    Jigawa,         \* the campaigns in the state whose LGAs are known
    Group, Commitment,  \* ids; one is given out once
    Most,           \* bound: the highest target
    Patch,         \* bound: updates of commitments under way at a time
    Keep            \* a field the request leaves out

ASSUME CommitmentsAssumption ==
    /\ Jigawa \subseteq Campaign
    /\ Most \in Nat
    /\ Keep \notin Group /\ Keep \notin Nat

VARIABLES
    groups,         \* rows of support_groups
    commitments,    \* rows of commitments
    given,          \* the ids given out
    patch,          \* the updates under way
    crossed         \* commitments last written with amounts that had changed
                    \* since they were checked (auxiliary)

commitmentVars == <<groups, commitments, given, patch, crossed>>

Target == 1..Most
Current == 0..Most
GroupRow == [campaign : Campaign, located : BOOLEAN]
CommitmentRow == [campaign : Campaign, group : Group, target : Target, current : Current]

(* What a request names: the group, the target, what is delivered. *)
Request == [group : Group \union {Keep}, target : Target \union {Keep},
            current : Current \union {Keep}]

Waiting == [at |-> "none"]
PatchState ==
    {Waiting} \union [at : {"group", "write"}, id : Commitment, request : Request, stale : BOOLEAN]

Or(new, old) == IF new = Keep THEN old ELSE new

Amounts(m) == <<commitments[m].target, commitments[m].current>>
Having(f, x, row) == [y \in DOMAIN f \union {x} |-> IF y = x THEN row ELSE f[y]]
Without(f, S) == Restrict(f, DOMAIN f \ S)

CommitmentsInit ==
    /\ groups = <<>> /\ commitments = <<>>
    /\ given = {} /\ crossed = {}
    /\ patch = [d \in Patch |-> Waiting]

-----------------------------------------------------------------------------
(* Support groups.  One is located in an LGA only of a campaign in Jigawa. *)
CreateGroup(g, k, located) ==
    /\ g \notin given
    /\ located => k \in Jigawa
    /\ groups' = Having(groups, g, [campaign |-> k, located |-> located])
    /\ given' = given \union {g}
    /\ UNCHANGED <<commitments, patch, crossed>>

UpdateGroup(g, located) ==
    /\ g \in DOMAIN groups
    /\ located => groups[g].campaign \in Jigawa
    /\ groups' = [groups EXCEPT ![g].located = located]
    /\ UNCHANGED <<commitments, given, patch, crossed>>

(* Its commitments go with it. *)
RemoveGroup(g) ==
    /\ g \in DOMAIN groups
    /\ groups' = Without(groups, {g})
    /\ commitments' = Without(commitments, {m \in DOMAIN commitments : commitments[m].group = g})
    /\ UNCHANGED <<given, patch, crossed>>

-----------------------------------------------------------------------------
InCampaign(g, k) == g \in DOMAIN groups /\ groups[g].campaign = k

CreateCommitment(m, k, g, target, current) ==
    /\ m \notin given
    /\ InCampaign(g, k)
    /\ current <= target
    /\ commitments' = Having(commitments, m, [campaign |-> k, group |-> g, target |-> target,
                                              current |-> current])
    /\ given' = given \union {m}
    /\ UNCHANGED <<groups, patch, crossed>>

(* Slip: only amounts the request names are compared. *)
ReadCommitmentComparingGiven(d, m, request) ==
    /\ patch[d] = Waiting
    /\ m \in DOMAIN commitments
    /\ Keep \notin {request.target, request.current} => request.current <= request.target
    /\ patch' = [patch EXCEPT ![d] =
                     [at |-> IF request.group = Keep THEN "write" ELSE "group",
                      id |-> m, request |-> request, stale |-> FALSE]]
    /\ UNCHANGED <<groups, commitments, given, crossed>>

(* The row is read, and the amounts the update will leave are checked. *)
ReadCommitment(d, m, request) ==
    /\ patch[d] = Waiting
    /\ m \in DOMAIN commitments
    /\ Or(request.current, commitments[m].current) <= Or(request.target, commitments[m].target)
    /\ patch' = [patch EXCEPT ![d] =
                     [at |-> IF request.group = Keep THEN "write" ELSE "group",
                      id |-> m, request |-> request, stale |-> FALSE]]
    /\ UNCHANGED <<groups, commitments, given, crossed>>

(* Slip: a group of any campaign will do. *)
FindGroupAnywhere(d) ==
    /\ patch[d].at = "group"
    /\ patch' = [patch EXCEPT ![d] =
                     IF @.request.group \in DOMAIN groups THEN [@ EXCEPT !.at = "write"]
                     ELSE Waiting]
    /\ UNCHANGED <<groups, commitments, given, crossed>>

(* The group it names is looked for in the campaign of the commitment, which *)
(* no update changes; without it the request is refused.                   *)
FindGroup(d) ==
    /\ patch[d].at = "group"
    /\ LET m == patch[d].id
           found == /\ m \in DOMAIN commitments
                    /\ InCampaign(patch[d].request.group, commitments[m].campaign)
       IN  patch' = [patch EXCEPT ![d] =
                         IF found THEN [@ EXCEPT !.at = "write"] ELSE Waiting]
    /\ UNCHANGED <<groups, commitments, given, crossed>>

(* What was named is written, unless the row or the group is gone by now. *)
WriteCommitment(d) ==
    LET m == patch[d].id
        named == patch[d].request
        lost == \/ m \notin DOMAIN commitments
                \/ named.group # Keep /\ named.group \notin DOMAIN groups
        row == [commitments[m] EXCEPT !.group = Or(named.group, @),
                                      !.target = Or(named.target, @),
                                      !.current = Or(named.current, @)]
        other(e) == /\ patch[e].at # "none" /\ patch[e].id = m
                    /\ <<row.target, row.current>> # Amounts(m)
    IN  /\ patch[d].at = "write"
        /\ IF lost
           THEN /\ patch' = [patch EXCEPT ![d] = Waiting]
                /\ UNCHANGED <<commitments, crossed>>
           ELSE /\ commitments' = [commitments EXCEPT ![m] = row]
                /\ patch' = [e \in Patch |->
                                 IF e = d THEN Waiting
                                 ELSE IF other(e) THEN [patch[e] EXCEPT !.stale = TRUE]
                                 ELSE patch[e]]
                /\ crossed' = IF patch[d].stale THEN crossed \union {m} ELSE crossed \ {m}
        /\ UNCHANGED <<groups, given>>

RemoveCommitment(m) ==
    /\ m \in DOMAIN commitments
    /\ commitments' = Without(commitments, {m})
    /\ UNCHANGED <<groups, given, patch, crossed>>

CommitmentsNext ==
    \/ \E g \in Group, k \in Campaign, located \in BOOLEAN : CreateGroup(g, k, located)
    \/ \E g \in Group, located \in BOOLEAN : UpdateGroup(g, located)
    \/ \E g \in Group : RemoveGroup(g)
    \/ \E m \in Commitment, k \in Campaign, g \in Group, t \in Target, c \in Current :
          CreateCommitment(m, k, g, t, c)
    \/ \E d \in Patch, m \in Commitment, request \in Request : ReadCommitment(d, m, request)
    \/ \E d \in Patch : FindGroup(d) \/ WriteCommitment(d)
    \/ \E m \in Commitment : RemoveCommitment(m)

CommitmentsSpec == CommitmentsInit /\ [][CommitmentsNext]_commitmentVars

-----------------------------------------------------------------------------
(* Rows and updates have their types, and no row has an id not given out. *)
CommitmentsTypeOK ==
    /\ groups \in [DOMAIN groups -> GroupRow] /\ DOMAIN groups \subseteq Group \cap given
    /\ commitments \in [DOMAIN commitments -> CommitmentRow]
    /\ DOMAIN commitments \subseteq Commitment \cap given
    /\ patch \in [Patch -> PatchState]
    /\ crossed \subseteq Commitment

(***************************************************************************)
(* No more is delivered of a commitment than its target, however updates   *)
(* of the one and of the other follow each other, unless the last update   *)
(* was checked against amounts that another changed before it was written  *)
(* (commitments.service.ts 83, 114-118, 122).                              *)
(***************************************************************************)
DeliveredWithinTarget ==
    \A m \in DOMAIN commitments \ crossed : commitments[m].current <= commitments[m].target

(***************************************************************************)
(* A commitment is that of a group of its own campaign, however requests   *)
(* that hand it over and remove groups overlap (commitments.service.ts     *)
(* 34-42, 80, 109-112; schema.prisma 449).                                 *)
(***************************************************************************)
CommitmentOfItsGroup ==
    \A m \in DOMAIN commitments : InCampaign(commitments[m].group, commitments[m].campaign)
=============================================================================
