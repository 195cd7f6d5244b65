---------------------------- MODULE CollationBrowse ----------------------------
(***************************************************************************)
(* The situation room: the map, the coverage figures and the race board    *)
(* that CollationBrowseService computes from the result rows               *)
(* (collation-browse.service.ts).  They show the rows of every level as    *)
(* they are, whatever their status.                                        *)
(***************************************************************************)
EXTENDS CollationScreens, FiniteSetsExt, Functions, Sequences

CONSTANTS
    PartyColumns,   \* the tracked parties of the campaign, in order
    Client,         \* the party the campaign is for
    VotesOf         \* the votes of each party in a figure typed for a unit

Party == Range(PartyColumns)

ASSUME BrowseAssumption ==
    /\ Len(PartyColumns) \in Nat
    /\ PartyColumns \in Seq(Party)
    /\ \A i, j \in DOMAIN PartyColumns : PartyColumns[i] = PartyColumns[j] => i = j
    /\ Client \in Party
    /\ VotesOf \in [Unit -> [Figures -> [Party -> Nat]]]

(* parsePartyTotals of a row: nothing where there is no row or no entry. *)
PartyTotals(u) ==
    [c \in Party |-> SumFunction([e \in rows[u].tally |-> VotesOf[e[1]][e[2]][c]])]

Most(parties, S) == Max({0} \union {parties[c] : c \in S})

Leaders(parties, max) == {c \in Party : parties[c] = max}

(* The leader whose column comes first. *)
FirstColumn(leaders) ==
    PartyColumns[Min({i \in DOMAIN PartyColumns : PartyColumns[i] \in leaders})]

(* Slip: the client is asked for before the tie. *)
ComputeOutcomeClientFirst(parties) ==
    LET max == Most(parties, Party)
        leaders == Leaders(parties, max)
    IN  CASE max = 0 ->
                [outcome |-> "PENDING", leadingParty |-> "NONE", margin |-> 0]
          [] max > 0 /\ Client \in leaders ->
                [outcome |-> "WIN", leadingParty |-> Client,
                 margin |-> max - Most(parties, Party \ {Client})]
          [] OTHER ->
                [outcome |-> "LOSS", leadingParty |-> FirstColumn(leaders),
                 margin |-> max - parties[Client]]

(* The outcome of an area for the client, and by how much. *)
ComputeOutcome(parties) ==
    LET max == Most(parties, Party)
        leaders == Leaders(parties, max)
    IN  CASE max = 0 ->
                [outcome |-> "PENDING", leadingParty |-> "NONE", margin |-> 0]
          [] max > 0 /\ Client \in leaders /\ leaders # {Client} ->
                [outcome |-> "TIE", leadingParty |-> Client, margin |-> 0]
          [] max > 0 /\ leaders = {Client} ->
                [outcome |-> "WIN", leadingParty |-> Client,
                 margin |-> parties[Client] - Most(parties, Party \ {Client})]
          [] OTHER ->
                [outcome |-> "LOSS", leadingParty |-> FirstColumn(leaders),
                 margin |-> max - parties[Client]]

(* situationMapPoints: a polling unit has reported. *)
HasResult(p) == Shown(p) \in {"SUBMITTED", "APPROVED", "REJECTED"}

PusOfLga(l) == UNION {Children(w) : w \in Children(l)}

(* loadPuReportingMaps: total and reported polling units of an area. *)
Coverage(pus) ==
    [total    |-> Cardinality(pus),
     reported |-> Cardinality({p \in pus : HasResult(p)})]

(* mapOutcomeRow, browseLgas, browseWards, browsePollingUnits: an area as *)
(* the map and the lists show it.                                         *)
MapRow(u, pus) ==
    LET parties == PartyTotals(u)
        race == ComputeOutcome(parties)
    IN  [parties |-> parties, resultStatus |-> Shown(u), outcome |-> race.outcome,
         leadingParty |-> race.leadingParty, margin |-> race.margin,
         reporting |-> Coverage(pus)]

WardRow(w) == MapRow(w, Children(w))
LgaRow(l)  == MapRow(l, PusOfLga(l))

(* getRaceAnalytics: the parties over all LGAs, and the client's lead over *)
(* the first of the others.                                                *)
StatewideTotals ==
    [c \in Party |-> SumFunction([l \in Lgas |-> LgaRow(l).parties[c]])]

RaceLead == StatewideTotals[Client] - Most(StatewideTotals, Party \ {Client})

-----------------------------------------------------------------------------
(***************************************************************************)
(* The screens agree about the same polling units although each counts     *)
(* them itself: the cards of the ward's officer with the list under them,  *)
(* with the readiness the LGA's officer sees, with the results that officer *)
(* can look into, and with the coverage in the situation room; and the     *)
(* coverage of an LGA with that of its wards.                              *)
(***************************************************************************)
ScreensAgree ==
    /\ \A w \in Wards :
          LET cards == StatusCounts(w)
              ready == Readiness(w)
          IN  /\ \A s \in DOMAIN cards : cards[s] = Cardinality(WardPuSubmissions(w, s))
              /\ ready.missingPus = cards["DRAFT"] + cards["NOT_STARTED"]
              /\ ready.submittedPus = cards["SUBMITTED"]
              /\ Cardinality(LgaWardPuResults(w)) = WardRow(w).reporting.reported
              /\ WardRow(w).reporting.reported + ready.missingPus = ready.totalPus
    /\ \A l \in Lgas :
          LgaRow(l).reporting.reported =
             SumFunction([w \in Children(l) |-> WardRow(w).reporting.reported])

(***************************************************************************)
(* Whatever votes the map shows of a polling unit, that unit is reported   *)
(* there: no area has votes of a unit its coverage does not count (an      *)
(* agent who corrects a returned result is at a draft again), and an area  *)
(* with no more than typed figures is the LGA's own affair.                *)
(***************************************************************************)
CountedIsReported ==
    /\ \A w \in Wards : \A e \in rows[w].tally : HasResult(e[1])
    /\ \A l \in Lgas : \A e \in rows[l].tally :
          LevelOf[e[1]] = "POLLING_UNIT" => HasResult(e[1])
    /\ \A w \in Wards : Shown(w) = "APPROVED" =>
          WardRow(w).reporting.reported = WardRow(w).reporting.total

(***************************************************************************)
(* The outcome shown of an area is the one its votes have: won when the    *)
(* client has votes, more than every other party, lost when another has, a *)
(* tie when it shares the lead, open without votes; the margin is the      *)
(* distance to the strongest other party in each case.                     *)
(***************************************************************************)
OutcomeIsMajority ==
    \A u \in Wards \union Lgas :
        LET row == MapRow(u, {})
            votes == row.parties
            others == Party \ {Client}
        IN  /\ row.outcome = "WIN" <=>
                  votes[Client] > 0 /\ \A c \in others : votes[Client] > votes[c]
            /\ row.outcome = "LOSS" <=> \E c \in others : votes[Client] < votes[c]
            /\ row.outcome = "PENDING" <=> \A c \in Party : votes[c] = 0
            /\ row.outcome # "PENDING" =>
                  \A c \in Party : votes[row.leadingParty] >= votes[c]
            /\ IF row.outcome = "LOSS"
               THEN votes[Client] + row.margin = Most(votes, others)
               ELSE votes[Client] - row.margin = Most(votes, others)

(***************************************************************************)
(* The map does not contradict itself between its levels: a client that    *)
(* wins every approved ward of an LGA wins the LGA, and with LGAs won and  *)
(* none lost it leads the race board.  A ward returned by the LGA, figures *)
(* typed at the LGA, or a status left out of a sum would show otherwise.   *)
(***************************************************************************)
WonEverywhereIsWon ==
    /\ \A l \in Lgas :
          LET wards == ApprovedChildren(rows, l)
          IN  wards # {} /\ (\A w \in wards : WardRow(w).outcome = "WIN")
                 => LgaRow(l).outcome = "WIN"
    /\ (/\ \A l \in Lgas : LgaRow(l).outcome # "LOSS"
        /\ \E l \in Lgas : LgaRow(l).outcome = "WIN")
          => RaceLead > 0

(* What the totals of an LGA rest on: while none of its wards is approved, *)
(* it has what its officer typed, or nothing.                              *)
LgaOwnFigures ==
    \A l \in Lgas : ApprovedChildren(rows, l) = {} =>
        rows[l].tally = {} \/ \E f \in Figures : rows[l].tally = {<<l, f>>}
=============================================================================
