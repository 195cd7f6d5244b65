-------------------------------- MODULE Seeding --------------------------------
(***************************************************************************)
(* The seeds of the database (db/prisma/seed.ts, seed-collation.ts, seed-  *)
(* inec.ts, seed-production-apc.ts).  A seed is a program of writes in a   *)
(* fixed order without a transaction around them: it may be cut off        *)
(* anywhere, it is run again from the start (the migration container of a  *)
(* staging deployment runs it at every start), and people work with what   *)
(* it left in between.                                                     *)
(*                                                                         *)
(* Votes are counted as the pairs of a unit and the sheet it was seeded    *)
(* with.  A sheet is what its figures are computed from.  A definition     *)
(* marked "Slip" is a faulty variant of the one after it that nothing uses.*)
(***************************************************************************)
EXTENDS Integers, SequencesExt, Functions, TLC

CONSTANTS
    StateLgas,      \* the LGAs of the state by name
    WardsOf,        \* the wards of an LGA by name
    UnitCodes,      \* the polling units of a ward by code
    Hadejia, Atafi, \* the LGA and the ward told in detail
    Competitive,    \* targetNames: the LGAs told down to their units
    Overrides,      \* LGA_OUTCOME_OVERRIDES: the outcome of some LGAs
    Take,           \* how many units of a ward are told there
    Officers,       \* the seeded users
    SampleRows,     \* groups, commitments, volunteers, situations, reports
    Placeholders,   \* units that an older seed made up, by LGA
    PartyCodes,     \* the parties tracked
    Busy,           \* bound: the units officers work on between runs
    CampaignRow     \* the campaign's row

VARIABLES
    places,         \* the rows of geography, and the campaign's
    accounts,       \* officers: whether the user and the membership are active
    collated,       \* collation_results
    logs,           \* how many action log entries the seed wrote, by what they say
    samples,        \* how many rows there are of each sample
    seed,           \* which seed it is
    at              \* the next write; 0 when it was cut off or work began

seedVars == <<places, accounts, collated, logs, samples, seed, at>>

Wins == {"WIN", "CLOSE_WIN", "LANDSLIDE_WIN"}
Losses == {"LOSS", "CLOSE_LOSS", "LANDSLIDE_LOSS"}

(* What an officer typed between two runs. *)
Typed == [outcome |-> "typed", index |-> 0, profile |-> "MATCH"]

UnitsIn(w) == ToSet(UnitCodes[w])
WardsIn(l) == ToSet(WardsOf[l])
Position(s, x) == CHOOSE i \in DOMAIN s : s[i] = x
Each(Op(_), s) == [i \in DOMAIN s |-> Op(s[i])]

-----------------------------------------------------------------------------
(* The figures of a sample, in which an outcome fixes the shares of four    *)
(* parties in thousandths, and the others get crumbs (Math.round at exact   *)
(* halves aside, where the product of floats may fall short).               *)
Round(thousandths) == (thousandths + 500) \div 1000

VotesCast(index) ==
    LET registered == 420 + ((index * 41) % 680)
        turnout == 520 + ((index % 9) * 35)
    IN  IF Round(registered * turnout) < 80 THEN 80 ELSE Round(registered * turnout)

SharesOf(outcome) ==
    CASE outcome = "LANDSLIDE_WIN"  -> <<580, 180, 100, 50>>
      [] outcome = "WIN"            -> <<420, 280, 120, 60>>
      [] outcome = "CLOSE_WIN"      -> <<360, 340, 120, 60>>
      [] outcome = "TIE"            -> <<340, 340, 140, 70>>
      [] outcome = "CLOSE_LOSS"     -> <<330, 360, 130, 60>>
      [] outcome = "LOSS"           -> <<260, 400, 160, 70>>
      [] outcome = "LANDSLIDE_LOSS" -> <<180, 520, 140, 60>>

Best(results, C) == Max({results[c] : c \in C} \union {0})

(* The shares of the votes; the last party has the rest. *)
Shared(outcome, index) ==
    LET votes == VotesCast(index)
        named == SharesOf(outcome)
        rotated == outcome \in Losses /\ index % 5 = 0
        share(i) == CASE PartyCodes[i] = "APC"  -> named[1]
                      [] PartyCodes[i] = "PDP"  -> IF rotated THEN named[3] ELSE named[2]
                      [] PartyCodes[i] = "NNPP" -> IF rotated THEN named[2] ELSE named[3]
                      [] PartyCodes[i] = "LP"   -> named[4]
                      [] OTHER -> 12 + (((i - 1) % 6) * 2)
        last == Len(PartyCodes)
        with(given) ==
            LET rest == votes - FoldFunction(+, 0, given)
                count(i) == IF i < last THEN given[i] ELSE IF rest > 0 THEN rest ELSE 0
            IN  [c \in ToSet(PartyCodes) |-> count(Position(PartyCodes, c))]
    IN  with([i \in 1..(last - 1) |-> Round(votes * share(i))])

(* The shares after APC, or its first rival, got what the outcome asks for. *)
Settled(outcome, index, drawn) ==
    LET others == Best(drawn, ToSet(PartyCodes) \ {"APC"})
        rival == PartyCodes[Min({i \in DOMAIN PartyCodes :
                                    PartyCodes[i] # "APC" /\ drawn[PartyCodes[i]] > 0})]
    IN  CASE outcome \in Wins /\ drawn["APC"] <= others ->
               [drawn EXCEPT !["APC"] = others + 8 + (index % 5)]
          [] outcome \in Losses /\ drawn["APC"] >= drawn[rival] ->
               [drawn EXCEPT ![rival] = drawn["APC"] + 11 + (index % 7)]
          [] outcome = "TIE" -> [drawn EXCEPT !["PDP"] = drawn["APC"]]
          [] OTHER -> drawn

(* generateOutcomePartyResults, with APC as the client. *)
OutcomePartyResults(outcome, index) == Settled(outcome, index, Shared(outcome, index))

(* Slip: 25 more voters than came, who are on the register. *)
SeedEc8aSheetOverUsed(valid, profile) ==
    LET used == 1 + 3 + valid
        AtLeastZero(n) == IF n > 0 THEN n ELSE 0
        match == [votes |-> valid, used |-> used, unused |-> 72, issued |-> used + 72,
                  registered |-> used + 92, accredited |-> used]
    IN  CASE profile = "PARTY_MISMATCH"  -> [match EXCEPT !.votes = AtLeastZero(valid - 17)]
          [] profile = "USED_MISMATCH"   -> [match EXCEPT !.used = AtLeastZero(used - 11)]
          [] profile = "ACCREDITED_OVER" -> [match EXCEPT !.accredited = used + 25]
          [] OTHER -> match

(* buildSeedEc8aSheet, of the votes the parties have together. *)
SeedEc8aSheet(valid, profile) ==
    LET used == 1 + 3 + valid
        AtLeastZero(n) == IF n > 0 THEN n ELSE 0
        match == [votes |-> valid, used |-> used, unused |-> 72, issued |-> used + 72,
                  registered |-> used + 92, accredited |-> used]
    IN  CASE profile = "PARTY_MISMATCH"  -> [match EXCEPT !.votes = AtLeastZero(valid - 17)]
          [] profile = "USED_MISMATCH"   -> [match EXCEPT !.used = AtLeastZero(used - 11)]
          [] profile = "ACCREDITED_OVER" -> [match EXCEPT !.accredited = used + 92 + 25]
          [] OTHER -> match

(* The flags of arithmeticVerification, of a sheet and the parties' sum.  An *)
(* incomplete sheet has the votes and the parties' alone, which agree.     *)
ArithmeticFlags(f, sum, profile) ==
    LET flagged == {<<"ACCREDITED_GT_REGISTERED", f.accredited > f.registered>>,
                    <<"PARTY_SUM_NE_VALID", sum # f.votes>>,
                    <<"USED_NE_SPOILED_REJECTED_VALID", f.used # 1 + 3 + f.votes>>,
                    <<"ISSUED_NE_USED_UNUSED", f.issued # f.used + f.unused>>,
                    <<"ACCREDITED_NE_USED", f.accredited # f.used>>}
    IN  IF profile = "INCOMPLETE" THEN {} ELSE {p[1] : p \in {q \in flagged : q[2]}}

-----------------------------------------------------------------------------
(* pickSeedOutcome. *)
PickSeedOutcome(index) ==
    LET cycle == <<"WIN", "LOSS", "CLOSE_WIN", "LANDSLIDE_LOSS", "WIN", "CLOSE_LOSS", "TIE",
                   "LOSS", "LANDSLIDE_WIN", "LOSS", "WIN", "CLOSE_LOSS", "LANDSLIDE_LOSS",
                   "WIN", "TIE">>
    IN  cycle[(index % 15) + 1]

(* atafiVerificationScenario, by the unit's place in the ward. *)
AtafiScenario(place) ==
    LET told == <<<<"SUBMITTED", "MATCH">>, <<"SUBMITTED", "PARTY_MISMATCH">>,
                  <<"DRAFT", "INCOMPLETE">>, <<"SUBMITTED", "USED_MISMATCH">>,
                  <<"SUBMITTED", "ACCREDITED_OVER">>, <<"REJECTED", "PARTY_MISMATCH">>>>
    IN  IF place < 6 THEN told[place + 1] ELSE <<"APPROVED", "MATCH">>

(* The first other ward of Hadejia with four units or more, if there is one. *)
IncompleteWards ==
    LET wards == SelectSeq(WardsOf[Hadejia], LAMBDA w : w # Atafi /\ Len(UnitCodes[w]) >= 4)
    IN  IF wards = <<>> THEN {} ELSE {Head(wards)}

(* resolvePuStatus. *)
PuStatus(w, place, index) ==
    CASE w \in IncompleteWards /\ place < 4 ->
           <<"APPROVED", "SUBMITTED", "DRAFT", "REJECTED">>[place + 1]
      [] w \notin IncompleteWards /\ index % 23 = 0 -> "SUBMITTED"
      [] w \notin IncompleteWards /\ index % 23 # 0 /\ index % 29 = 0 -> "REJECTED"
      [] OTHER -> "APPROVED"

(* The steps of a seed: which write, of what. *)
Step(do, of) == [do |-> do, of |-> of]
UnitStep(u, status, sheet) == [do |-> "unit", of |-> u, status |-> status, sheet |-> sheet]
WardStep(w, status, flags) == [do |-> "ward", of |-> w, status |-> status, flags |-> flags]
LogSteps(u, status) ==
    Each(LAMBDA s : Step("log", <<u, s>>),
         IF status = "DRAFT" THEN <<>>
         ELSE IF status = "SUBMITTED" THEN <<"SUBMITTED">> ELSE <<"SUBMITTED", status>>)

(* A unit of Hadejia, with its index across the LGA. *)
HadejiaUnit(w, u) ==
    LET place == Position(UnitCodes[w], u) - 1
        all == FlattenSeq(Each(LAMBDA v : UnitCodes[v], WardsOf[Hadejia]))
        index == Position(all, u) - 1
        story == CASE w = Atafi -> "CLOSE_WIN"
                   [] w \in IncompleteWards -> "CLOSE_LOSS"
                   [] OTHER -> PickSeedOutcome(Position(WardsOf[Hadejia], w) + 2)
        outcome == CASE place % 6 = 5 -> IF story \in Wins THEN "LOSS" ELSE "WIN"
                     [] place % 6 # 5 /\ place % 8 = 4 -> "TIE"
                     [] OTHER -> story
        told == IF w = Atafi THEN AtafiScenario(place) ELSE <<PuStatus(w, place, index), "MATCH">>
    IN  <<UnitStep(u, told[1], [outcome |-> outcome, index |-> index, profile |-> told[2]])>>
        \o LogSteps(u, told[1])

HadejiaWard(w) ==
    LET place == Position(WardsOf[Hadejia], w) - 1
        status == CASE w = Atafi -> "REJECTED"
                    [] w \in IncompleteWards -> "SUBMITTED"
                    [] w \notin {Atafi} \union IncompleteWards /\ place % 7 = 2 -> "SUBMITTED"
                    [] w \notin {Atafi} \union IncompleteWards /\ place % 7 # 2 /\ place % 11 = 4 ->
                         "REJECTED"
                    [] OTHER -> "APPROVED"
        units == FlattenSeq(Each(LAMBDA u : HadejiaUnit(w, u), UnitCodes[w]))
        flagged == {s.of : s \in {t \in ToSet(units) :
                        /\ w = Atafi /\ t.do = "unit" /\ t.status = "SUBMITTED"
                        /\ t.sheet.profile \in {"PARTY_MISMATCH", "USED_MISMATCH"}}}
    IN  units \o <<WardStep(w, status, flagged)>> \o LogSteps(w, status)

(* seedHadejiaCollationResults. *)
HadejiaResults ==
    FlattenSeq(Each(HadejiaWard, WardsOf[Hadejia])) \o <<Step("lga", Hadejia)>>

(* seedCompetitiveLgaTrees. *)
ToldUnits(w) == SubSeq(UnitCodes[w], 1, IF Len(UnitCodes[w]) < Take THEN Len(UnitCodes[w]) ELSE Take)
ToldLgas == SelectSeq(Competitive,
                      LAMBDA l : ~(l \in DOMAIN Overrides /\ Overrides[l] = "PENDING"))

CompetitiveWard(l, w) ==
    LET place == Position(WardsOf[l], w) - 1
        all == FlattenSeq(Each(LAMBDA k : FlattenSeq(Each(ToldUnits, WardsOf[k])), ToldLgas))
        lga == IF l \in DOMAIN Overrides THEN Overrides[l]
               ELSE IF Position(Competitive, l) % 2 = 1 THEN "LANDSLIDE_LOSS" ELSE "LOSS"
        story == IF place % 5 = 0 THEN "CLOSE_WIN" ELSE IF place % 7 = 0 THEN "TIE"
                 ELSE IF place % 3 = 0 THEN "LANDSLIDE_LOSS"
                 ELSE IF lga = "LANDSLIDE_LOSS" THEN "LOSS" ELSE "CLOSE_LOSS"
        unit(u) == LET p == Position(UnitCodes[w], u) - 1
                       lastOne == p = Len(ToldUnits(w)) - 1 /\ place % 4 = 1
                   IN  UnitStep(u, IF lastOne THEN "SUBMITTED" ELSE "APPROVED",
                           [outcome |-> IF p % 7 = 0 THEN "WIN" ELSE IF p % 5 = 0 THEN "TIE" ELSE story,
                            index |-> 4999 + Position(all, u),
                            profile |-> IF p % 11 = 0 THEN "PARTY_MISMATCH" ELSE "MATCH"])
    IN  Each(unit, ToldUnits(w))
        \o <<WardStep(w, IF place % 6 = 1 THEN "SUBMITTED" ELSE "APPROVED", {})>>

CompetitiveTrees ==
    FlattenSeq(Each(LAMBDA l : FlattenSeq(Each(LAMBDA w : CompetitiveWard(l, w), WardsOf[l]))
                                   \o <<Step("lga", l)>>,
                    ToldLgas))

(* The LGAs, then each LGA's wards and units as INEC lists them, and the   *)
(* campaign (seed.ts, seedInecLgaFromFile).                                *)
Geography ==
    Each(LAMBDA l : Step("place", l), StateLgas)
    \o FlattenSeq(Each(LAMBDA l : <<Step("sweep", l)>> \o FlattenSeq(
           Each(LAMBDA w : Each(LAMBDA p : Step("place", p), <<w>> \o UnitCodes[w]), WardsOf[l])),
           StateLgas))
    \o <<Step("place", CampaignRow)>>

Users == FlattenSeq(Each(LAMBDA o : <<Step("user", o), Step("membership", o)>>, Officers))

Program == [
    demo |-> Geography \o Users \o HadejiaResults
             \o Each(LAMBDA l : Step("summary", l), StateLgas) \o CompetitiveTrees
             \o Each(LAMBDA s : Step("sample", s), SampleRows),
    production |-> Geography \o Users]

-----------------------------------------------------------------------------
(* A user or a membership is not there, active, or was made inactive. *)
Unknown == [user |-> "none", member |-> "none"]
Dismissed == [user |-> "inactive", member |-> "inactive"]

SeedInit ==
    /\ places \in {{}, UNION {Placeholders[l] : l \in ToSet(StateLgas)}}
    /\ accounts = [o \in ToSet(Officers) |-> Unknown]
    /\ collated = <<>>
    /\ logs = [e \in {} |-> 0]
    /\ samples = [s \in ToSet(SampleRows) |-> 0]
    /\ seed \in {"demo", "production"}
    /\ at = 0

With(f, x, y) == (x :> y) @@ f

(* An upsert that finds, or leaves, the row as it is named. *)
PutPlace(write) ==
    /\ write.do = "place"
    /\ places' = places \union {write.of}
    /\ UNCHANGED <<accounts, collated, logs, samples>>

(* cleanupPlaceholderGeoForLga. *)
Sweep(write) ==
    /\ write.do = "sweep"
    /\ places' = places \ Placeholders[write.of]
    /\ UNCHANGED <<accounts, collated, logs, samples>>

PutUser(write) ==
    /\ write.do = "user"
    /\ accounts' = [accounts EXCEPT ![write.of].user = "active"]
    /\ UNCHANGED <<places, collated, logs, samples>>

(* The demo seed leaves a membership that is there as active as it was. *)
PutMembership(write) ==
    /\ write.do = "membership"
    /\ accounts' = IF seed = "demo" /\ accounts[write.of].member # "none" THEN accounts
                   ELSE [accounts EXCEPT ![write.of].member = "active"]
    /\ UNCHANGED <<places, collated, logs, samples>>

(* seedPollingUnitResult. *)
PutUnit(write) ==
    /\ write.do = "unit"
    /\ collated' = With(collated, write.of, [status |-> write.status, tally |-> {<<write.of, write.sheet>>},
                                    flags |-> {}])
    /\ UNCHANGED <<places, accounts, logs, samples>>

ApprovedOf(S) == {u \in S \intersect DOMAIN collated : collated[u].status = "APPROVED"}
Sum(S) == UNION {collated[u].tally : u \in S}

(* writeSeedActionLog; a ward's is skipped when its row was. *)
PutLog(write) ==
    LET u == write.of[1]
        due == u \in DOMAIN UnitCodes => ApprovedOf(UnitsIn(u)) # {}
    IN  /\ write.do = "log"
        /\ logs' = IF due /\ write.of \notin DOMAIN logs THEN With(logs, write.of, 1) ELSE logs
        /\ UNCHANGED <<places, accounts, collated, samples>>

(* seedWardRollupFromPus: without an approved unit the row stays. *)
PutWard(write) ==
    LET units == ApprovedOf(UnitsIn(write.of))
    IN  /\ write.do = "ward"
        /\ collated' = IF units = {} THEN collated
                   ELSE With(collated, write.of, [status |-> write.status, tally |-> Sum(units),
                             flags |-> IF write.status = "REJECTED" THEN write.flags ELSE {}])
        /\ UNCHANGED <<places, accounts, logs, samples>>

(* A made-up total of an LGA. *)
MadeUp(l, outcome, index) ==
    {<<l, [outcome |-> outcome, index |-> index, profile |-> "MATCH"]>>}

(* seedLgaRollupFromWards. *)
PutLga(write) ==
    LET l == write.of
        wards == ApprovedOf(WardsIn(l))
    IN  /\ write.do = "lga"
        /\ collated' = With(collated, l, [status |-> "APPROVED", flags |-> {},
                         tally |-> IF wards = {} THEN MadeUp(l, "WIN", Len(WardsOf[l]))
                                   ELSE Sum(wards)])
        /\ UNCHANGED <<places, accounts, logs, samples>>

SummaryOf(l) ==
    IF l \in DOMAIN Overrides THEN Overrides[l]
    ELSE PickSeedOutcome(Position(StateLgas, l) + 16)

SummaryRow(l) ==
    LET index == Position(StateLgas, l) - 1
    IN  [status |-> IF index % 9 = 0 THEN "SUBMITTED" ELSE "APPROVED", flags |-> {},
         tally |-> MadeUp(l, SummaryOf(l), index + 10)]

(* Slip: Hadejia is summed up like the others. *)
PutSummaryOfAll(write) ==
    /\ write.do = "summary"
    /\ collated' = IF SummaryOf(write.of) = "PENDING" THEN Restrict(collated, DOMAIN collated \ {write.of})
               ELSE With(collated, write.of, SummaryRow(write.of))
    /\ UNCHANGED <<places, accounts, logs, samples>>

(* seedStateLgaSummaries: Hadejia keeps what its wards add up to. *)
PutSummary(write) ==
    LET l == write.of
    IN  /\ write.do = "summary"
        /\ collated' = IF l = Hadejia /\ l \in DOMAIN collated THEN collated
                   ELSE IF SummaryOf(l) = "PENDING" THEN Restrict(collated, DOMAIN collated \ {l})
                   ELSE With(collated, l, SummaryRow(l))
        /\ UNCHANGED <<places, accounts, logs, samples>>

(* Looked for by its name or title, and created when it is not found. *)
PutSample(write) ==
    /\ write.do = "sample"
    /\ samples' = [samples EXCEPT ![write.of] = IF @ = 0 THEN 1 ELSE @]
    /\ UNCHANGED <<places, accounts, collated, logs>>

-----------------------------------------------------------------------------
Complete == at = Len(Program[seed]) + 1

(* The process ends at any write: a crash, or an error that a write throws. *)
CutOff ==
    /\ at \in DOMAIN Program[seed]
    /\ at' = 0
    /\ UNCHANGED <<places, accounts, collated, logs, samples, seed>>

Run ==
    /\ at = 0 \/ Complete
    /\ at' = 1
    /\ UNCHANGED <<places, accounts, collated, logs, samples, seed>>

(* Officers work with a complete seed: a unit is entered anew and decided, *)
(* and its ward counts it; a sample is removed; an officer is dismissed.   *)
Work ==
    /\ Complete
    /\ at' = 0
    /\ \/ \E w \in DOMAIN UnitCodes, status \in {"SUBMITTED", "APPROVED"} : \E u \in UnitsIn(w) \intersect Busy :
             LET decided == With(collated, u, [status |-> status, tally |-> {<<u, Typed>>}, flags |-> {}])
                 counted == {v \in UnitsIn(w) \intersect DOMAIN decided :
                                 decided[v].status = "APPROVED"}
             IN  /\ seed = "demo"
                 /\ collated' = With(decided, w, [status |-> "DRAFT", flags |-> {},
                                              tally |-> UNION {decided[v].tally : v \in counted}])
                 /\ UNCHANGED <<accounts, samples>>
       \/ \E s \in ToSet(SampleRows) : /\ samples' = [samples EXCEPT ![s] = 0]
                                       /\ seed = "demo"
                                       /\ UNCHANGED <<accounts, collated>>
       \/ \E o \in ToSet(Officers) : /\ accounts' = [accounts EXCEPT ![o] = Dismissed]
                                     /\ UNCHANGED <<collated, samples>>
    /\ UNCHANGED <<places, logs, seed>>

(* The next write of the program. *)
Write ==
    /\ at \in DOMAIN Program[seed]
    /\ at' = at + 1
    /\ UNCHANGED seed
    /\ \E write \in {Program[seed][at]} :
          \/ PutPlace(write) \/ Sweep(write) \/ PutUser(write) \/ PutMembership(write)
          \/ PutUnit(write) \/ PutLog(write) \/ PutWard(write) \/ PutLga(write)
          \/ PutSummary(write) \/ PutSample(write)

SeedNext == Write \/ CutOff \/ Run \/ Work

SeedSpec == SeedInit /\ [][SeedNext]_seedVars

-----------------------------------------------------------------------------
ToldInDetail == ToSet(ToldLgas) \union {Hadejia}

(* What a ward or LGA told in detail counts is what is approved below it.  *)
TotalsAddUp ==
    \A l \in ToldInDetail :
        /\ collated[l].tally = Sum(ApprovedOf(WardsIn(l)))
        /\ \A w \in WardsIn(l) : collated[w].tally = Sum(ApprovedOf(UnitsIn(w)))

(* The other LGAs have their sample, or no row while they are pending.     *)
SummariesStand ==
    \A l \in ToSet(StateLgas) \ ToldInDetail :
        IF SummaryOf(l) = "PENDING" THEN l \notin DOMAIN collated ELSE collated[l] = SummaryRow(l)

(***************************************************************************)
(* However often a seed was cut off and run again, and whatever officers   *)
(* did with what it left: once it completes, every ward and LGA told in    *)
(* detail counts what is approved below it, the other LGAs have their      *)
(* sample result, nothing was created twice, and nothing that an older     *)
(* seed made up is left; and the seeded users are active, in production    *)
(* with their membership (seed.ts 262-278, 325-601; seed-collation.ts      *)
(* 329-336, 434-447, 538-552, 862-877).                                    *)
(***************************************************************************)
SeedingSettles ==
    /\ \A e \in DOMAIN logs : logs[e] = 1
    /\ Complete =>
          /\ \A o \in ToSet(Officers) :
                /\ accounts[o].user = "active"
                /\ seed = "production" => accounts[o].member = "active"
          /\ \A l \in ToSet(StateLgas) : places \cap Placeholders[l] = {}
          /\ seed = "demo" => /\ TotalsAddUp /\ SummariesStand
                              /\ \A s \in ToSet(SampleRows) : samples[s] = 1

(* computeOutcome of the Situation Room, for APC. *)
OutcomeShown(results) ==
    LET others == Best(results, DOMAIN results \ {"APC"})
    IN  IF results["APC"] > others THEN "WIN" ELSE IF results["APC"] = others THEN "TIE" ELSE "LOSS"

(* The flags each kind of figures is to raise. *)
FlagsMeant(profile) ==
    CASE profile = "PARTY_MISMATCH" -> {"PARTY_SUM_NE_VALID", "USED_NE_SPOILED_REJECTED_VALID"}
      [] profile = "USED_MISMATCH" ->
           {"USED_NE_SPOILED_REJECTED_VALID", "ISSUED_NE_USED_UNUSED", "ACCREDITED_NE_USED"}
      [] profile = "ACCREDITED_OVER" -> {"ACCREDITED_GT_REGISTERED", "ACCREDITED_NE_USED"}
      [] OTHER -> {}

TellsItsStory(sheet) ==
    LET flags(sum) == ArithmeticFlags(SeedEc8aSheet(sum, sheet.profile), sum, sheet.profile)
        told(results) ==
            /\ OutcomeShown(results) = (CASE sheet.outcome \in Wins -> "WIN"
                                          [] sheet.outcome = "TIE" -> "TIE"
                                          [] OTHER -> "LOSS")
            /\ flags(FoldFunction(+, 0, results)) = FlagsMeant(sheet.profile)
    IN  told(OutcomePartyResults(sheet.outcome, sheet.index))

(***************************************************************************)
(* A unit, and an LGA that is only summed up, shows in the Situation Room  *)
(* the outcome it was just seeded for, and its figures fail exactly the    *)
(* checks they were made to fail (seed-collation.ts 43-149, 239-283,       *)
(* 879-883; collation-browse.service.ts 71-104; ocr-verification.ts        *)
(* 91-211).                                                                *)
(***************************************************************************)
SamplesTellTheirStory ==
    at - 1 \in DOMAIN Program[seed] =>
        \A write \in {Program[seed][at - 1]} :
            write.do \in {"unit", "summary"} /\ write.of \in DOMAIN collated =>
                \A counted \in collated[write.of].tally :
                    counted[1] = write.of => TellsItsStory(counted[2])
=============================================================================
