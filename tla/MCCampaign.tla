------------------------------- MODULE MCCampaign -------------------------------
(***************************************************************************)
(* Four instances that share no row, checked side by side: one request at  *)
(* a time on a ward of two polling units, overlapping requests on a ward   *)
(* of one with two sessions of its office, support groups and their        *)
(* commitments, and the seeds of a small state that has each case of the   *)
(* real one.                                                               *)
(***************************************************************************)
EXTENDS CollationOneAtATime, CollationAsyncProperties, Commitments, Seeding

CONSTANTS p1, p2, p3, w1, w2, l1, f1, a1, a2, a3, b1, b2, b3, c1, c2, g1, g2, d1, d2

VARIABLE desk   \* the desk this behaviour is about

Units == {p1, p2, p3, w1, w2, l1}
Levels == (p1 :> "POLLING_UNIT") @@ (p2 :> "POLLING_UNIT") @@ (p3 :> "POLLING_UNIT")
          @@ (w1 :> "WARD") @@ (w2 :> "WARD") @@ (l1 :> "LGA")
Parents == (p1 :> w1) @@ (p2 :> w1) @@ (p3 :> w2) @@ (w1 :> l1) @@ (w2 :> l1)

(* A client for each office, one served after the other; and, of the other *)
(* ward, two for the office whose approvals and rollups race.             *)
InTurn == (a1 :> p1) @@ (a2 :> p2) @@ (b1 :> w1) @@ (c1 :> l1)
AtOnce == (a3 :> p3) @@ (b2 :> w2) @@ (b3 :> w2) @@ (c2 :> l1)
OfficersHere == InTurn @@ AtOnce
Clients == DOMAIN OfficersHere

-----------------------------------------------------------------------------
TheLgas == <<"Dutse", "Gagarawa", "Gumel", "Hadejia", "Miga">>
TheWards == [l \in ToSet(TheLgas) |->
    CASE l = "Dutse"   -> <<"Chamo", "Kudai">>
      [] l = "Gumel"   -> <<"Baikarya", "Danama">>
      [] l = "Hadejia" -> <<"Atafi", "Dubantu", "Gagulmari", "Kofa", "Majema">>
      [] OTHER         -> <<>>]
TheUnits ==
    ("Atafi" :> <<"u01", "u02", "u03", "u04", "u05", "u06", "u07">>)
    @@ ("Dubantu" :> <<"u08", "u09", "u10", "u11", "u12">>) @@ ("Gagulmari" :> <<"u13", "u14">>)
    @@ ("Kofa" :> <<"u15">>) @@ ("Majema" :> <<"u16", "u17">>)
    @@ ("Chamo" :> <<"u21", "u22", "u23">>) @@ ("Kudai" :> <<"u24", "u25">>)
    @@ ("Baikarya" :> <<"u26">>) @@ ("Danama" :> <<"u27", "u28", "u29">>)
TheOverrides == ("Dutse" :> "LANDSLIDE_LOSS") @@ ("Gagarawa" :> "PENDING")
                @@ ("Gumel" :> "LOSS") @@ ("Hadejia" :> "WIN")
ThePlaceholders == [l \in ToSet(TheLgas) |-> IF l = "Hadejia" THEN {"v1", "v2"} ELSE {}]
TheTargets == <<"Dutse", "Gumel">>
TheOfficers == <<"director", "agent">>
TheSamples == <<"group", "commitment", "report">>
BusyUnits == {"u01", "u12", "u23", "u24"}
TheParties == <<"AAC", "AA", "ADC", "APC", "APP", "APM", "BP", "LP", "NNPP", "NRM", "PDP", "PRP",
                "SDP", "YPP", "ZLP", "APGA", "RM", "NUP">>

-----------------------------------------------------------------------------
allVars == <<serialVars, commitmentVars, seedVars, desk>>

DesksInit ==
    /\ SerialInit /\ CommitmentsInit /\ SeedInit
    /\ desk \in {"collation", "sessions", "commitments", "seeds"}
    /\ desk # "seeds" => places = {} /\ seed = "demo"

OneByOne == (\E r \in DOMAIN InTurn : Serve(r)) /\ UNCHANGED <<commitmentVars, seedVars>>

Overlapping ==
    /\ \E r \in DOMAIN AtOnce : Arrive(r) \/ Resume(r)
    /\ UNCHANGED <<seen, commitmentVars, seedVars>>

DesksNext ==
    /\ UNCHANGED desk
    /\ \/ desk = "collation" /\ OneByOne
       \/ desk = "sessions" /\ Overlapping
       \/ desk = "commitments" /\ CommitmentsNext /\ UNCHANGED <<serialVars, seedVars>>
       \/ desk = "seeds" /\ SeedNext /\ UNCHANGED <<serialVars, commitmentVars>>

(* Updates under way and the two sessions of an office are alike, and so    *)
(* are groups and campaigns where nobody looks at who is located.          *)
Alike == UNION {Permutations(S) : S \in {{g1, g2}, {d1, d2}, {b2, b3}, Campaign}}

(***************************************************************************)
(* The view leaves out what no guard reads: whether a group is located;    *)
(* and, where requests overlap and only who is asked matters, the log, the *)
(* figures, the totals and the reasons.                                    *)
(***************************************************************************)
Guarding ==
    IF desk # "sessions" THEN <<rows, lastLog, req>>
    ELSE <<[u \in Unit |-> Without(rows[u], {"tally", "reason"})],
           [r \in Client |-> Without(req[r], {"tally", "reason", "fig"})]>>
WithoutUnread ==
    <<Guarding, torn, seen, [g \in DOMAIN groups |-> groups[g].campaign],
      commitments, given, patch, crossed, seedVars, desk>>

DesksSpec == DesksInit /\ [][DesksNext]_allVars
=============================================================================
