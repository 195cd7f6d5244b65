------------------------------- MODULE Ec8aPhotos -------------------------------
(***************************************************************************)
(* Filled forms EC8A, what Google Vision may make of their photos, and     *)
(* whether Ec8aReading reads them as they were filled.  The form and       *)
(* Vision are not code of the repository; their shape is that of the       *)
(* recorded answers in src/modules/collation/*.fixture.txt and of the      *)
(* texts in ocr-ec8a-parse.spec.ts.                                        *)
(***************************************************************************)
EXTENDS Ec8aReading

(* bound: the largest number written in thousands and hundreds *)
Largest == 999999

CONSTANTS
    VotesOfParty,   \* bound: the votes a party may have
    Rejected,       \* bound: rejected ballots
    AgentName,      \* per party's code, its agent's name or initial
    MaxAmount       \* bound: numbers written in words

ASSUME PhotosAssumption == /\ VotesOfParty \subseteq Nat
                           /\ Rejected \subseteq Nat
                           /\ MaxAmount \in Nat /\ MaxAmount <= Largest

(* The form lists its parties with serials that are looked for, and        *)
(* enough of them to be told by the places; a box holds no number that is   *)
(* too great for one (the limits of collectFormNumbers, of the party table *)
(* and of the places).                                                     *)
ASSUME FormAssumption ==
    /\ Len(Ballot) \in Enough..20
    /\ Boxed <= 16 + 2 * Len(Ballot)
    /\ \A votes \in [Code -> VotesOfParty], rejected \in Rejected :
          Total(votes) + rejected + 50 <= MostInBox

VARIABLES
    photo,      \* a filled form and what of it can be read
    extract,    \* what was read of it
    amount      \* a number somebody wrote in words

photoVars == <<photo, extract, amount>>

(* A number as an officer writes it, with or without "and". *)
TwoDigits(n) ==
    IF n = 0 THEN <<>>
    ELSE IF n < 20 THEN <<Ones[n]>>
    ELSE <<Tens[n \div 10]>> \o (IF n % 10 = 0 THEN <<>> ELSE <<Ones[n % 10]>>)

And(written) == IF written THEN <<"and">> ELSE <<>>

ThreeDigits(n, joined) ==
    IF n < 100 THEN TwoDigits(n)
    ELSE <<Ones[n \div 100], "hundred">>
           \o And(joined /\ n % 100 # 0) \o TwoDigits(n % 100)

WordsOf(n, joined) ==
    IF n = 0 THEN <<"zero">>
    ELSE IF n < 1000 THEN ThreeDigits(n, joined)
    ELSE ThreeDigits(n \div 1000, joined) \o <<"thousand">>
           \o And(joined /\ n % 1000 \in 1..99) \o ThreeDigits(n % 1000, joined)

(* A form on which the identities hold, for votes and rejected ballots. *)
Sheet(votes, rejected) ==
    LET valid == Total(votes)
        used == valid + rejected + 10
    IN  [parties |-> votes,
         fields |-> [b \in Box |-> CASE b = "registeredVoters" -> used + 40
                                    [] b = "ballotPapersIssued" -> used + 7
                                    [] b = "unusedBallotPapers" -> 7
                                    [] b = "spoiledBallotPapers" -> 10
                                    [] b = "invalidVotes" -> rejected
                                    [] b = "votesCast" -> valid
                                    [] b \in {"accreditedVoters", "usedBallotPapers"} -> used]]

(* figures, words: the parties whose votes are legible in figures, in words *)
(* apart: Vision gives the labels of the boxes first, then their values     *)
(* places: it gives the places of the words too                            *)
(* agents: among them the names of the parties' agents                     *)
Photos ==
    {ph \in [sheet : {Sheet(votes, rejected) :
                         votes \in [Code -> VotesOfParty], rejected \in Rejected},
             figures : SUBSET Code, words : SUBSET Code,
             apart : BOOLEAN, places : BOOLEAN, agents : BOOLEAN] :
        ph.agents => ph.places}

If(legible, line) == IF legible THEN <<line>> ELSE <<>>

(* The text Vision gives of a photo; the state's and the LGA's numbers stand *)
(* before the boxes.                                                       *)
TextOf(ph) ==
    LET place == <<Number(29), Heading("code"), Heading("name")>>
        labels == [k \in DOMAIN Boxes |-> Label(Boxes[k])]
        values == [k \in DOMAIN Boxes |-> Number(ph.sheet.fields[Boxes[k]])]
        summary == IF ph.apart THEN labels \o place \o values
                   ELSE place \o FlattenSeq([k \in DOMAIN Boxes |-> <<labels[k], values[k]>>])
        row(k) == LET c == Ballot[k]
                      votes == ph.sheet.parties[c]
                  IN  <<Number(k), PartyCode(c)>> \o If(c \in ph.figures, Number(votes))
                         \o If(c \in ph.words, InWords(WordsOf(votes, TRUE)))
        valid == ph.sheet.fields["votesCast"]
    IN  summary \o <<Heading("parties"), Heading("inWords"), Heading("agents")>>
          \o FlattenSeq([k \in DOMAIN Ballot |-> row(k)])
          \o <<Heading("total"), Number(valid), InWords(WordsOf(valid, TRUE))>>

(* The places it gives. *)
PlacesOf(ph) ==
    LET box(k) == [x \in {"hash", "value"} |->
                      IF x = "hash" THEN 0 ELSE ph.sheet.fields[Boxes[k]]]
        legible(c) == (IF c \in ph.figures THEN {"figure"} ELSE {})
                         \union (IF c \in ph.words THEN {"words"} ELSE {})
                         \union (IF ph.agents THEN {"agent"} ELSE {})
        row(k) == LET c == Ballot[k]
                      votes == ph.sheet.parties[c]
                  IN  [x \in {"serial", "code"} \union legible(c) |->
                          CASE x = "serial" -> k
                            [] x = "code"   -> c
                            [] x = "figure" -> votes
                            [] x = "words"  -> WordsOf(votes, TRUE)
                            [] x = "agent"  -> AgentName[c]]
    IN  IF ~ph.places THEN <<>>
        ELSE [k \in DOMAIN Boxes |-> box(k)] \o [k \in DOMAIN Ballot |-> row(k)]

Unseen == FinishExtract(Nothing, Nothing)

(* A form nobody voted on, of which no party's votes can be read. *)
EmptyForm == [sheet |-> Sheet([c \in Code |-> 0], 0), figures |-> {}, words |-> {},
              apart |-> FALSE, places |-> FALSE, agents |-> FALSE]

PhotosInit ==
    /\ extract = Unseen
    /\ \/ photo \in Photos /\ amount = 0
       \/ photo = EmptyForm /\ amount \in 0..MaxAmount

(* extractEc8a, from Vision's answer on; the agent's preview and the worker *)
(* both ask.                                                               *)
ExtractEc8a ==
    /\ extract' = ParseEc8aOcr(TextOf(photo), PlacesOf(photo))
    /\ UNCHANGED <<photo, amount>>

PhotosNext == ExtractEc8a

PhotosSpec == PhotosInit /\ [][PhotosNext]_photoVars

-----------------------------------------------------------------------------
(* A figure is its row's serial or the next, so it is not believed. *)
LikeSerial(ph, k) == ph.sheet.parties[Ballot[k]] \in {k, k + 1}

(* Every party's votes can be told. *)
Clear(ph) ==
    \/ ph.words = Code
    \/ /\ ph.words = {} /\ ph.figures = Code
       /\ \A k \in DOMAIN Ballot : ~LikeSerial(ph, k)

(* In the text a row seems to begin at a party's figure with its word      *)
(* behind: 11, 12, 20 and 30.                                              *)
SeemsRow(ph, c) ==
    LET votes == ph.sheet.parties[c]
    IN  /\ c \in ph.figures /\ c \in ph.words
        /\ votes \in 1..30 /\ IsPartyCode(InWords(WordsOf(votes, TRUE)))

(* By its place a word of a party's votes is taken for a code. *)
SeemsParty(ph, c) ==
    LET words == WordsOf(ph.sheet.parties[c], TRUE)
    IN  c \in ph.words /\ \E k \in DOMAIN words : words[k] \in TakenForCodes

(* Nothing on the form is taken for a party but the parties. *)
Plain(ph) ==
    /\ ~ph.agents
    /\ \A c \in Code : ~SeemsRow(ph, c) /\ (ph.places => ~SeemsParty(ph, c))

(* The names of agents that can be read. *)
AgentsOn(ph) == IF ph.agents THEN {AgentName[c] : c \in Code} ELSE {}

(***************************************************************************)
(* A number written in words is read as that number, to its last word and  *)
(* no further, whatever follows (parseNumberWords, ocr-ec8a-words.ts       *)
(* 127-181).                                                               *)
(***************************************************************************)
NumbersReadBack ==
    \A joined \in BOOLEAN :
        LET words == WordsOf(amount, joined)
            tokens == [k \in DOMAIN words |-> Word(words[k])] \o <<Digits(7), Word("one")>>
        IN  ParseNumberWords(tokens, 1) = [value |-> amount, next |-> Len(words) + 1]

(***************************************************************************)
(* A form that is filled and photographed well is read exactly: every box  *)
(* and every party, whether Vision gives the values after their labels or  *)
(* apart, with the words' places or without, and the numbers of places and *)
(* serials on the form are read as nothing else.  Where the places make a  *)
(* party of a word, the parties of the form are read exactly all the same, *)
(* unless the word is an agent's and a party's code                        *)
(* (ocr-ec8a-parse.ts 149-244, 303-465; ocr-ec8a-layout.ts 91-165).        *)
(***************************************************************************)
ClearFormReadExactly ==
    extract # Unseen /\ Clear(photo) =>
        /\ Plain(photo) => /\ extract.fields = photo.sheet.fields
                           /\ extract.parties = photo.sheet.parties
                           /\ extract.sure /\ ~extract.unreadable
        /\ photo.places => \A c \in Code \ AgentsOn(photo) :
                              /\ c \in DOMAIN extract.parties
                              /\ extract.parties[c] = photo.sheet.parties[c]

(***************************************************************************)
(* Where votes cannot be read, none are made up: with places, or with      *)
(* figures alone, no party of the form is given a serial or the votes of   *)
(* another, unless an agent's name is that party's code                    *)
(* (ocr-ec8a-parse.ts 236-240, 457-461; ocr-ec8a-layout.ts 124-161).       *)
(***************************************************************************)
GapsStayGaps ==
    LET byPlace == DOMAIN LayoutParties(PlacesOf(photo))
    IN  extract # Unseen /\ (\/ Cardinality(byPlace) >= Enough
                             \/ ~photo.places /\ photo.words = {}) =>
            \A c \in DOMAIN extract.parties \cap (Code \ AgentsOn(photo)) :
                extract.parties[c] = photo.sheet.parties[c]

(* The form typed as it is, or with one value that is wrong by one. *)
Typed ==
    LET s == photo.sheet
    IN  {s} \union {[s EXCEPT !.fields[b] = @ + 1] : b \in Box}
            \union {[s EXCEPT !.parties[c] = @ + 1] : c \in Code}

(***************************************************************************)
(* Of a clear photo on which nothing else is taken for a party, the        *)
(* officer is advised to approve exactly what was typed as it is on the    *)
(* form, and told of the value that was not (mergeVisionWithArithmetic,    *)
(* ocr-ec8a-parse.ts 473-579).                                             *)
(***************************************************************************)
AdviceFollowsForm ==
    extract # Unseen /\ Clear(photo) /\ Plain(photo) =>
        \A typed \in Typed :
            LET merged == MergeVisionWithArithmetic(typed, extract)
            IN  /\ merged.recommendation = IF typed = photo.sheet THEN "APPROVE" ELSE "RETURN"
                /\ merged.differing = Differing(typed.fields, photo.sheet.fields)
                                        \union Differing(typed.parties, photo.sheet.parties)

(***************************************************************************)
(* "RETURN - identities fail, or typed numbers disagree with the photo"    *)
(* (docs/OCR.md 118): what is typed as it stands on a clear form is not    *)
(* returned.  The code's test for a party's code passes words of numbers   *)
(* (TWENTY): each is a party with the votes of its row, and the parties'   *)
(* sum differs from the typed valid votes.                                 *)
(***************************************************************************)
CorrectFormIsNotReturned ==
    extract # Unseen /\ Clear(photo) /\ AgentsOn(photo) = {} =>
        MergeVisionWithArithmetic(photo.sheet, extract).recommendation # "RETURN"
=============================================================================
