------------------------------ MODULE Ec8aReading ------------------------------
(***************************************************************************)
(* From the photo of a polling unit's form EC8A to figures, and to the     *)
(* verdict about the figures its agent typed (ocr-ec8a-words.ts,           *)
(* ocr-ec8a-layout.ts, ocr-ec8a-parse.ts, ocr-verification.ts).            *)
(*                                                                         *)
(* Google Vision gives a page twice: as text, line after line, and as      *)
(* words with their places.  A line of the text is a label of one of the   *)
(* eight boxes, a number, a party's code, a number in words, the word Code *)
(* beside a place's number, or a heading; a distance of so many characters *)
(* is one of lines.  A place is a line of the form and a column.  What     *)
(* could not be read is absent from a function's domain.                   *)
(***************************************************************************)
EXTENDS Integers, SequencesExt

CONSTANTS
    Ballot,     \* the codes of the parties on the form, in its order
    Tracked,    \* the codes of those the campaign tracks
    OneLetter,  \* codes of a single letter
    Enough,     \* how many parties make a table believable (8)
    Near,       \* lines after a label that its value is looked for in (80 characters)
    Close,      \* lines after a code that its votes are (24 characters)
    Boxed       \* how many placed words are worth looking at (30)

Code == {Ballot[i] : i \in DOMAIN Ballot}

(* The words of numbers that have the shape of a code and are not among    *)
(* those isPartyCode knows better of (PARTY_CODE_STOP).                    *)
TakenForCodes == {"eleven", "twelve", "twenty", "thirty", "sixty", "eighty", "ninety"}

ASSUME ReadingAssumption ==
    /\ Ballot \in Seq(Code)
    /\ \A i, j \in DOMAIN Ballot : Ballot[i] = Ballot[j] => i = j
    /\ Tracked \subseteq Code /\ OneLetter \subseteq Code
    /\ Code \cap TakenForCodes = {}
    /\ {Enough, Near, Close, Boxed} \subseteq Nat \ {0}

(* The boxes #1 to #8. *)
Boxes == <<"registeredVoters", "accreditedVoters", "ballotPapersIssued",
           "unusedBallotPapers", "spoiledBallotPapers", "invalidVotes",
           "votesCast", "usedBallotPapers">>
Box == {Boxes[k] : k \in DOMAIN Boxes}

Nothing == [x \in {} |-> 0]

(* What f gives, and elsewhere what g gives. *)
Over(f, g) == [x \in DOMAIN f \union DOMAIN g |-> IF x \in DOMAIN f THEN f[x] ELSE g[x]]

-----------------------------------------------------------------------------
(* Numbers in words.  A token is a word or a number in digits. *)
Ones == <<"one", "two", "three", "four", "five", "six", "seven", "eight", "nine",
          "ten", "eleven", "twelve", "thirteen", "fourteen", "fifteen", "sixteen",
          "seventeen", "eighteen", "nineteen">>
Tens == <<"ten", "twenty", "thirty", "forty", "fifty", "sixty", "seventy", "eighty",
          "ninety">>

Word(w)  == [word |-> w, digits |-> -1]
Digits(n) == [word |-> "digits", digits |-> n]

IsOne(w) == \E n \in 1..19 : Ones[n] = w
OneOf(w) == CHOOSE n \in 1..19 : Ones[n] = w
IsTen(w) == \E n \in 2..9 : Tens[n] = w
TenOf(w) == 10 * CHOOSE n \in 2..9 : Tens[n] = w
OrOne(n) == IF n = 0 THEN 1 ELSE n

(* The loop of parseNumberWords between two tokens, and as it begins.      *)
Reader(total, current, next) ==
    [total |-> total, current |-> current, next |-> next, open |-> TRUE]
Began(i) == Reader(0, 0, i)

(* Slip: units after tens end the number. *)
ReadWordTensAlone(n, w) ==
    LET went(total, current) == Reader(total, current, n.next + 1)
    IN  IF ~n.open THEN n
        ELSE IF w = "and" THEN went(n.total, n.current)
        ELSE IF IsOne(w) /\ n.current = 0 THEN went(n.total, n.current + OneOf(w))
        ELSE IF IsTen(w) /\ n.current % 100 = 0 THEN went(n.total, n.current + TenOf(w))
        ELSE IF w = "hundred" THEN went(n.total, OrOne(n.current) * 100)
        ELSE IF w = "thousand" THEN went(n.total + OrOne(n.current) * 1000, 0)
        ELSE [n EXCEPT !.open = FALSE]

(***************************************************************************)
(* One round of it: units are added to what ends in a zero and is not ten, *)
(* tens to full hundreds; any other word ends the number.                  *)
(***************************************************************************)
ReadWord(n, w) ==
    LET went(total, current) == Reader(total, current, n.next + 1)
    IN  IF ~n.open THEN n
        ELSE IF w = "and" THEN went(n.total, n.current)
        ELSE IF IsOne(w) /\ n.current \notin 1..19 /\ n.current % 10 = 0
             THEN went(n.total, n.current + OneOf(w))
        ELSE IF IsTen(w) /\ n.current % 100 = 0 THEN went(n.total, n.current + TenOf(w))
        ELSE IF w = "hundred" THEN went(n.total, OrOne(n.current) * 100)
        ELSE IF w = "thousand" THEN went(n.total + OrOne(n.current) * 1000, 0)
        ELSE [n EXCEPT !.open = FALSE]

SumWords(tokens, i) ==
    LET read[k \in 0..Len(tokens)] ==
            IF k < i THEN Began(i) ELSE ReadWord(read[k - 1], tokens[k].word)
        end == read[Len(tokens)]
    IN  [value |-> end.total + end.current, next |-> end.next]

(* The number in words that starts at token i and where it ends (at i when *)
(* none starts there).                                                     *)
ParseNumberWords(tokens, i) ==
    LET w == IF i \in DOMAIN tokens THEN tokens[i].word ELSE "end"
    IN  IF w = "zero" THEN [value |-> 0, next |-> i + 1]
        ELSE IF w = "and" THEN [value |-> 0, next |-> i]
        ELSE SumWords(tokens, i)

-----------------------------------------------------------------------------
(* The lines of the text. *)
Label(box)     == [is |-> "label", of |-> box]
Number(n)      == [is |-> "number", of |-> n]
PartyCode(c)   == [is |-> "code", of |-> c]
InWords(words) == [is |-> "words", of |-> words]
Heading(name)  == [is |-> "heading", of |-> name]

(* isPartyCode, of a line that is a single word, and the code it gives. *)
IsPartyCode(line) ==
    \/ line.is = "code"
    \/ line.is = "words" /\ Len(line.of) = 1 /\ line.of[1] \in TakenForCodes
CodeOf(line) == IF line.is = "code" THEN line.of ELSE line.of[1]

At(page, i, is) == i \in DOMAIN page /\ page[i].is = is
HeadingAt(page, i, name) == At(page, i, "heading") /\ page[i].of = name
Headings(page, name) == {i \in DOMAIN page : HeadingAt(page, i, name)}

(* The number of a place stands beside the word Code. *)
LooksLikeLocationCode(page, i) ==
    page[i].of < 1000 /\ \E j \in {i - 1, i + 1} : HeadingAt(page, j, "code")

(* A greater number is no value of a box. *)
MostInBox == 50000

(* Slip: numbers of places are kept. *)
FormNumbersOfPlaces(page) ==
    {i \in DOMAIN page : page[i].is = "number" /\ page[i].of <= MostInBox}

(* collectFormNumbers *)
FormNumbers(page) ==
    {i \in DOMAIN page : /\ page[i].is = "number"
                         /\ page[i].of <= MostInBox
                         /\ ~LooksLikeLocationCode(page, i)}

TooSmallForField(box, n) ==
    box \in {"registeredVoters", "accreditedVoters", "ballotPapersIssued",
             "usedBallotPapers"} /\ n < 10

(* findLabels: where each box is first named. *)
Labels(page) ==
    {i \in DOMAIN page : /\ page[i].is = "label"
                         /\ \A j \in 1..(i - 1) : page[j] # page[i]}

InOrder(S) ==
    [k \in 1..Cardinality(S) |-> CHOOSE i \in S : Cardinality({j \in S : j <= i}) = k]

(***************************************************************************)
(* assignClusteredFields, line by line.  Labels without a number between   *)
(* them are open together, and each number after them goes to the first    *)
(* that is still open, unless it is too small for it; the next label after *)
(* a number closes them.                                                   *)
(***************************************************************************)
FillLine(f, page, i) ==
    IF i \in Labels(page)
    THEN [f EXCEPT !.open = Append(IF f.seen THEN <<>> ELSE f.open, page[i].of), !.seen = FALSE]
    ELSE IF i \in FormNumbers(page) /\ f.open # <<>> /\ ~TooSmallForField(Head(f.open), page[i].of)
    THEN [open |-> Tail(f.open), seen |-> TRUE,
          fields |-> Over([b \in {Head(f.open)} |-> page[i].of], f.fields)]
    ELSE [f EXCEPT !.seen = f.seen \/ i \in FormNumbers(page)]

AssignClusteredFields(page) ==
    LET filled[i \in 0..Len(page)] ==
            IF i = 0 THEN [open |-> <<>>, seen |-> FALSE, fields |-> Nothing]
            ELSE FillLine(filled[i - 1], page, i)
    IN  filled[Len(page)].fields

(***************************************************************************)
(* applyPatternFields: a box without a value gets the first number of the  *)
(* next lines, if its label stands before the party table and the number   *)
(* is not too small.                                                       *)
(***************************************************************************)
ApplyPatternFields(page, fields) ==
    LET table == Headings(page, "parties")
        after(l) == FormNumbers(SubSeq(page, l + 1, l + Near))
        useful(l) == page[l + Min(after(l))].of
        labels == {l \in Labels(page) :
                     /\ page[l].of \notin DOMAIN fields
                     /\ \A h \in table : l < Min(table)
                     /\ after(l) # {}
                     /\ ~TooSmallForField(page[l].of, useful(l))}
        found == [b \in {page[l].of : l \in labels} |->
                     useful(CHOOSE l \in labels : page[l].of = b)]
    IN  Over(fields, found)

-----------------------------------------------------------------------------
(* The party table: a serial, a code, and its votes in figures. *)
Row(code, votes) == [code |-> code, votes |-> votes]
NoVotes == -1

(***************************************************************************)
(* The figure after a code, unless it is this row's or the next row's      *)
(* serial; whether the next serial follows makes no difference.            *)
(***************************************************************************)
VotesOfRow(page, i) ==
    IF At(page, i + 2, "number") /\ page[i + 2].of \notin {page[i].of, page[i].of + 1}
    THEN page[i + 2].of ELSE NoVotes

(* Where "total valid votes" is read after line `from`. *)
TotalAfter(page, from) ==
    Min({Len(page) + 1} \union
        {i \in (from + 1)..Len(page) : \/ HeadingAt(page, i, "total")
                                      \/ page[i] = Label("votesCast")})

(***************************************************************************)
(* A row begins at a number that is followed by what looks like a code; a  *)
(* party's figure with its word behind (12, twelve) looks like one too.    *)
(***************************************************************************)
ExtractPartyTable(page) ==
    LET start == Min(Headings(page, "parties"))
        end == TotalAfter(page, start)
        block == SubSeq(page, 1, end - 1)
        rows == InOrder({i \in start..(end - 1) :
                            /\ At(block, i, "number") /\ block[i].of \in 1..30
                            /\ i + 1 \in DOMAIN block /\ IsPartyCode(block[i + 1])})
    IN  IF Headings(page, "parties") = {} THEN <<>>
        ELSE [k \in DOMAIN rows |->
                 Row(CodeOf(block[rows[k] + 1]), VotesOfRow(block, rows[k]))]

(* tokenizeOcr of lines from..Len(page): a label names its number. *)
Tokens(page, from) ==
    LET of(line) == CASE line.is = "words"  -> [k \in DOMAIN line.of |-> Word(line.of[k])]
                      [] line.is = "number" -> <<Digits(line.of)>>
                      [] OTHER              -> <<Word("other")>>
    IN  FlattenSeq([k \in 1..(Len(page) - from + 1) |-> of(page[from + k - 1])])

(***************************************************************************)
(* extractWordScoresFrom, at most `most` of them: numbers                  *)
(* in words, and digits that the words after them repeat.                  *)
(***************************************************************************)
WordScoresFrom(tokens, most) ==
    LET scores[i \in 1..(Len(tokens) + 2)] ==
            LET here == ParseNumberWords(tokens, i)
                then == ParseNumberWords(tokens, i + 1)
            IN  [left \in 0..most |->
                    IF i > Len(tokens) \/ left = 0 THEN <<>>
                    ELSE IF here.next > i THEN <<here.value>> \o scores[here.next][left - 1]
                    ELSE IF then.next > i + 1 /\ tokens[i].digits = then.value
                         THEN <<then.value>> \o scores[then.next][left - 1]
                    ELSE scores[i + 1][left]]
    IN  scores[1][most]

(* One score too many is the total's, and others are left out. *)
ScoresFrom(page, from, expected) ==
    LET text == SubSeq(page, 1, TotalAfter(page, from) - 1)
        first(scores) == SubSeq(scores, 1, Min({Len(scores), expected}))
    IN  first(WordScoresFrom(Tokens(text, from), expected + 2))

Distance(a, b) == IF a < b THEN b - a ELSE a - b
Zeros(scores) == Cardinality({k \in DOMAIN scores : scores[k] = 0})

(* Of two lists the one nearer in number to the parties, then that with     *)
(* more zeros.                                                             *)
Better(a, b, expected) ==
    LET fit(scores) == Distance(Len(scores), expected)
    IN  IF \/ fit(b) < fit(a)
           \/ fit(b) = fit(a) /\ Zeros(b) > Zeros(a)
        THEN b ELSE a

(* extractWordScores: after the head of the words column, or after the     *)
(* table.                                                                  *)
ExtractWordScores(page, expected) ==
    LET inWords == Headings(page, "inWords")
        agents == {h \in Headings(page, "agents") : h = Min(Headings(page, "agents"))}
                  \union {l \in Labels(page) : page[l].of = "usedBallotPapers"}
        a == ScoresFrom(page, Min(inWords), expected)
        b == ScoresFrom(page, Max(agents), expected)
    IN  CASE inWords = {} /\ agents = {} -> <<>>
          [] inWords = {} /\ agents # {} -> b
          [] inWords # {} /\ agents = {} -> a
          [] OTHER -> Better(a, b, expected)

Lesser(a, b) == IF a < b THEN a ELSE b

(* Words in the order of the rows when there are enough of them, with the  *)
(* figures behind; else figures alone.                                     *)
VotesOfTable(table, words) ==
    LET enough == Len(words) >= Lesser(Enough, Len(table))
        votes(k) == IF enough /\ k \in DOMAIN words THEN words[k] ELSE table[k].votes
        read == {k \in DOMAIN table : votes(k) # NoVotes}
    IN  [c \in {table[k].code : k \in read} |->
            votes(Max({k \in read : table[k].code = c}))]

(* extractPartiesFromWordsAndTable *)
ExtractPartiesFromWordsAndTable(page) ==
    LET wordsFor(table) == ExtractWordScores(page, IF table = <<>> THEN 18 ELSE Len(table))
        read(table) == VotesOfTable(table, wordsFor(table))
    IN  read(ExtractPartyTable(page))

(* extractPartiesByCode: the number shortly after a tracked party's code,   *)
(* unless the line after it and a code look like the next row.             *)
ExtractPartiesByCode(page) ==
    LET after(i) == {j \in (i + 1)..(i + Close) : At(page, j, "number")}
        row(j) == /\ page[j].of \in 1..30
                  /\ At(page, j + 1, "number") /\ page[j + 1].of < 100
                  /\ At(page, j + 2, "code")
        codes == {i \in DOMAIN page : /\ page[i].is = "code"
                                      /\ page[i].of \in Tracked \ OneLetter
                                      /\ after(i) # {}}
        first(c) == Min({i \in codes : page[i].of = c})
        read == {c \in {page[i].of : i \in codes} : ~row(Min(after(first(c))))}
    IN  [c \in read |-> page[Min(after(first(c)))].of]

-----------------------------------------------------------------------------
Total(votes) == SumFunction(votes)
OrZero(fields, box) == IF box \in DOMAIN fields THEN fields[box] ELSE 0

(* The value is `new` when `because` holds. *)
Fill(fields, box, because, new) ==
    IF because THEN Over([b \in {box} |-> new], fields) ELSE fields

(***************************************************************************)
(* reconcileExtract: the parties' sum stands for missing or nonsensical    *)
(* valid votes, and the ballots that were used and issued follow from the  *)
(* others where they are missing.                                          *)
(***************************************************************************)
ReconcileExtract(fields, parties) ==
    LET sum == Total(parties)
        f1 == Fill(fields, "votesCast", /\ parties # Nothing /\ sum >= 10
                                        /\ OrZero(fields, "votesCast") < 10, sum)
        f2 == Fill(f1, "usedBallotPapers",
                   "votesCast" \in DOMAIN f1 /\ "usedBallotPapers" \notin DOMAIN f1,
                   OrZero(f1, "spoiledBallotPapers") + OrZero(f1, "invalidVotes")
                      + OrZero(f1, "votesCast"))
        f3 == Fill(f2, "usedBallotPapers",
                   "accreditedVoters" \in DOMAIN f2 /\ "usedBallotPapers" \notin DOMAIN f2,
                   OrZero(f2, "accreditedVoters"))
    IN  Fill(f3, "ballotPapersIssued",
             /\ "ballotPapersIssued" \notin DOMAIN f3
             /\ {"usedBallotPapers", "unusedBallotPapers"} \subseteq DOMAIN f3,
             OrZero(f3, "usedBallotPapers") + OrZero(f3, "unusedBallotPapers"))

(* finishExtract: sure when the form's sums hold; unreadable with no more  *)
(* than seven values and no such sum (a confidence below 0.45).            *)
FinishExtract(fields, parties) ==
    LET read == Cardinality(DOMAIN fields) + Cardinality(DOMAIN parties)
        holds == \/ /\ parties # Nothing /\ "votesCast" \in DOMAIN fields
                    /\ Total(parties) = fields["votesCast"]
                 \/ /\ {"usedBallotPapers", "spoiledBallotPapers", "invalidVotes",
                        "votesCast"} \subseteq DOMAIN fields
                    /\ fields["usedBallotPapers"] =
                          fields["spoiledBallotPapers"] + fields["invalidVotes"]
                             + fields["votesCast"]
    IN  [fields |-> fields, parties |-> parties,
         sure |-> read > 0 /\ holds,
         unreadable |-> ~holds /\ read <= 7]

Extract(fields, parties) == FinishExtract(ReconcileExtract(fields, parties), parties)

(* parseEc8aOcrText: parties by their codes where the table is short. *)
ParseEc8aOcrText(page) ==
    LET byCode == IF Len(ExtractPartyTable(page)) < Enough
                  THEN ExtractPartiesByCode(page) ELSE Nothing
    IN  Extract(ApplyPatternFields(page, AssignClusteredFields(page)),
                Over(ExtractPartiesFromWordsAndTable(page), byCode))

-----------------------------------------------------------------------------
(***************************************************************************)
(* The words with their places: rows of the form (clusterRows), each a     *)
(* function of the columns that were read.  A summary row begins with "#". *)
(***************************************************************************)
Column == {"hash", "value", "serial", "code", "figure", "words", "agent"}

(* With seven marks or more, each in turn is taken for that of the next box. *)
LayoutSummary(rows) ==
    LET hashes == InOrder({r \in DOMAIN rows : "hash" \in DOMAIN rows[r]})
        read == {k \in DOMAIN hashes \cap DOMAIN Boxes : "value" \in DOMAIN rows[hashes[k]]}
    IN  IF Len(hashes) < 7 THEN Nothing
        ELSE [b \in {Boxes[k] : k \in read} |->
                 LET k == CHOOSE j \in read : Boxes[j] = b IN rows[hashes[k]]["value"]]

(* The number in words of one row. *)
RowInWords(row) ==
    ParseNumberWords(IF "words" \in DOMAIN row
                     THEN [k \in DOMAIN row["words"] |-> Word(row["words"][k])] ELSE <<>>, 1)

(* The votes beside a row's code: words before figures, and no figure that *)
(* is the row's serial.                                                    *)
RowVotes(row) ==
    IF RowInWords(row).next > 1 THEN RowInWords(row).value
    ELSE IF "figure" \in DOMAIN row /\ row["figure"] # row["serial"]
         THEN row["figure"] ELSE NoVotes

(***************************************************************************)
(* Every word of a row is tried for a code, those of its number and the    *)
(* name of the party's agent too.  What stands right of the figures has    *)
(* the votes in words, or none.                                            *)
(***************************************************************************)
TakenIn(row) ==
    {row["code"]} \union
    (IF RowInWords(row).next = 1 THEN {}
     ELSE (TakenForCodes \cap {row["words"][k] : k \in DOMAIN row["words"]})
          \union (IF "agent" \in DOMAIN row THEN {row["agent"]} ELSE {}))

LayoutParties(rows) ==
    LET read == {r \in DOMAIN rows : /\ {"code", "serial"} \subseteq DOMAIN rows[r]
                                     /\ rows[r]["serial"] \in 1..20
                                     /\ RowVotes(rows[r]) # NoVotes}
    IN  [c \in UNION {TakenIn(rows[r]) : r \in read} |->
            RowVotes(rows[Max({r \in read : c \in TakenIn(rows[r])})])]

Placed(rows) == Cardinality(UNION {{r} \X DOMAIN rows[r] : r \in DOMAIN rows})

(* Slip: a party the places do not show is taken from the text. *)
ParseEc8aOcrFilling(page, rows) ==
    LET with(text) == Extract(Over(LayoutSummary(rows), text.fields),
                              Over(LayoutParties(rows), text.parties))
    IN  IF Placed(rows) < Boxed THEN ParseEc8aOcrText(page) ELSE with(ParseEc8aOcrText(page))

(* parseEc8aOcr: places before text; the text's parties only when the      *)
(* places show few.                                                        *)
ParseEc8aOcr(page, rows) ==
    LET few(parties) == Cardinality(DOMAIN parties) < Enough
        parties(text) == IF few(LayoutParties(rows)) THEN Over(LayoutParties(rows), text.parties)
                         ELSE LayoutParties(rows)
        with(text) == Extract(Over(LayoutSummary(rows), text.fields), parties(text))
    IN  IF Placed(rows) < Boxed THEN ParseEc8aOcrText(page) ELSE with(ParseEc8aOcrText(page))

-----------------------------------------------------------------------------
(***************************************************************************)
(* arithmeticVerification: the identities of the form that typed figures   *)
(* break.  One is asked only of the boxes that were typed.                 *)
(***************************************************************************)
ArithmeticFlags(typed) ==
    LET f == typed.fields
        has(b) == b \in DOMAIN f
        either(B) == B \cap DOMAIN f # {}
        used == OrZero(f, "spoiledBallotPapers") + OrZero(f, "invalidVotes")
                   + OrZero(f, "votesCast")
        issued == OrZero(f, "usedBallotPapers") + OrZero(f, "unusedBallotPapers")
        broken == [ACCREDITED_GT_REGISTERED |->
                      /\ has("accreditedVoters") /\ has("registeredVoters")
                      /\ f["accreditedVoters"] > f["registeredVoters"],
                   PARTY_SUM_NE_VALID |->
                      /\ typed.parties # Nothing /\ has("votesCast")
                      /\ Total(typed.parties) # f["votesCast"],
                   USED_NE_SPOILED_REJECTED_VALID |->
                      /\ has("usedBallotPapers")
                      /\ either({"spoiledBallotPapers", "invalidVotes", "votesCast"})
                      /\ f["usedBallotPapers"] # used,
                   ISSUED_NE_USED_UNUSED |->
                      /\ has("ballotPapersIssued")
                      /\ either({"usedBallotPapers", "unusedBallotPapers"})
                      /\ f["ballotPapersIssued"] # issued,
                   ACCREDITED_NE_USED |->
                      /\ has("accreditedVoters") /\ has("usedBallotPapers")
                      /\ f["accreditedVoters"] # f["usedBallotPapers"]]
    IN  {flag \in DOMAIN broken : broken[flag]}

(* The boxes and parties both have with different values. *)
Differing(a, b) == {x \in DOMAIN a \cap DOMAIN b : a[x] # b[x]}

(* Slip: of the parties' votes only the sum is compared. *)
MergeVisionComparingSums(typed, extract) ==
    LET boxes == Differing(typed.fields, extract.fields)
        sumDiffers == /\ extract.parties # Nothing
                      /\ "votesCast" \in DOMAIN typed.fields
                      /\ Total(extract.parties) # typed.fields["votesCast"]
        return == \/ ArithmeticFlags(typed) # {}
                  \/ ~extract.unreadable /\ (boxes # {} \/ sumDiffers)
    IN  [differing |-> IF extract.unreadable THEN {} ELSE boxes,
         status |-> IF return THEN "MISMATCH"
                    ELSE IF extract.unreadable THEN "UNREADABLE" ELSE "MATCH",
         recommendation |-> IF return THEN "RETURN"
                            ELSE IF extract.unreadable THEN "CHECK_PHOTO" ELSE "APPROVE"]

(* mergeVisionWithArithmetic: what differs between the typed figures and   *)
(* the photo, and what the officer is advised.                             *)
MergeVisionWithArithmetic(typed, extract) ==
    LET boxes == Differing(typed.fields, extract.fields)
        codes == Differing(typed.parties, extract.parties)
        sumDiffers == /\ extract.parties # Nothing
                      /\ "votesCast" \in DOMAIN typed.fields
                      /\ Total(extract.parties) # typed.fields["votesCast"]
        differs == ~extract.unreadable /\ (boxes \union codes # {} \/ sumDiffers)
        return == ArithmeticFlags(typed) # {} \/ differs
    IN  [differing |-> IF extract.unreadable THEN {} ELSE boxes \union codes,
         status |-> IF return THEN "MISMATCH"
                    ELSE IF extract.unreadable THEN "UNREADABLE" ELSE "MATCH",
         recommendation |-> IF return THEN "RETURN"
                            ELSE IF extract.unreadable THEN "CHECK_PHOTO" ELSE "APPROVE"]
=============================================================================
