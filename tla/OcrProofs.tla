------------------------------ MODULE OcrProofs ------------------------------
(***************************************************************************)
(* The verification of EC8A forms.                                         *)
(*                                                                         *)
(* The queue: while RabbitMQ stays connected, the last word on a submitted *)
(* result is a verdict about what the result holds: VerdictSettled, for    *)
(* every number of results, fields, photos, queued jobs and crashes.       *)
(*                                                                         *)
(* The reading: a number in words is read back as that number, whatever    *)
(* follows it (NumbersReadBack); a clear form is read exactly, from its    *)
(* text and from the places of its words (ClearFormReadExactly); where     *)
(* votes cannot be read none are made up (GapsStayGaps); and the advice on *)
(* a clear form is right (AdviceFollowsForm).  For every ballot, every     *)
(* distance a value is looked for in, and all votes a box can hold.  The   *)
(* proof goes the way of the code: the lines of a form's text and where    *)
(* they stand, the boxes, the table, the tokens of the rows, and the       *)
(* places.                                                                 *)
(***************************************************************************)
EXTENDS OcrVerification, Ec8aPhotos, SumTheorems, SequenceTheorems

(* A message in a sequence. *)
Has(q, r) == \E i \in 1..Len(q) : q[i] = r

(* Appending a message loses none and adds that one. *)
LEMMA AppendHas ==
    ASSUME NEW q \in Seq(Result), NEW x \in Result, NEW r
    PROVE  /\ Append(q, x) \in Seq(Result)
           /\ Has(q, r) \/ x = r => Has(Append(q, x), r)
<1>1. Append(q, x) \in Seq(Result)
  OBVIOUS
<1>2. ASSUME NEW i \in 1..Len(q), q[i] = r
      PROVE  Has(Append(q, x), r)
  <2>1. i \in 1..Len(Append(q, x)) /\ Append(q, x)[i] = r
    BY <1>2
  <2> QED BY <2>1 DEF Has
<1>3. ASSUME x = r
      PROVE  Has(Append(q, x), r)
  <2>1. Len(q) + 1 \in 1..Len(Append(q, x)) /\ Append(q, x)[Len(q) + 1] = r
    BY <1>3
  <2> QED BY <2>1 DEF Has
<1> QED BY <1>1, <1>2, <1>3 DEF Has

(* Taking the head of a queue leaves every other message in it. *)
LEMMA TailHas ==
    ASSUME NEW q \in Seq(Result), q # <<>>, NEW r
    PROVE  /\ Head(q) \in Result
           /\ Tail(q) \in Seq(Result)
           /\ Has(q, r) => Head(q) = r \/ Has(Tail(q), r)
<1>1. Head(q) \in Result /\ Tail(q) \in Seq(Result) /\ Head(q) = q[1]
  OBVIOUS
<1>2. ASSUME NEW i \in 1..Len(q), q[i] = r, i # 1
      PROVE  Has(Tail(q), r)
  <2>1. i - 1 \in 1..Len(Tail(q)) /\ Tail(q)[i - 1] = r
    BY <1>2
  <2> QED BY <2>1 DEF Has
<1> QED BY <1>1, <1>2 DEF Has

(* Putting a message back at the head loses none and adds that one. *)
LEMMA RequeueHas ==
    ASSUME NEW q \in Seq(Result), NEW x \in Result, NEW r
    PROVE  /\ <<x>> \o q \in Seq(Result)
           /\ Has(q, r) \/ x = r => Has(<<x>> \o q, r)
<1>1. <<x>> \o q \in Seq(Result)
  OBVIOUS
<1>2. ASSUME NEW i \in 1..Len(q), q[i] = r
      PROVE  Has(<<x>> \o q, r)
  <2>1. i + 1 \in 1..Len(<<x>> \o q) /\ (<<x>> \o q)[i + 1] = r
    BY <1>2
  <2> QED BY <2>1 DEF Has
<1>3. ASSUME x = r
      PROVE  Has(<<x>> \o q, r)
  <2>1. 1 \in 1..Len(<<x>> \o q) /\ (<<x>> \o q)[1] = r
    BY <1>3
  <2> QED BY <2>1 DEF Has
<1> QED BY <1>1, <1>2, <1>3 DEF Has

-----------------------------------------------------------------------------
(* The arithmetic verdict is a verdict about what it was given, and says   *)
(* RETURN exactly of figures that break an identity.                       *)
LEMMA ArithmeticSound ==
    ASSUME NEW content \in Content
    PROVE  /\ Arithmetic(content) \in Verdict
           /\ AwaitingOcr(content) \in Verdict
           /\ Arithmetic(content).about = content
           /\ Arithmetic(content).recommendation = "RETURN" <=> ~Obeys(content.figures)
<1> DEFINE a == Arithmetic(content)
<1>0. content.figures \in Figures
  BY DEF Content
<1>1. CASE content.figures = Blank
  <2>1. a = [status |-> "PENDING", recommendation |-> "CHECK_PHOTO",
             engine |-> "ARITHMETIC", awaiting |-> FALSE, read |-> "nothing",
             about |-> content]
    BY <1>1 DEF Arithmetic
  <2>2. Obeys(content.figures)
    BY <1>1, OcrAssumption
  <2>3. a \in Verdict /\ a.about = content /\ a.recommendation # "RETURN"
    BY <2>1 DEF Verdict
  <2>4. AwaitingOcr(content) = a \/ AwaitingOcr(content) =
          [a EXCEPT !.status = "PENDING", !.recommendation = "CHECK_PHOTO", !.awaiting = TRUE]
    BY DEF AwaitingOcr
  <2> QED BY <2>2, <2>3, <2>4 DEF Verdict
<1>2. CASE content.figures # Blank /\ Obeys(content.figures)
  <2>1. a = [status |-> "MATCH", recommendation |-> "APPROVE",
             engine |-> "ARITHMETIC", awaiting |-> FALSE, read |-> "nothing",
             about |-> content]
    BY <1>2 DEF Arithmetic
  <2>3. a \in Verdict /\ a.about = content /\ a.recommendation # "RETURN"
    BY <2>1 DEF Verdict
  <2>4. AwaitingOcr(content) = a \/ AwaitingOcr(content) =
          [a EXCEPT !.status = "PENDING", !.recommendation = "CHECK_PHOTO", !.awaiting = TRUE]
    BY DEF AwaitingOcr
  <2> QED BY <1>2, <2>3, <2>4 DEF Verdict
<1>3. CASE ~Obeys(content.figures)
  <2>1. a = [status |-> "MISMATCH", recommendation |-> "RETURN",
             engine |-> "ARITHMETIC", awaiting |-> FALSE, read |-> "nothing",
             about |-> content]
    BY <1>3, OcrAssumption DEF Arithmetic
  <2>3. a \in Verdict /\ a.about = content /\ a.recommendation = "RETURN"
    BY <2>1 DEF Verdict
  <2>4. AwaitingOcr(content) = a
    BY <2>3 DEF AwaitingOcr
  <2> QED BY <1>3, <2>3, <2>4
<1> QED BY <1>1, <1>2, <1>3

(* Merging a reading into it keeps what it is about. *)
LEMMA MergeSound ==
    ASSUME NEW content \in Content, NEW read \in {"unreadable", "agrees", "differs"}
    PROVE  LET v == Merge(Arithmetic(content), read)
           IN  /\ v \in Verdict
               /\ v.about = content
               /\ v.engine = "OCR"
               /\ v.read = read
               /\ v.recommendation =
                    IF ~Obeys(content.figures) \/ read = "differs" THEN "RETURN"
                    ELSE IF read = "unreadable" THEN "CHECK_PHOTO" ELSE "APPROVE"
<1> DEFINE a == Arithmetic(content)
<1>1. /\ a \in Verdict
      /\ a.about = content
      /\ a.recommendation = "RETURN" <=> ~Obeys(content.figures)
  BY ArithmeticSound
<1> HIDE DEF a
<1> DEFINE ret == a.recommendation = "RETURN" \/ read = "differs"
           status == IF ret THEN "MISMATCH"
                     ELSE IF read = "unreadable" THEN "UNREADABLE" ELSE "MATCH"
           recommendation == IF ret THEN "RETURN"
                             ELSE IF read = "unreadable" THEN "CHECK_PHOTO" ELSE "APPROVE"
           m == [a EXCEPT !.engine = "OCR", !.read = read, !.awaiting = FALSE,
                          !.status = status, !.recommendation = recommendation]
<1>2. Merge(a, read) = m
  BY DEF Merge
<1>3. /\ status \in {"MATCH", "MISMATCH", "UNREADABLE", "PENDING"}
      /\ recommendation \in {"APPROVE", "RETURN", "CHECK_PHOTO"}
  OBVIOUS
<1>4. recommendation = IF ~Obeys(content.figures) \/ read = "differs" THEN "RETURN"
                       ELSE IF read = "unreadable" THEN "CHECK_PHOTO" ELSE "APPROVE"
  BY <1>1
<1> HIDE DEF status, recommendation
<1>5. /\ m \in Verdict
      /\ m.about = content
      /\ m.engine = "OCR"
      /\ m.read = read
      /\ m.recommendation = recommendation
  BY <1>1, <1>3 DEF Verdict
<1> QED BY <1>2, <1>4, <1>5 DEF a

(* The strengthened invariant says what is claimed of a settled verdict. *)
LEMMA OcrIInvSound == OcrIInv => VerdictSettled
<1> SUFFICES ASSUME OcrIInv, NEW r \in Result,
                    row[r].status \in {"SUBMITTED", "APPROVED"},
                    ~Outstanding(r), r \notin lost
             PROVE  /\ verdict[r].about = ContentOf(r)
                    /\ verdict[r].engine = "OCR"
                    /\ verdict[r].recommendation =
                         IF ~Obeys(row[r].figures) \/ verdict[r].read = "differs" THEN "RETURN"
                         ELSE IF verdict[r].read = "unreadable" THEN "CHECK_PHOTO"
                              ELSE "APPROVE"
  BY DEF VerdictSettled
<1>1. ContentOf(r) \in Content /\ ContentOf(r).photos # {} /\ ContentOf(r).figures = row[r].figures
  BY DEF OcrIInv, OcrTypeOK, LastReadIsPresent, ContentOf, Content
<1>2. ~Unread(r) /\ ~Working(r)
  BY DEF Outstanding, Unread, Working, Reading, Idle, Slot
<1>3. verdict[r] \in Found(ContentOf(r))
  BY <1>2 DEF OcrIInv, LastReadIsPresent
<1>4. PICK read \in Readings(ContentOf(r)) : verdict[r] = Merge(Arithmetic(ContentOf(r)), read)
  BY <1>1, <1>3 DEF Found
<1>5. read \in {"unreadable", "agrees", "differs"}
  BY <1>4 DEF Readings
<1> QED BY <1>1, <1>4, <1>5, MergeSound

LEMMA OcrInitIInv == OcrInit => OcrIInv
<1> SUFFICES ASSUME OcrInit PROVE OcrIInv
  OBVIOUS
<1>1. Blank \in Figures
  BY DEF Blank, Figures
<1>2. OcrTypeOK
  BY <1>1, OcrAssumption DEF OcrInit, OcrTypeOK, Job
<1> QED BY <1>2 DEF OcrInit, OcrIInv, JobSound, LastReadIsPresent, Idle, Slot

-----------------------------------------------------------------------------
(* A step that leaves a result's row, verdict and job alone, drops none of *)
(* its jobs and does not read its row keeps what is known of it.           *)
LEMMA SameResult ==
    ASSUME NEW r \in Result, LastReadIsPresent(r),
           row'[r] = row[r], verdict'[r] = verdict[r], job'["rabbit"] = job["rabbit"],
           r \in lost => r \in lost', Unread(r) => Unread(r)'
    PROVE  LastReadIsPresent(r)'
  BY DEF LastReadIsPresent, Working, ContentOf

(* The officers' requests *)
LEMMA RequestIInv ==
    ASSUME OcrIInv, NEW r \in Result, Request(r)
    PROVE  OcrIInv'
<1> USE DEF OcrIInv
<1>0. /\ OcrTypeOK
      /\ UNCHANGED <<channel, outbox, queue, job, crashes>>
      /\ \A t \in Result : LastReadIsPresent(t)
  BY DEF Request, Upsert, Attach, Submit, Approve, Return
<1>1. /\ \A t \in Result \ {r} : row'[t] = row[t] /\ verdict'[t] = verdict[t]
      /\ \A t \in Result \ {r} : (t \in lost <=> t \in lost') /\ (t \in publishing <=> t \in publishing')
  BY <1>0 DEF Request, Upsert, Attach, Submit, Approve, Return, OcrTypeOK
<1>2. ASSUME NEW t \in Result \ {r}
      PROVE  LastReadIsPresent(t)'
  <2>1. Unread(t) => Unread(t)'
    BY <1>0, <1>1 DEF Unread, Reading
  <2> QED BY <1>0, <1>1, <2>1, SameResult
<1>3. JobSound'
  BY <1>0 DEF JobSound
<1>4. channel' /\ \A s \in Local : job'[s] = Idle
  BY <1>0
<1>5. ASSUME NEW fig \in Figures, NEW photos \in SUBSET Photo, Upsert(r, fig, photos)
      PROVE  OcrTypeOK' /\ LastReadIsPresent(r)'
  <2>1. [figures |-> fig, photos |-> photos] \in Content
    BY DEF Content
  <2>2. [f \in Field |-> IF fig[f] = None THEN row[r].figures[f] ELSE fig[f]] \in Figures
    BY <1>0 DEF OcrTypeOK, Figures
  <2>3. Arithmetic([figures |-> fig, photos |-> photos]) \in Verdict
    BY <2>1, ArithmeticSound
  <2>4. row'[r].status = "DRAFT"
    BY <1>0, <1>5 DEF Upsert, OcrTypeOK
  <2>5. OcrTypeOK'
    BY <1>0, <1>5, <2>2, <2>3 DEF Upsert, OcrTypeOK
  <2> QED BY <2>4, <2>5 DEF LastReadIsPresent
<1>6. ASSUME NEW picture \in Photo, Attach(r, picture)
      PROVE  OcrTypeOK' /\ LastReadIsPresent(r)'
  <2> DEFINE content == [figures |-> row[r].figures, photos |-> row[r].photos \union {picture}]
  <2>1. content \in Content
    BY <1>0 DEF Content, OcrTypeOK
  <2>2. Arithmetic(content) \in Verdict
    BY <2>1, ArithmeticSound
  <2>3. verdict' = [verdict EXCEPT ![r] = Arithmetic(content)]
    BY <1>6 DEF Attach
  <2>4. row' = [row EXCEPT ![r].photos = row[r].photos \union {picture}]
    BY <1>6 DEF Attach
  <2>5. row'[r].status \in Editable
    BY <1>0, <1>6, <2>4 DEF Attach, OcrTypeOK
  <2> HIDE DEF content
  <2>6. OcrTypeOK'
    BY <1>0, <1>6, <2>2, <2>3, <2>4 DEF Attach, OcrTypeOK
  <2> QED BY <2>5, <2>6 DEF LastReadIsPresent, Editable
<1>7. ASSUME Submit(r)
      PROVE  OcrTypeOK' /\ LastReadIsPresent(r)'
  <2>1. ContentOf(r) \in Content
    BY <1>0 DEF Content, ContentOf, OcrTypeOK
  <2>2. AwaitingOcr(ContentOf(r)) \in Verdict
    BY <2>1, ArithmeticSound
  <2>3. OcrTypeOK'
    BY <1>0, <1>7, <2>2 DEF Submit, OcrTypeOK
  <2>4. row'[r].photos # {} /\ r \in publishing'
    BY <1>0, <1>7 DEF Submit, OcrTypeOK
  <2> QED BY <2>3, <2>4 DEF LastReadIsPresent, Unread
<1>8. ASSUME Approve(r) \/ Return(r)
      PROVE  OcrTypeOK' /\ LastReadIsPresent(r)'
  <2>1. OcrTypeOK'
    BY <1>0, <1>8, ZenonT(60) DEF Approve, Return, OcrTypeOK
  <2>2. ContentOf(r)' = ContentOf(r) /\ row'[r].photos = row[r].photos
    BY <1>0, <1>8 DEF Approve, Return, OcrTypeOK, ContentOf
  <2>3. /\ Unread(r) => Unread(r)'
        /\ Working(r)' = Working(r)
        /\ verdict' = verdict /\ lost' = lost
    BY <1>0, <1>8 DEF Approve, Return, Unread, Working, Reading
  <2>4. row'[r].status \in {"SUBMITTED", "APPROVED"} => row[r].status \in {"SUBMITTED", "APPROVED"}
    BY <1>0, <1>8 DEF Approve, Return, OcrTypeOK
  <2> QED BY <1>0, <2>1, <2>2, <2>3, <2>4 DEF LastReadIsPresent
<1>9. OcrTypeOK' /\ LastReadIsPresent(r)'
  BY <1>5, <1>6, <1>7, <1>8 DEF Request
<1> QED BY <1>2, <1>3, <1>4, <1>9

(* A submission's job is published. *)
LEMMA PublishIInv ==
    ASSUME OcrIInv, NEW r \in Result, Publish(r)
    PROVE  OcrIInv'
<1> USE DEF OcrIInv
<1>0. OcrTypeOK /\ channel
  OBVIOUS
<1>1. /\ publishing' = publishing \ {r}
      /\ outbox' = Append(outbox, r)
      /\ UNCHANGED <<row, verdict, channel, queue, job, crashes, lost>>
  BY <1>0 DEF Publish
<1>2. outbox \in Seq(Result)
  BY DEF OcrTypeOK
<1>3. ASSUME NEW t \in Result
      PROVE  LastReadIsPresent(t)'
  <2>1. Has(outbox, t) \/ r = t => Has(outbox', t)
    BY <1>1, <1>2, AppendHas
  <2>2. Unread(t) => Unread(t)'
    BY <1>1, <2>1 DEF Unread, Has, Reading
  <2> QED BY <1>1, <2>2, SameResult
<1>4. OcrTypeOK'
  BY <1>0, <1>1, <1>2, AppendHas DEF OcrTypeOK
<1> QED BY <1>0, <1>1, <1>3, <1>4 DEF JobSound

(* RabbitMQ takes a message in. *)
LEMMA AcceptIInv ==
    ASSUME OcrIInv, Accept
    PROVE  OcrIInv'
<1> USE DEF OcrIInv
<1>1. /\ outbox # <<>>
      /\ queue' = Append(queue, Head(outbox))
      /\ outbox' = Tail(outbox)
      /\ UNCHANGED <<row, verdict, publishing, channel, job, crashes, lost>>
  BY DEF Accept
<1>2. outbox \in Seq(Result) /\ queue \in Seq(Result) /\ Head(outbox) \in Result
  BY <1>1, TailHas DEF OcrTypeOK
<1>3. ASSUME NEW t \in Result
      PROVE  LastReadIsPresent(t)'
  <2>1. Has(outbox, t) => Head(outbox) = t \/ Has(outbox', t)
    BY <1>1, <1>2, TailHas
  <2>2. Has(queue, t) \/ Head(outbox) = t => Has(queue', t)
    BY <1>1, <1>2, AppendHas
  <2>3. Unread(t) => Unread(t)'
    BY <1>1, <2>1, <2>2 DEF Unread, Has, Reading
  <2> QED BY <1>1, <2>3, SameResult
<1>4. outbox' \in Seq(Result) /\ queue' \in Seq(Result)
  BY <1>1, <1>2, AppendHas, TailHas
<1>5. OcrTypeOK'
  BY <1>1, <1>4 DEF OcrTypeOK
<1> QED BY <1>1, <1>3, <1>5 DEF JobSound

(* The consumer, idle, gets the next message. *)
LEMMA DeliverIInv ==
    ASSUME OcrIInv, Deliver
    PROVE  OcrIInv'
<1> USE DEF OcrIInv
<1>1. /\ queue # <<>>
      /\ queue' = Tail(queue)
      /\ job["rabbit"] = Idle
      /\ job' = [job EXCEPT !["rabbit"] = Reading(Head(queue))]
      /\ UNCHANGED <<row, verdict, publishing, channel, outbox, crashes, lost>>
  BY DEF Deliver
<1>2. queue \in Seq(Result) /\ Head(queue) \in Result /\ queue' \in Seq(Result)
  BY <1>1, TailHas DEF OcrTypeOK
<1>3. job \in [Slot -> Job] /\ "rabbit" \in Slot
  BY DEF OcrTypeOK, Slot
<1>4. Reading(Head(queue)) \in Job
  BY <1>2 DEF Reading, Job
<1>5. /\ job' \in [Slot -> Job]
      /\ job'["rabbit"] = Reading(Head(queue))
      /\ \A s \in Local : job'[s] = job[s]
  BY <1>1, <1>3, <1>4, OcrAssumption DEF Slot
<1>6. OcrTypeOK'
  BY <1>1, <1>2, <1>5 DEF OcrTypeOK
<1>7. ASSUME NEW t \in Result
      PROVE  LastReadIsPresent(t)'
  <2>1. Has(queue, t) => Head(queue) = t \/ Has(queue', t)
    BY <1>1, <1>2, TailHas
  <2>2. Unread(t) => Unread(t)'
    BY <1>1, <1>5, <2>1 DEF Unread, Has, Reading, Idle
  <2>3. ~Working(t) /\ ~Working(t)'
    BY <1>1, <1>5 DEF Working, Idle, Reading
  <2>4. LastReadIsPresent(t) /\ ContentOf(t)' = ContentOf(t)
    BY <1>1 DEF ContentOf
  <2> QED BY <1>1, <2>2, <2>3, <2>4 DEF LastReadIsPresent
<1>8. JobSound'
  BY <1>5 DEF JobSound, Reading
<1> QED BY <1>1, <1>5, <1>6, <1>7, <1>8

-----------------------------------------------------------------------------
(* A step of the consumer's job, seen from a result it is not about: its   *)
(* row, verdict and messages stay.                                         *)
LEMMA OtherResult ==
    ASSUME NEW t \in Result, LastReadIsPresent(t),
           row' = row, publishing' = publishing, outbox' = outbox, queue' = queue,
           lost \subseteq lost', verdict'[t] = verdict[t],
           job["rabbit"] # Reading(t), ~Working(t), ~Working(t)'
    PROVE  LastReadIsPresent(t)'
  BY DEF LastReadIsPresent, Unread, ContentOf

(* The consumer's job reads the row: from here on it knows the content. *)
LEMMA ReadRowIInv ==
    ASSUME OcrIInv, ReadRow("rabbit")
    PROVE  OcrIInv'
<1> USE DEF OcrIInv
<1> DEFINE r == job["rabbit"].result
           content == ContentOf(r)
           at == IF row[r].photos = {} THEN "write" ELSE "vision"
<1>1. /\ job["rabbit"].at = "read"
      /\ job' = [job EXCEPT !["rabbit"] = [at |-> at, result |-> r,
                                          verdict |-> Arithmetic(content)]]
      /\ UNCHANGED <<row, verdict, publishing, channel, outbox, queue, crashes, lost>>
  BY DEF ReadRow
<1>2. job \in [Slot -> Job] /\ "rabbit" \in Slot
  BY DEF OcrTypeOK, Slot
<1>3. r \in Result /\ job["rabbit"] = Reading(r)
  BY <1>1, <1>2 DEF Job, Idle, Reading
<1>4. content \in Content /\ content.photos = row[r].photos
  BY <1>3 DEF OcrTypeOK, ContentOf, Content
<1>5. Arithmetic(content) \in Verdict /\ Arithmetic(content).about = content
  BY <1>4, ArithmeticSound
<1> HIDE DEF r, content
<1>6. /\ job'["rabbit"] = [at |-> at, result |-> r, verdict |-> Arithmetic(content)]
      /\ \A s \in Local : job'[s] = job[s]
  BY <1>1, <1>2, OcrAssumption DEF Slot
<1>7. at \in {"vision", "write"}
  OBVIOUS
<1> HIDE DEF at
<1>8. OcrTypeOK'
  <2>1. [at |-> at, result |-> r, verdict |-> Arithmetic(content)] \in Job
    BY <1>3, <1>5, <1>7 DEF Job
  <2>2. job' \in [Slot -> Job]
    BY <1>1, <1>2, <2>1
  <2> QED BY <1>1, <2>2 DEF OcrTypeOK
<1>9. JobSound'
  BY <1>4, <1>5, <1>6 DEF JobSound, Found, at
<1>10. ASSUME NEW t \in Result
       PROVE  LastReadIsPresent(t)'
  <2>1. CASE t = r
    <3>1. Working(t)' /\ job'["rabbit"].verdict.about = content
      BY <1>5, <1>6, <1>7, <2>1 DEF Working
    <3>2. ContentOf(t)' = content
      BY <1>1, <2>1 DEF ContentOf, content
    <3> QED BY <1>1, <3>1, <3>2 DEF LastReadIsPresent
  <2>2. CASE t # r
    <3>1. job["rabbit"] # Reading(t) /\ ~Working(t) /\ ~Working(t)'
      BY <1>1, <1>3, <1>6, <2>2 DEF Working, Reading
    <3> QED BY <1>1, <3>1, OtherResult
  <2> QED BY <2>1, <2>2
<1> QED BY <1>1, <1>6, <1>8, <1>9, <1>10

(* Vision's answer changes the verdict and not what it is about. *)
LEMMA AskVisionIInv ==
    ASSUME OcrIInv, AskVision("rabbit")
    PROVE  OcrIInv'
<1> USE DEF OcrIInv
<1> DEFINE r == job["rabbit"].result
           v == job["rabbit"].verdict
           content == v.about
<1>1. /\ job["rabbit"].at = "vision"
      /\ UNCHANGED <<row, verdict, publishing, channel, outbox, queue, crashes, lost>>
  BY DEF AskVision
<1>2. PICK read \in Readings(content) :
         job' = [job EXCEPT !["rabbit"] = [at |-> "write", result |-> r,
                                           verdict |-> Merge(v, read)]]
  BY DEF AskVision
<1>3. job \in [Slot -> Job] /\ "rabbit" \in Slot
  BY DEF OcrTypeOK, Slot
<1>4. r \in Result /\ v \in Verdict
  BY <1>1, <1>3 DEF Job, Idle
<1>5. v = Arithmetic(content) /\ content.photos # {} /\ content \in Content
  BY <1>1, <1>4 DEF JobSound, Verdict
<1>6. read \in {"unreadable", "agrees", "differs"}
  BY <1>2 DEF Readings
<1> HIDE DEF r, v, content
<1>7. Merge(v, read) \in Verdict /\ Merge(v, read).about = content
  BY <1>5, <1>6, MergeSound
<1>8. Merge(v, read) \in Found(content)
  BY <1>2, <1>5 DEF Found
<1>9. /\ job'["rabbit"] = [at |-> "write", result |-> r, verdict |-> Merge(v, read)]
      /\ \A s \in Local : job'[s] = job[s]
  BY <1>2, <1>3, OcrAssumption DEF Slot
<1>10. OcrTypeOK'
  <2>1. [at |-> "write", result |-> r, verdict |-> Merge(v, read)] \in Job
    BY <1>4, <1>7 DEF Job
  <2>2. job' \in [Slot -> Job]
    BY <1>2, <1>3, <2>1
  <2> QED BY <1>1, <2>2 DEF OcrTypeOK
<1>11. JobSound'
  BY <1>7, <1>8, <1>9 DEF JobSound
<1>12. ASSUME NEW t \in Result
       PROVE  LastReadIsPresent(t)'
  <2>1. CASE t = r
    <3>1. /\ Working(t) /\ Working(t)'
          /\ job["rabbit"].verdict.about = content
          /\ job'["rabbit"].verdict.about = content
          /\ job["rabbit"] # Reading(t)
      BY <1>1, <1>7, <1>9, <2>1 DEF Working, r, v, content, Reading
    <3>2. Unread(t) => Unread(t)'
      BY <1>1, <3>1 DEF Unread
    <3> QED BY <1>1, <3>1, <3>2 DEF LastReadIsPresent, ContentOf
  <2>2. CASE t # r
    <3>1. job["rabbit"] # Reading(t) /\ ~Working(t) /\ ~Working(t)'
      BY <1>1, <1>9, <2>2 DEF Working, Reading, r
    <3> QED BY <1>1, <3>1, OtherResult
  <2> QED BY <2>1, <2>2
<1> QED BY <1>1, <1>9, <1>10, <1>11, <1>12

(* The job stores what it found: if it knew the present content, it was a   *)
(* verdict about it; if not, another job is still to read the row.          *)
LEMMA WriteVerdictIInv ==
    ASSUME OcrIInv, WriteVerdict("rabbit")
    PROVE  OcrIInv'
<1> USE DEF OcrIInv
<1> DEFINE r == job["rabbit"].result
           v == job["rabbit"].verdict
<1>1. /\ job["rabbit"].at = "write"
      /\ verdict' = [verdict EXCEPT ![r] = v]
      /\ job' = [job EXCEPT !["rabbit"] = Idle]
      /\ UNCHANGED <<row, publishing, channel, outbox, queue, crashes, lost>>
  BY DEF WriteVerdict
<1>2. job \in [Slot -> Job] /\ "rabbit" \in Slot
  BY DEF OcrTypeOK, Slot
<1>3. r \in Result /\ v \in Verdict /\ v \in Found(v.about)
  BY <1>1, <1>2 DEF Job, Idle, JobSound
<1>4. /\ job'["rabbit"] = Idle
      /\ \A s \in Local : job'[s] = job[s]
  BY <1>1, <1>2, OcrAssumption DEF Slot
<1>5. OcrTypeOK'
  <2>1. job' \in [Slot -> Job]
    BY <1>1, <1>2 DEF Job
  <2>2. verdict' \in [Result -> Verdict \union {NoVerdict}]
    BY <1>1, <1>3 DEF OcrTypeOK
  <2> QED BY <1>1, <2>1, <2>2 DEF OcrTypeOK
<1>6. JobSound'
  BY <1>4 DEF JobSound, Idle
<1>7. ASSUME NEW t \in Result
      PROVE  LastReadIsPresent(t)'
  <2>1. CASE t = r
    <3>1. Working(t) /\ ~Working(t)' /\ verdict'[t] = v
      BY <1>1, <1>4, <2>1 DEF Working, Idle, OcrTypeOK
    <3>2. Unread(t) => Unread(t)'
      BY <1>1 DEF Unread, Reading
    <3>3. LastReadIsPresent(t) /\ ContentOf(t)' = ContentOf(t)
      BY <1>1 DEF ContentOf
    <3> QED BY <1>1, <1>3, <3>1, <3>2, <3>3 DEF LastReadIsPresent
  <2>2. CASE t # r
    <3>1. job["rabbit"] # Reading(t) /\ ~Working(t) /\ ~Working(t)'
      BY <1>1, <1>4, <2>2 DEF Working, Reading, Idle
    <3>2. verdict'[t] = verdict[t]
      BY <1>1, <2>2 DEF OcrTypeOK
    <3> QED BY <1>1, <3>1, <3>2, OtherResult
  <2> QED BY <2>1, <2>2
<1> QED BY <1>1, <1>4, <1>5, <1>6, <1>7

(* A job that fails is dropped, and its result known to be without one. *)
LEMMA FailIInv ==
    ASSUME OcrIInv, Fail
    PROVE  OcrIInv'
<1> USE DEF OcrIInv
<1> DEFINE r == job["rabbit"].result
<1>1. /\ job["rabbit"] # Idle
      /\ lost' = lost \union {r}
      /\ job' = [job EXCEPT !["rabbit"] = Idle]
      /\ UNCHANGED <<row, verdict, publishing, channel, outbox, queue, crashes>>
  BY DEF Fail
<1>2. job \in [Slot -> Job] /\ "rabbit" \in Slot
  BY DEF OcrTypeOK, Slot
<1>3. r \in Result
  BY <1>1, <1>2 DEF Job
<1>4. /\ job'["rabbit"] = Idle
      /\ \A s \in Local : job'[s] = job[s]
  BY <1>1, <1>2, OcrAssumption DEF Slot
<1>5. OcrTypeOK'
  <2>1. job' \in [Slot -> Job]
    BY <1>1, <1>2 DEF Job
  <2> QED BY <1>1, <1>3, <2>1 DEF OcrTypeOK
<1>6. JobSound'
  BY <1>4 DEF JobSound, Idle
<1>7. ASSUME NEW t \in Result
      PROVE  LastReadIsPresent(t)'
  <2>1. CASE t = r
    BY <1>1, <2>1 DEF LastReadIsPresent
  <2>2. CASE t # r
    <3>1. job["rabbit"] # Reading(t) /\ ~Working(t) /\ ~Working(t)'
      BY <1>4, <2>2 DEF Working, Reading, Idle
    <3> QED BY <1>1, <3>1, OtherResult
  <2> QED BY <2>1, <2>2
<1> QED BY <1>1, <1>4, <1>5, <1>6, <1>7

(* The process dies: the unacknowledged message is back in the queue, and  *)
(* the jobs that were only in its memory are known to be lost.             *)
LEMMA CrashIInv ==
    ASSUME OcrIInv, Crash
    PROVE  OcrIInv'
<1> USE DEF OcrIInv
<1>1. /\ crashes < MaxCrashes
      /\ crashes' = crashes + 1
      /\ queue' = Requeued
      /\ outbox' = <<>>
      /\ job' = [s \in Slot |-> Idle]
      /\ publishing' = {}
      /\ lost' = lost \union publishing \union InOutbox
                 \union {r \in Result : \E s \in Local : job[s] # Idle /\ job[s].result = r}
      /\ channel' = TRUE
      /\ UNCHANGED <<row, verdict>>
  BY DEF Crash, CrashOver
<1>2. /\ outbox \in Seq(Result)
      /\ queue \in Seq(Result)
      /\ job \in [Slot -> Job]
      /\ "rabbit" \in Slot
      /\ crashes \in 0..MaxCrashes
  BY DEF OcrTypeOK, Slot
<1>3. job["rabbit"] # Idle => job["rabbit"].result \in Result
  BY <1>2 DEF Job
<1>4. InOutbox \subseteq Result
  BY <1>2 DEF InOutbox
<1>5. queue' \in Seq(Result)
  BY <1>1, <1>2, <1>3, RequeueHas DEF Requeued
<1>6. OcrTypeOK'
  <2>1. job' \in [Slot -> Job] /\ outbox' \in Seq(Result)
    BY <1>1 DEF Job
  <2>2. lost' \subseteq Result
    BY <1>1, <1>4 DEF OcrTypeOK
  <2>3. crashes' \in 0..MaxCrashes
    BY <1>1, <1>2, OcrAssumption
  <2> QED BY <1>1, <1>5, <2>1, <2>2, <2>3 DEF OcrTypeOK
<1>7. job'["rabbit"] = Idle /\ \A s \in Local : job'[s] = Idle
  BY <1>1 DEF Slot
<1>8. JobSound'
  BY <1>7 DEF JobSound, Idle
<1>9. ASSUME NEW t \in Result
      PROVE  LastReadIsPresent(t)'
  <2>1. Has(queue, t) \/ (job["rabbit"] # Idle /\ job["rabbit"].result = t) => Has(queue', t)
    BY <1>1, <1>2, <1>3, RequeueHas DEF Requeued
  <2>2. Unread(t) => t \in lost' \/ Unread(t)'
    <3>1. ASSUME t \in publishing \/ \E i \in 1..Len(outbox) : outbox[i] = t
          PROVE  t \in lost'
      BY <1>1, <3>1 DEF InOutbox
    <3>2. job["rabbit"] = Reading(t) => Has(queue', t)
      BY <2>1 DEF Reading, Idle
    <3> QED BY <2>1, <3>1, <3>2 DEF Unread, Has
  <2>3. Working(t) => Unread(t)'
    BY <2>1 DEF Working, Unread, Has, Idle
  <2>4. ~Working(t)'
    BY <1>7 DEF Working, Idle
  <2>5. LastReadIsPresent(t) /\ ContentOf(t)' = ContentOf(t)
    BY <1>1 DEF ContentOf
  <2> QED BY <1>1, <2>2, <2>3, <2>4, <2>5 DEF LastReadIsPresent
<1> QED BY <1>1, <1>6, <1>7, <1>8, <1>9

-----------------------------------------------------------------------------
(* Every step keeps the invariant; a slot of the process has no job in it. *)
LEMMA OcrNextIInv == OcrIInv /\ [QueueNext]_ocrVars => OcrIInv'
<1> SUFFICES ASSUME OcrIInv, [QueueNext]_ocrVars
             PROVE  OcrIInv'
  OBVIOUS
<1>1. ASSUME NEW r \in Result, Request(r) \/ Publish(r)
      PROVE  OcrIInv'
  BY <1>1, RequestIInv, PublishIInv
<1>2. CASE Accept \/ Deliver
  BY <1>2, AcceptIInv, DeliverIInv
<1>3. ASSUME NEW s \in Slot, Work(s)
      PROVE  OcrIInv'
  <2>0. job[s].at \in {"read", "vision", "write"}
    BY <1>3 DEF Work, ReadRow, AskVision, WriteVerdict
  <2>1. s = "rabbit"
    BY <2>0 DEF OcrIInv, Slot, Idle
  <2> QED BY <1>3, <2>1, ReadRowIInv, AskVisionIInv, WriteVerdictIInv DEF Work
<1>4. CASE Fail \/ Crash
  BY <1>4, FailIInv, CrashIInv
<1>5. CASE UNCHANGED ocrVars
  <2>1. UNCHANGED <<row, verdict, publishing, channel, outbox, queue, job, crashes, lost>>
    BY <1>5 DEF ocrVars
  <2>2. OcrTypeOK' /\ JobSound'
    BY <2>1 DEF OcrIInv, OcrTypeOK, JobSound
  <2>3. ASSUME NEW r \in Result
        PROVE  LastReadIsPresent(r)'
    BY <2>1, SameResult DEF OcrIInv, Unread
  <2> QED BY <2>1, <2>2, <2>3 DEF OcrIInv
<1> QED BY <1>1, <1>2, <1>3, <1>4, <1>5 DEF QueueNext

(***************************************************************************)
(* At every moment somebody has yet to read a submitted row, or the last   *)
(* who read it saw what it holds now, or its job was dropped.              *)
(***************************************************************************)
THEOREM OcrInvariance == QueueSpec => []OcrIInv
<1>1. OcrInit => OcrIInv
  BY OcrInitIInv
<1>2. OcrIInv /\ [QueueNext]_ocrVars => OcrIInv'
  BY OcrNextIInv
<1> QED BY <1>1, <1>2, PTL DEF QueueSpec

(***************************************************************************)
(* With no job left and none dropped, the verdict the ward officer sees is *)
(* about the figures and photos the ward officer sees.                     *)
(***************************************************************************)
THEOREM VerdictsSettle == QueueSpec => []VerdictSettled
<1>1. QueueSpec => []OcrIInv
  BY OcrInvariance
<1>2. OcrIInv => VerdictSettled
  BY OcrIInvSound
<1> QED BY <1>1, <1>2, PTL

-----------------------------------------------------------------------------
-----------------------------------------------------------------------------
(* Filled forms.  A value of a party is a natural number of those written, *)
(* and the identities of the form hold whatever the votes are.             *)
LEMMA BoxIs ==
    /\ DOMAIN Boxes = 1..8
    /\ Box = {"registeredVoters", "accreditedVoters", "ballotPapersIssued",
              "unusedBallotPapers", "spoiledBallotPapers", "invalidVotes",
              "votesCast", "usedBallotPapers"}
    /\ \A j, k \in 1..8 : Boxes[j] = Boxes[k] => j = k
<1>1. DOMAIN Boxes = 1..8
  BY DEF Boxes
<1>2. /\ Boxes[1] = "registeredVoters" /\ Boxes[2] = "accreditedVoters"
      /\ Boxes[3] = "ballotPapersIssued" /\ Boxes[4] = "unusedBallotPapers"
      /\ Boxes[5] = "spoiledBallotPapers" /\ Boxes[6] = "invalidVotes"
      /\ Boxes[7] = "votesCast" /\ Boxes[8] = "usedBallotPapers"
  BY DEF Boxes
<1>3. \A k \in 1..8 : k = 1 \/ k = 2 \/ k = 3 \/ k = 4 \/ k = 5 \/ k = 6 \/ k = 7 \/ k = 8
  OBVIOUS
<1>4. Box = {Boxes[k] : k \in 1..8}
  BY <1>1 DEF Box
<1>5. Box = {"registeredVoters", "accreditedVoters", "ballotPapersIssued",
              "unusedBallotPapers", "spoiledBallotPapers", "invalidVotes",
              "votesCast", "usedBallotPapers"}
  BY <1>2, <1>3, <1>4
<1>6. \A j, k \in 1..8 : Boxes[j] = Boxes[k] => j = k
  BY <1>2, <1>3
<1> QED BY <1>1, <1>5, <1>6

LEMMA UpTo == \A n \in Nat : IsFiniteSet(1..n) /\ Cardinality(1..n) = n
<1> SUFFICES ASSUME NEW n \in Nat PROVE IsFiniteSet(1..n) /\ Cardinality(1..n) = n
  OBVIOUS
<1>1. IsFiniteSet(1..n) /\ Cardinality(1..n) = IF 1 > n THEN 0 ELSE n - 1 + 1
  BY FS_Interval
<1> QED BY <1>1

LEMMA CodesFinite ==
    /\ DOMAIN Ballot = 1..Len(Ballot) /\ Len(Ballot) \in Nat
    /\ IsFiniteSet(Code) /\ Cardinality(Code) = Len(Ballot)
<1>1. DOMAIN Ballot = 1..Len(Ballot) /\ Len(Ballot) \in Nat
  BY ReadingAssumption
<1>2. Ballot \in Bijection(1..Len(Ballot), Code)
  <2>1. Ballot \in [1..Len(Ballot) -> Code]
    BY ReadingAssumption
  <2>2. \A i, j \in 1..Len(Ballot) : Ballot[i] = Ballot[j] => i = j
    BY <1>1, ReadingAssumption
  <2>3. \A c \in Code : \E i \in 1..Len(Ballot) : Ballot[i] = c
    BY <1>1 DEF Code
  <2>4. IsInjective(Ballot)
    BY <1>1, <2>2 DEF IsInjective
  <2> QED BY <2>1, <2>3, <2>4 DEF Bijection, Injection, Surjection
<1>3. IsFiniteSet(1..Len(Ballot)) /\ Cardinality(1..Len(Ballot)) = Len(Ballot)
  BY <1>1, UpTo
<1> QED BY <1>1, <1>2, <1>3, FS_Bijection DEF ExistsBijection

Votes == VotesOfParty \union {0}
Lost  == Rejected \union {0}

LEMMA VotesNat == Votes \subseteq Nat /\ Lost \subseteq Nat
BY PhotosAssumption DEF Votes, Lost

LEMMA TotalType ==
    ASSUME NEW votes, DOMAIN votes = Code, \A c \in Code : votes[c] \in Nat
    PROVE  Total(votes) \in Nat
BY CodesFinite, SumType DEF Total, SumFunction

(* What the boxes of a sheet hold. *)
LEMMA SheetHolds ==
    ASSUME NEW votes, NEW rejected
    PROVE  LET s == Sheet(votes, rejected)
               used == Total(votes) + rejected + 10
           IN  /\ s = [parties |-> votes, fields |-> s.fields] /\ s.parties = votes
               /\ DOMAIN s.fields = Box
               /\ s.fields["registeredVoters"] = used + 40
               /\ s.fields["accreditedVoters"] = used
               /\ s.fields["ballotPapersIssued"] = used + 7
               /\ s.fields["unusedBallotPapers"] = 7
               /\ s.fields["spoiledBallotPapers"] = 10
               /\ s.fields["invalidVotes"] = rejected
               /\ s.fields["votesCast"] = Total(votes)
               /\ s.fields["usedBallotPapers"] = used
<1> DEFINE s == Sheet(votes, rejected)
           used == Total(votes) + rejected + 10
           valid == Total(votes)
           fields == [b \in Box |-> CASE b = "registeredVoters" -> used + 40
                                    [] b = "ballotPapersIssued" -> used + 7
                                    [] b = "unusedBallotPapers" -> 7
                                    [] b = "spoiledBallotPapers" -> 10
                                    [] b = "invalidVotes" -> rejected
                                    [] b = "votesCast" -> valid
                                    [] b \in {"accreditedVoters", "usedBallotPapers"} -> used]
<1>1. s = [parties |-> votes, fields |-> fields]
  BY DEF Sheet
<1>2. DOMAIN fields = Box
  OBVIOUS
<1> HIDE DEF fields, s
<1>3. s.parties = votes /\ s.fields = fields
  BY <1>1
<1> HIDE DEF used, valid
<1>4. /\ fields["registeredVoters"] = used + 40 /\ fields["accreditedVoters"] = used
      /\ fields["ballotPapersIssued"] = used + 7 /\ fields["unusedBallotPapers"] = 7
      /\ fields["spoiledBallotPapers"] = 10 /\ fields["invalidVotes"] = rejected
      /\ fields["votesCast"] = valid /\ fields["usedBallotPapers"] = used
  BY BoxIs DEF fields
<1> QED BY <1>1, <1>2, <1>3, <1>4 DEF s, used, valid

-----------------------------------------------------------------------------
(* What the officer is advised when the photo is read as the form is.      *)
LEMMA SheetAddsUp ==
    ASSUME NEW votes, DOMAIN votes = Code, \A c \in Code : votes[c] \in Nat,
           NEW rejected \in Nat
    PROVE  ArithmeticFlags(Sheet(votes, rejected)) = {}
<1> DEFINE s == Sheet(votes, rejected)
           f == s.fields
           valid == Total(votes)
           used == OrZero(f, "spoiledBallotPapers") + OrZero(f, "invalidVotes")
                      + OrZero(f, "votesCast")
           issued == OrZero(f, "usedBallotPapers") + OrZero(f, "unusedBallotPapers")
<1>1. valid \in Nat
  BY TotalType
<1> HIDE DEF valid
<1>2. /\ s.parties = votes /\ DOMAIN f = Box
      /\ f["registeredVoters"] = valid + rejected + 10 + 40
      /\ f["accreditedVoters"] = valid + rejected + 10
      /\ f["ballotPapersIssued"] = valid + rejected + 10 + 7
      /\ f["unusedBallotPapers"] = 7 /\ f["spoiledBallotPapers"] = 10
      /\ f["invalidVotes"] = rejected /\ f["votesCast"] = valid
      /\ f["usedBallotPapers"] = valid + rejected + 10
  BY SheetHolds DEF valid
<1> HIDE DEF s
<1>3. used = f["usedBallotPapers"] /\ issued = f["ballotPapersIssued"]
  BY <1>1, <1>2, BoxIs DEF OrZero
<1>4. ~(f["accreditedVoters"] > f["registeredVoters"])
  BY <1>1, <1>2
<1>5. Total(s.parties) = f["votesCast"]
  BY <1>2 DEF valid
<1>6. f["accreditedVoters"] = f["usedBallotPapers"]
  BY <1>2
<1>7. ArithmeticFlags(s) = {}
  BY <1>3, <1>4, <1>5, <1>6 DEF ArithmeticFlags
<1> QED BY <1>7 DEF s

(* Merging with an extract that holds what the sheet holds. *)
LEMMA MergeIs ==
    ASSUME NEW typed, NEW x, x.unreadable = FALSE
    PROVE  LET merged == MergeVisionWithArithmetic(typed, x)
               differing == Differing(typed.fields, x.fields)
                               \union Differing(typed.parties, x.parties)
           IN  /\ merged.differing = differing
               /\ differing # {} => merged.recommendation = "RETURN"
               /\ /\ differing = {} /\ ArithmeticFlags(typed) = {}
                  /\ Total(x.parties) = typed.fields["votesCast"]
                  => merged.recommendation = "APPROVE"
BY DEF MergeVisionWithArithmetic

LEMMA OffByOne ==
    ASSUME NEW f, NEW b \in DOMAIN f, f[b] \in Int
    PROVE  /\ b \in Differing([f EXCEPT ![b] = @ + 1], f)
           /\ [f EXCEPT ![b] = @ + 1] # f
<1>1. [f EXCEPT ![b] = @ + 1][b] # f[b]
  OBVIOUS
<1> QED BY <1>1 DEF Differing

LEMMA SheetNumbers ==
    ASSUME NEW votes, DOMAIN votes = Code, \A c \in Code : votes[c] \in Nat,
           NEW rejected \in Nat
    PROVE  LET s == Sheet(votes, rejected)
           IN  /\ DOMAIN s.fields = Box /\ \A b \in Box : s.fields[b] \in Nat
               /\ DOMAIN s.parties = Code /\ \A c \in Code : s.parties[c] \in Nat
<1>1. Total(votes) \in Nat
  BY TotalType
<1> QED BY <1>1, SheetHolds, BoxIs

LEMMA AdviceOf ==
    ASSUME NEW votes, DOMAIN votes = Code, \A c \in Code : votes[c] \in Nat,
           NEW rejected \in Nat,
           photo.sheet = Sheet(votes, rejected),
           NEW x, x.fields = photo.sheet.fields, x.parties = photo.sheet.parties,
           x.unreadable = FALSE,
           NEW typed \in Typed
    PROVE  LET merged == MergeVisionWithArithmetic(typed, x)
           IN  /\ merged.recommendation = IF typed = photo.sheet THEN "APPROVE" ELSE "RETURN"
               /\ merged.differing = Differing(typed.fields, photo.sheet.fields)
                                        \union Differing(typed.parties, photo.sheet.parties)
<1> DEFINE s == photo.sheet
           merged == MergeVisionWithArithmetic(typed, x)
           differing == Differing(typed.fields, s.fields) \union Differing(typed.parties, s.parties)
<1>1. /\ DOMAIN s.fields = Box /\ \A b \in Box : s.fields[b] \in Nat
      /\ DOMAIN s.parties = Code /\ \A c \in Code : s.parties[c] \in Nat
  BY SheetNumbers
<1>2. ArithmeticFlags(s) = {} /\ Total(s.parties) = s.fields["votesCast"]
  BY SheetAddsUp, SheetHolds
<1>3. s = [parties |-> s.parties, fields |-> s.fields]
  BY SheetHolds
<1>4. /\ merged.differing = differing
      /\ differing # {} => merged.recommendation = "RETURN"
      /\ differing = {} /\ ArithmeticFlags(typed) = {} /\ Total(s.parties) = typed.fields["votesCast"]
         => merged.recommendation = "APPROVE"
  <2> DEFINE told == Differing(typed.fields, x.fields) \union Differing(typed.parties, x.parties)
  <2>1. /\ merged.differing = told
        /\ told # {} => merged.recommendation = "RETURN"
        /\ told = {} /\ ArithmeticFlags(typed) = {} /\ Total(x.parties) = typed.fields["votesCast"]
           => merged.recommendation = "APPROVE"
    BY MergeIs
  <2>2. told = differing /\ Total(x.parties) = Total(s.parties)
    OBVIOUS
  <2> QED BY <2>1, <2>2
<1>5. \/ typed = s
      \/ \E b \in Box : typed = [s EXCEPT !.fields[b] = @ + 1]
      \/ \E c \in Code : typed = [s EXCEPT !.parties[c] = @ + 1]
  BY DEF Typed
<1>6. CASE typed = s
  <2>1. differing = {}
    BY <1>6 DEF Differing
  <2> QED BY <1>2, <1>4, <1>6, <2>1
<1> HIDE DEF s, merged
<1>7. CASE \E b \in Box : typed = [s EXCEPT !.fields[b] = @ + 1]
  <2>1. PICK b \in Box : typed = [s EXCEPT !.fields[b] = @ + 1]
    BY <1>7
  <2>2. typed.fields = [s.fields EXCEPT ![b] = @ + 1]
    BY <1>3, <2>1
  <2>3. b \in Differing(typed.fields, s.fields) /\ typed.fields # s.fields
    BY <1>1, <2>2, OffByOne
  <2>4. differing # {} /\ typed # s
    BY <2>3
  <2> QED BY <1>4, <2>4 DEF s, merged
<1>8. CASE \E c \in Code : typed = [s EXCEPT !.parties[c] = @ + 1]
  <2>1. PICK c \in Code : typed = [s EXCEPT !.parties[c] = @ + 1]
    BY <1>8
  <2>2. typed.parties = [s.parties EXCEPT ![c] = @ + 1]
    BY <1>3, <2>1
  <2>3. c \in Differing(typed.parties, s.parties) /\ typed.parties # s.parties
    BY <1>1, <2>2, OffByOne
  <2>4. differing # {} /\ typed # s
    BY <2>3
  <2> QED BY <1>4, <2>4 DEF s, merged
<1> QED BY <1>5, <1>6, <1>7, <1>8 DEF s, merged

LEMMA NobodyVoted == Total([c \in Code |-> 0]) + 0 + 50 <= MostInBox
<1> DEFINE f == [c \in Code |-> 0]
           G == {R \in SUBSET Code : SumFunctionOnSet(f, R) = 0}
<1>1. IsFiniteSet(Code)
  BY CodesFinite
<1>2. {} \in G
  BY SumEmpty
<1>3. ASSUME NEW R \in G, NEW x \in Code \ R PROVE R \union {x} \in G
  <2>1. IsFiniteSet(R) /\ R \union {x} \in SUBSET Code
    BY <1>1, FS_Subset
  <2>2. \A y \in R \union {x} : f[y] \in Nat
    BY <2>1
  <2>3. f[x] = 0 /\ SumFunctionOnSet(f, R) = 0
    OBVIOUS
  <2> HIDE DEF f
  <2>4. SumFunctionOnSet(f, R \union {x}) = f[x] + SumFunctionOnSet(f, R)
    BY <2>1, <2>2, SumAdd
  <2> QED BY <2>1, <2>3, <2>4
<1>4. Code \in G
  <2>1. G \in SUBSET (SUBSET Code)
    OBVIOUS
  <2> HIDE DEF G
  <2> QED BY <1>1, <1>2, <1>3, <2>1, FiniteSetInduction
<1>5. DOMAIN f = Code
  OBVIOUS
<1>6. SumFunctionOnSet(f, Code) = 0
  BY <1>4
<1> HIDE DEF f
<1>7. Total(f) = 0
  BY <1>5, <1>6 DEF Total, SumFunction
<1>8. 50 <= MostInBox
  BY SMT DEF MostInBox
<1>9. MostInBox \in Nat
  BY SMT DEF MostInBox
<1>10. Total(f) + 0 + 50 = 50
  BY <1>7
<1> QED BY <1>8, <1>10 DEF f

(* A form as somebody fills and photographs it, or the empty one; what was *)
(* read of it is what the reading gives.                                   *)
FilledForm(ph) ==
    /\ \E votes \in [Code -> Votes], rejected \in Lost :
          ph.sheet = Sheet(votes, rejected) /\ Total(votes) + rejected + 50 <= MostInBox
    /\ ph.figures \subseteq Code /\ ph.words \subseteq Code
    /\ ph.apart \in BOOLEAN /\ ph.places \in BOOLEAN

PhotosInv ==
    /\ FilledForm(photo)
    /\ extract = Unseen \/ extract = ParseEc8aOcr(TextOf(photo), PlacesOf(photo))

THEOREM PhotosAreForms == PhotosSpec => []PhotosInv
<1>1. PhotosInit => PhotosInv
  <2> SUFFICES ASSUME PhotosInit PROVE PhotosInv
    OBVIOUS
  <2>1. CASE photo \in Photos
    <3>1. PICK sheet \in {Sheet(votes, rejected) : votes \in [Code -> VotesOfParty],
                                                   rejected \in Rejected},
               figures \in SUBSET Code, words \in SUBSET Code,
               apart \in BOOLEAN, places \in BOOLEAN, agents \in BOOLEAN :
            photo = [sheet |-> sheet, figures |-> figures, words |-> words,
                     apart |-> apart, places |-> places, agents |-> agents]
      BY <2>1 DEF Photos
    <3>2. PICK votes \in [Code -> VotesOfParty], rejected \in Rejected :
            sheet = Sheet(votes, rejected)
      BY <3>1
    <3>3. votes \in [Code -> Votes] /\ rejected \in Lost
      BY DEF Votes, Lost
    <3>4. /\ photo.sheet = Sheet(votes, rejected) /\ photo.figures = figures
          /\ photo.words = words /\ photo.apart = apart /\ photo.places = places
      BY <3>1, <3>2
    <3>5. FilledForm(photo)
      <4>1. Total(votes) + rejected + 50 <= MostInBox
        BY FormAssumption
      <4>2. \E v \in [Code -> Votes], r \in Lost :
              photo.sheet = Sheet(v, r) /\ Total(v) + r + 50 <= MostInBox
        BY <3>3, <3>4, <4>1
      <4> QED BY <3>4, <4>2 DEF FilledForm
    <3> QED BY <3>5 DEF PhotosInit, PhotosInv
  <2>2. CASE photo = EmptyForm
    <3> DEFINE votes == [c \in Code |-> 0]
    <3>1. votes \in [Code -> Votes] /\ 0 \in Lost
      BY DEF Votes, Lost
    <3>2. FilledForm(photo)
      <4>1. Total(votes) + 0 + 50 <= MostInBox
        BY NobodyVoted
      <4>2. photo.sheet = Sheet(votes, 0)
        BY <2>2 DEF EmptyForm
      <4>3. \E v \in [Code -> Votes], r \in Lost :
              photo.sheet = Sheet(v, r) /\ Total(v) + r + 50 <= MostInBox
        <5> HIDE DEF votes
        <5> QED BY <3>1, <4>1, <4>2
      <4> QED BY <2>2, <4>3 DEF FilledForm, EmptyForm
    <3> QED BY <3>2 DEF PhotosInit, PhotosInv
  <2> QED BY <2>1, <2>2 DEF PhotosInit
<1>2. PhotosInv /\ [PhotosNext]_photoVars => PhotosInv'
  BY DEF PhotosInv, PhotosNext, ExtractEc8a, photoVars
<1> QED BY <1>1, <1>2, PTL DEF PhotosSpec

LEMMA AdviceFollowsReading == PhotosInv /\ ClearFormReadExactly => AdviceFollowsForm
<1> SUFFICES ASSUME PhotosInv, ClearFormReadExactly, extract # Unseen, Clear(photo),
                    Plain(photo), NEW typed \in Typed
             PROVE  LET merged == MergeVisionWithArithmetic(typed, extract)
                    IN  /\ merged.recommendation = IF typed = photo.sheet THEN "APPROVE" ELSE "RETURN"
                        /\ merged.differing = Differing(typed.fields, photo.sheet.fields)
                                      \union Differing(typed.parties, photo.sheet.parties)
  BY DEF AdviceFollowsForm
<1>1. PICK votes \in [Code -> Votes], rejected \in Lost : photo.sheet = Sheet(votes, rejected)
  BY DEF PhotosInv, FilledForm
<1>2. DOMAIN votes = Code /\ (\A c \in Code : votes[c] \in Nat) /\ rejected \in Nat
  BY VotesNat
<1>3. /\ extract.fields = photo.sheet.fields /\ extract.parties = photo.sheet.parties
      /\ ~extract.unreadable
  BY DEF ClearFormReadExactly
<1>4. extract.unreadable = FALSE
  BY <1>3
<1> QED BY <1>1, <1>2, <1>3, <1>4, AdviceOf

(* What a concatenation holds. *)
LEMMA Concat ==
    ASSUME NEW S, NEW a \in Seq(S), NEW b \in Seq(S), NEW c, c = a \o b
    PROVE  /\ c \in Seq(S) /\ Len(a) \in Nat /\ Len(b) \in Nat /\ Len(c) = Len(a) + Len(b)
           /\ \A k \in 1..Len(a) : c[k] = a[k]
           /\ \A k \in 1..Len(b) : c[Len(a) + k] = b[k]
<1>1. c \in Seq(S) /\ Len(a) \in Nat /\ Len(b) \in Nat /\ Len(c) = Len(a) + Len(b)
  BY ConcatProperties
<1>2. ASSUME NEW k \in 1..Len(a) PROVE c[k] = a[k]
  OBVIOUS
<1>3. ASSUME NEW k \in 1..Len(b) PROVE c[Len(a) + k] = b[k]
  OBVIOUS
<1> QED BY <1>1, <1>2, <1>3

LEMMA OnesDiffer == \A m, n \in 1..19 : Ones[m] = Ones[n] => m = n
<1>1. /\ Ones[1] = "one" /\ \A n \in 1..19 : Ones[n] = "one" => n = 1
      /\ Ones[2] = "two" /\ \A n \in 1..19 : Ones[n] = "two" => n = 2
      /\ Ones[3] = "three" /\ \A n \in 1..19 : Ones[n] = "three" => n = 3
      /\ Ones[4] = "four" /\ \A n \in 1..19 : Ones[n] = "four" => n = 4
      /\ Ones[5] = "five" /\ \A n \in 1..19 : Ones[n] = "five" => n = 5
      /\ Ones[6] = "six" /\ \A n \in 1..19 : Ones[n] = "six" => n = 6
      /\ Ones[7] = "seven" /\ \A n \in 1..19 : Ones[n] = "seven" => n = 7
      /\ Ones[8] = "eight" /\ \A n \in 1..19 : Ones[n] = "eight" => n = 8
      /\ Ones[9] = "nine" /\ \A n \in 1..19 : Ones[n] = "nine" => n = 9
      /\ Ones[10] = "ten" /\ \A n \in 1..19 : Ones[n] = "ten" => n = 10
      /\ Ones[11] = "eleven" /\ \A n \in 1..19 : Ones[n] = "eleven" => n = 11
      /\ Ones[12] = "twelve" /\ \A n \in 1..19 : Ones[n] = "twelve" => n = 12
      /\ Ones[13] = "thirteen" /\ \A n \in 1..19 : Ones[n] = "thirteen" => n = 13
      /\ Ones[14] = "fourteen" /\ \A n \in 1..19 : Ones[n] = "fourteen" => n = 14
      /\ Ones[15] = "fifteen" /\ \A n \in 1..19 : Ones[n] = "fifteen" => n = 15
      /\ Ones[16] = "sixteen" /\ \A n \in 1..19 : Ones[n] = "sixteen" => n = 16
      /\ Ones[17] = "seventeen" /\ \A n \in 1..19 : Ones[n] = "seventeen" => n = 17
      /\ Ones[18] = "eighteen" /\ \A n \in 1..19 : Ones[n] = "eighteen" => n = 18
      /\ Ones[19] = "nineteen" /\ \A n \in 1..19 : Ones[n] = "nineteen" => n = 19
  BY DEF Ones
<1>2. ASSUME NEW m \in 1..19 PROVE \A n \in 1..19 : Ones[m] = Ones[n] => m = n
  <2>1. m = 1 \/ m = 2 \/ m = 3 \/ m = 4 \/ m = 5 \/ m = 6 \/ m = 7 \/ m = 8 \/ m = 9 \/ m
        = 10 \/ m = 11 \/ m = 12 \/ m = 13 \/ m = 14 \/ m = 15 \/ m = 16 \/ m = 17 \/ m = 18 \/ m
        = 19
    OBVIOUS
  <2> QED BY <1>1, <2>1
<1> QED BY <1>2

LEMMA TensDiffer == \A m, n \in 2..9 : Tens[m] = Tens[n] => m = n
<1>1. /\ Tens[2] = "twenty" /\ \A n \in 2..9 : Tens[n] = "twenty" => n = 2
      /\ Tens[3] = "thirty" /\ \A n \in 2..9 : Tens[n] = "thirty" => n = 3
      /\ Tens[4] = "forty" /\ \A n \in 2..9 : Tens[n] = "forty" => n = 4
      /\ Tens[5] = "fifty" /\ \A n \in 2..9 : Tens[n] = "fifty" => n = 5
      /\ Tens[6] = "sixty" /\ \A n \in 2..9 : Tens[n] = "sixty" => n = 6
      /\ Tens[7] = "seventy" /\ \A n \in 2..9 : Tens[n] = "seventy" => n = 7
      /\ Tens[8] = "eighty" /\ \A n \in 2..9 : Tens[n] = "eighty" => n = 8
      /\ Tens[9] = "ninety" /\ \A n \in 2..9 : Tens[n] = "ninety" => n = 9
  BY DEF Tens
<1>2. ASSUME NEW m \in 2..9 PROVE \A n \in 2..9 : Tens[m] = Tens[n] => m = n
  <2>1. m = 2 \/ m = 3 \/ m = 4 \/ m = 5 \/ m = 6 \/ m = 7 \/ m = 8 \/ m = 9
    OBVIOUS
  <2> QED BY <1>1, <2>1
<1> QED BY <1>2

LEMMA OnesAlone ==
    \A n \in 1..19 : Ones[n] \notin {"and", "hundred", "thousand", "zero", "digits", "end", "other", "twenty",
                        "thirty", "forty", "fifty", "sixty", "seventy", "eighty", "ninety"}
BY DEF Ones

LEMMA TensAre ==
    \A n \in 2..9 : Tens[n] \in {"twenty", "thirty", "forty", "fifty", "sixty", "seventy", "eighty", "ninety"}
BY DEF Tens

LEMMA TensAlone ==
    \A n \in 2..9 : Tens[n] \notin {"and", "hundred", "thousand", "zero", "digits", "end", "other"}
BY DEF Tens

LEMMA OnesRead ==
    \A n \in 1..19 : /\ IsOne(Ones[n]) /\ OneOf(Ones[n]) = n /\ ~IsTen(Ones[n])
                     /\ Ones[n] \notin {"and", "hundred", "thousand", "zero", "digits", "end", "other"}
<1>1. ASSUME NEW n \in 1..19 PROVE IsOne(Ones[n]) /\ OneOf(Ones[n]) = n
  BY OnesDiffer DEF IsOne, OneOf
<1>2. ASSUME NEW n \in 1..19 PROVE ~IsTen(Ones[n])
  BY OnesAlone, TensAre DEF IsTen
<1>3. ASSUME NEW n \in 1..19
      PROVE  Ones[n] \notin {"and", "hundred", "thousand", "zero", "digits", "end", "other"}
  BY OnesAlone
<1> QED BY <1>1, <1>2, <1>3

LEMMA TensRead ==
    \A n \in 2..9 : /\ IsTen(Tens[n]) /\ TenOf(Tens[n]) = 10 * n /\ ~IsOne(Tens[n])
                    /\ Tens[n] \notin {"and", "hundred", "thousand", "zero", "digits", "end", "other"}
<1>1. ASSUME NEW n \in 2..9 PROVE IsTen(Tens[n]) /\ TenOf(Tens[n]) = 10 * n
  BY TensDiffer DEF IsTen, TenOf
<1>2. ASSUME NEW n \in 2..9 PROVE ~IsOne(Tens[n])
  BY OnesAlone, TensAre DEF IsOne
<1> QED BY <1>1, <1>2, TensAlone

NumberWord(w) == w \in {"and", "hundred", "thousand"} \/ IsOne(w) \/ IsTen(w)

LEMMA OtherWords ==
    /\ \A w \in {"and", "hundred", "thousand", "zero", "digits", "end", "other"} : ~IsOne(w) /\ ~IsTen(w)
    /\ ~NumberWord("digits") /\ ~NumberWord("end") /\ ~NumberWord("other") /\ ~NumberWord("zero")
<1>1. \A w \in {"and", "hundred", "thousand", "zero", "digits", "end", "other"} : ~IsOne(w) /\ ~IsTen(w)
  BY OnesAlone, TensAlone DEF IsOne, IsTen
<1> QED BY <1>1 DEF NumberWord

(* A loop of n rounds F over states of a set has a history.                *)
Goes(s0, F, n, g) == g[0] = s0 /\ \A k \in 1..n : g[k] = F[<<k, g[k - 1]>>]

LEMMA LoopRuns ==
    ASSUME NEW S, NEW s0 \in S, NEW F \in [Nat \X S -> S]
    PROVE  \A n \in Nat : \E g \in [0..n -> S] : Goes(s0, F, n, g)
<1> DEFINE N == {n \in Nat : \E g \in [0..n -> S] : Goes(s0, F, n, g)}
<1>1. 0 \in N
  <2>1. [k \in 0..0 |-> s0] \in [0..0 -> S] /\ Goes(s0, F, 0, [k \in 0..0 |-> s0])
    BY DEF Goes
  <2> QED BY <2>1
<1>2. ASSUME NEW n \in N PROVE n + 1 \in N
  <2>1. PICK g \in [0..n -> S] : Goes(s0, F, n, g)
    OBVIOUS
  <2> DEFINE h == [k \in 0..(n + 1) |-> IF k <= n THEN g[k] ELSE F[<<n + 1, g[n]>>]]
  <2>2. h \in [0..(n + 1) -> S]
    <3>1. <<n + 1, g[n]>> \in Nat \X S
      OBVIOUS
    <3> QED BY <3>1
  <2>3. h[0] = s0
    BY <2>1 DEF Goes
  <2>4. ASSUME NEW k \in 1..(n + 1) PROVE h[k] = F[<<k, h[k - 1]>>]
    <3>1. h[k - 1] = g[k - 1]
      OBVIOUS
    <3>2. CASE k <= n
      BY <2>1, <3>1, <3>2 DEF Goes
    <3>3. CASE k = n + 1
      <4>1. k - 1 = n /\ ~(k <= n)
        BY <3>3
      <4>2. h[k] = F[<<n + 1, g[n]>>]
        BY <4>1
      <4> QED BY <3>1, <3>3, <4>1, <4>2
    <3> QED BY <3>2, <3>3
  <2> HIDE DEF h
  <2>5. Goes(s0, F, n + 1, h)
    BY <2>3, <2>4 DEF Goes
  <2> QED BY <2>2, <2>5
<1> HIDE DEF N
<1>3. N = Nat
  BY <1>1, <1>2, NatSetInduction DEF N
<1> QED BY <1>3 DEF N

-----------------------------------------------------------------------------
(* The states of the loop over the words of a number. *)
Readers == [total : Nat, current : Nat, next : Nat, open : BOOLEAN]

LEMMA ReadWordType == \A w : \A n \in Readers : ReadWord(n, w) \in Readers
<1> SUFFICES ASSUME NEW n \in Readers, NEW w PROVE ReadWord(n, w) \in Readers
  OBVIOUS
<1>1. /\ n.total \in Nat /\ n.current \in Nat /\ n.next \in Nat /\ n.open \in BOOLEAN
  BY DEF Readers
<1>2. IsOne(w) => OneOf(w) \in Nat
  BY DEF IsOne, OneOf
<1>3. IsTen(w) => TenOf(w) \in Nat
  BY DEF IsTen, TenOf
<1>4. OrOne(n.current) \in Nat
  BY <1>1 DEF OrOne
<1> DEFINE went(total, current) ==
        Reader(total, current, n.next + 1)
<1>5. \A t, c \in Nat : went(t, c) \in Readers
  <2>2. n.next + 1 \in Nat
    BY <1>1
  <2> QED BY <2>2 DEF Reader, Readers
<1>6. [n EXCEPT !.open = FALSE] \in Readers
  BY DEF Readers
<1>7. OrOne(n.current) * 100 \in Nat /\ n.total + OrOne(n.current) * 1000 \in Nat
  BY <1>1, <1>4
<1>8. IsOne(w) => n.current + OneOf(w) \in Nat
  BY <1>1, <1>2
<1>9. IsTen(w) => n.current + TenOf(w) \in Nat
  BY <1>1, <1>3
<1>10. ReadWord(n, w) = n \/ ReadWord(n, w) = [n EXCEPT !.open = FALSE]
       \/ \E t, c \in Nat : ReadWord(n, w) = went(t, c)
  <2>1. ReadWord(n, w) =
            IF ~n.open THEN n
            ELSE IF w = "and" THEN went(n.total, n.current)
            ELSE IF IsOne(w) /\ n.current \notin 1..19 /\ n.current % 10 = 0
                 THEN went(n.total, n.current + OneOf(w))
            ELSE IF IsTen(w) /\ n.current % 100 = 0 THEN went(n.total, n.current + TenOf(w))
            ELSE IF w = "hundred" THEN went(n.total, OrOne(n.current) * 100)
            ELSE IF w = "thousand" THEN went(n.total + OrOne(n.current) * 1000, 0)
            ELSE [n EXCEPT !.open = FALSE]
    BY DEF ReadWord
  <2> HIDE DEF went
  <2> QED BY <1>1, <1>7, <1>8, <1>9, <2>1
<1> HIDE DEF went
<1> QED BY <1>5, <1>6, <1>10

(* One round on an open number. *)
LEMMA ReadOpen ==
    ASSUME NEW t, NEW c, NEW x, NEW w
    PROVE  ReadWord(Reader(t, c, x), w) =
               IF w = "and" THEN Reader(t, c, x + 1)
               ELSE IF IsOne(w) /\ c \notin 1..19 /\ c % 10 = 0 THEN Reader(t, c + OneOf(w), x + 1)
               ELSE IF IsTen(w) /\ c % 100 = 0 THEN Reader(t, c + TenOf(w), x + 1)
               ELSE IF w = "hundred" THEN Reader(t, OrOne(c) * 100, x + 1)
               ELSE IF w = "thousand" THEN Reader(t + OrOne(c) * 1000, 0, x + 1)
               ELSE [Reader(t, c, x) EXCEPT !.open = FALSE]
<1> DEFINE went(total, current) ==
        Reader(total, current, Reader(t, c, x).next + 1)
<1>1. \A a, b : went(a, b) = Reader(a, b, x + 1)
  BY DEF Reader
<1>2. /\ Reader(t, c, x).open /\ Reader(t, c, x).total = t /\ Reader(t, c, x).current = c
  BY DEF Reader
<1>3. ReadWord(Reader(t, c, x), w) =
            IF ~Reader(t, c, x).open THEN Reader(t, c, x)
            ELSE IF w = "and" THEN went(Reader(t, c, x).total, Reader(t, c, x).current)
            ELSE IF IsOne(w) /\ Reader(t, c, x).current \notin 1..19 /\ Reader(t, c, x).current % 10 = 0
                 THEN went(Reader(t, c, x).total, Reader(t, c, x).current + OneOf(w))
            ELSE IF IsTen(w) /\ Reader(t, c, x).current % 100 = 0
                 THEN went(Reader(t, c, x).total, Reader(t, c, x).current + TenOf(w))
            ELSE IF w = "hundred" THEN went(Reader(t, c, x).total, OrOne(Reader(t, c, x).current) * 100)
            ELSE IF w = "thousand"
                 THEN went(Reader(t, c, x).total + OrOne(Reader(t, c, x).current) * 1000, 0)
            ELSE [Reader(t, c, x) EXCEPT !.open = FALSE]
  BY DEF ReadWord
<1> HIDE DEF went
<1> QED BY <1>1, <1>2, <1>3

(* What each kind of word does to an open number. *)
LEMMA ReadOnes ==
    ASSUME NEW t \in Nat, NEW c \in Nat, NEW x \in Nat, NEW n \in 1..19,
           c \notin 1..19, c % 10 = 0
    PROVE  ReadWord(Reader(t, c, x), Ones[n]) = Reader(t, c + n, x + 1)
<1>1. IsOne(Ones[n]) /\ OneOf(Ones[n]) = n /\ Ones[n] # "and"
  BY OnesRead
<1> QED BY <1>1, ReadOpen

LEMMA ReadTens ==
    ASSUME NEW t \in Nat, NEW c \in Nat, NEW x \in Nat, NEW n \in 2..9, c % 100 = 0
    PROVE  ReadWord(Reader(t, c, x), Tens[n]) = Reader(t, c + 10 * n, x + 1)
<1>1. IsTen(Tens[n]) /\ TenOf(Tens[n]) = 10 * n /\ Tens[n] # "and" /\ ~IsOne(Tens[n])
  BY TensRead
<1> QED BY <1>1, ReadOpen

LEMMA ReadOthers ==
    ASSUME NEW t \in Nat, NEW c \in Nat, NEW x \in Nat
    PROVE  /\ ReadWord(Reader(t, c, x), "and") = Reader(t, c, x + 1)
           /\ c # 0 => ReadWord(Reader(t, c, x), "hundred") = Reader(t, c * 100, x + 1)
           /\ c # 0 => ReadWord(Reader(t, c, x), "thousand") = Reader(t + c * 1000, 0, x + 1)
<1>1. \A w \in {"hundred", "thousand"} : ~IsOne(w) /\ ~IsTen(w) /\ w # "and"
  <2>1. \A w \in {"hundred", "thousand"} : w # "and"
    OBVIOUS
  <2> QED BY <2>1, OtherWords
<1>2. c # 0 => OrOne(c) = c
  BY DEF OrOne
<1>3. ReadWord(Reader(t, c, x), "and") = Reader(t, c, x + 1)
  BY ReadOpen
<1>4. c # 0 => ReadWord(Reader(t, c, x), "hundred") = Reader(t, c * 100, x + 1)
  BY <1>1, <1>2, ReadOpen
<1>5. c # 0 => ReadWord(Reader(t, c, x), "thousand") = Reader(t + c * 1000, 0, x + 1)
  <2>1. "thousand" # "hundred"
    OBVIOUS
  <2> QED BY <1>1, <1>2, <2>1, ReadOpen
<1> QED BY <1>3, <1>4, <1>5

LEMMA ReadEnd ==
    ASSUME NEW t, NEW c, NEW x, NEW w, ~NumberWord(w)
    PROVE  ReadWord(Reader(t, c, x), w) = [Reader(t, c, x) EXCEPT !.open = FALSE]
<1>1. w # "and" /\ w # "hundred" /\ w # "thousand" /\ ~IsOne(w) /\ ~IsTen(w)
  BY DEF NumberWord
<1> QED BY <1>1, ReadOpen

-----------------------------------------------------------------------------
(* The history of the loop over tokens, begun at token i. *)
IsReading(tokens, i, r) ==
    r = [k \in 0..Len(tokens) |->
            IF k < i THEN Began(i) ELSE ReadWord(r[k - 1], tokens[k].word)]
ReadingOf(tokens, i) == CHOOSE r : IsReading(tokens, i, r)

LEMMA SumWordsIs ==
    \A tokens, i :
        SumWords(tokens, i) = [value |-> ReadingOf(tokens, i)[Len(tokens)].total
                                            + ReadingOf(tokens, i)[Len(tokens)].current,
                               next |-> ReadingOf(tokens, i)[Len(tokens)].next]
BY DEF SumWords, ReadingOf, IsReading

LEMMA ReadingIs ==
    ASSUME NEW S, NEW tokens \in Seq(S), NEW i \in Nat, i >= 1
    PROVE  IsReading(tokens, i, ReadingOf(tokens, i))
<1> DEFINE F == [p \in Nat \X Readers |->
                    IF p[1] < i THEN Began(i) ELSE ReadWord(p[2], tokens[p[1]].word)]
<1>1. Len(tokens) \in Nat
  OBVIOUS
<1>2. Began(i) \in Readers
  BY DEF Began, Reader, Readers
<1>3. F \in [Nat \X Readers -> Readers]
  BY <1>2, ReadWordType
<1>4. \A k \in Nat, n \in Readers :
         F[<<k, n>>] = IF k < i THEN Began(i) ELSE ReadWord(n, tokens[k].word)
  OBVIOUS
<1> HIDE DEF F
<1>5. \A n \in Nat : \E g \in [0..n -> Readers] : Goes(Began(i), F, n, g)
  BY <1>2, <1>3, LoopRuns
<1>6. PICK g \in [0..Len(tokens) -> Readers] :
         g[0] = Began(i) /\ \A k \in 1..Len(tokens) : g[k] = F[<<k, g[k - 1]>>]
  BY <1>1, <1>5 DEF Goes
<1>7. ASSUME NEW k \in 0..Len(tokens)
      PROVE  g[k] = IF k < i THEN Began(i) ELSE ReadWord(g[k - 1], tokens[k].word)
  <2>1. CASE k = 0
    BY <1>6, <2>1
  <2>2. CASE k # 0
    <3>1. k \in 1..Len(tokens) /\ k \in Nat /\ g[k - 1] \in Readers
      BY <1>1, <2>2
    <3> QED BY <1>4, <1>6, <3>1
  <2> QED BY <2>1, <2>2
<1>8. g = [k \in 0..Len(tokens) |-> g[k]]
  OBVIOUS
<1>9. IsReading(tokens, i, g)
  BY <1>7, <1>8 DEF IsReading
<1> QED BY <1>9 DEF ReadingOf

(* Rounds k of the history r that read the words of the tokens. *)
Rounds(tokens, i, r) ==
    /\ r[i - 1] = Reader(0, 0, i)
    /\ \A k \in i..Len(tokens) : r[k] = ReadWord(r[k - 1], tokens[k].word)

LEMMA ReadingRounds ==
    ASSUME NEW S, NEW tokens \in Seq(S), NEW i \in 1..(Len(tokens) + 1)
    PROVE  Rounds(tokens, i, ReadingOf(tokens, i))
<1> DEFINE r == ReadingOf(tokens, i)
<1>1. r = [k \in 0..Len(tokens) |->
              IF k < i THEN Began(i) ELSE ReadWord(r[k - 1], tokens[k].word)]
  BY ReadingIs DEF IsReading
<1> HIDE DEF r
<1>2. i - 1 \in 0..Len(tokens) /\ i - 1 < i
  OBVIOUS
<1>3. r[i - 1] = Began(i)
  BY <1>1, <1>2
<1>4. \A k \in i..Len(tokens) : k \in 0..Len(tokens) /\ ~(k < i)
  OBVIOUS
<1>5. \A k \in i..Len(tokens) : r[k] = ReadWord(r[k - 1], tokens[k].word)
  BY <1>1, <1>4
<1> QED BY <1>3, <1>5 DEF Rounds, Began, r

-----------------------------------------------------------------------------
(* The words numbers are written with. *)
Vocabulary == {Ones[n] : n \in 1..19} \union {Tens[n] : n \in 2..9}
                 \union {"and", "hundred", "thousand", "zero"}

(* Tokens k, k + 1, ... are these words. *)
Holds(tokens, k, words) ==
    \A j \in 1..Len(words) : k + j - 1 \in 1..Len(tokens) /\ tokens[k + j - 1].word = words[j]

LEMMA InVocabulary ==
    /\ \A n \in 1..19 : Ones[n] \in Vocabulary
    /\ \A n \in 2..9 : Tens[n] \in Vocabulary
    /\ {"and", "hundred", "thousand", "zero"} \subseteq Vocabulary
BY DEF Vocabulary

LEMMA HoldsParts ==
    ASSUME NEW S, NEW tokens \in Seq(S), NEW k \in Nat,
           NEW a \in Seq(Vocabulary), NEW b \in Seq(Vocabulary), Holds(tokens, k, a \o b)
    PROVE  Holds(tokens, k, a) /\ Holds(tokens, k + Len(a), b)
<1>1. Len(a) \in Nat /\ Len(b) \in Nat /\ Len(a \o b) = Len(a) + Len(b)
  OBVIOUS
<1>2. ASSUME NEW j \in 1..Len(a)
      PROVE  k + j - 1 \in 1..Len(tokens) /\ tokens[k + j - 1].word = a[j]
  <2>1. j \in 1..Len(a \o b) /\ (a \o b)[j] = a[j]
    BY <1>1
  <2> QED BY <2>1 DEF Holds
<1>3. ASSUME NEW j \in 1..Len(b)
      PROVE  /\ (k + Len(a)) + j - 1 \in 1..Len(tokens)
             /\ tokens[(k + Len(a)) + j - 1].word = b[j]
  <2>1. Len(a) + j \in 1..Len(a \o b) /\ (a \o b)[Len(a) + j] = b[j]
    BY <1>1
  <2>2. k + (Len(a) + j) - 1 = (k + Len(a)) + j - 1
    BY <1>1
  <2> QED BY <2>1, <2>2 DEF Holds
<1> QED BY <1>2, <1>3 DEF Holds

(* One word, at the token the reader stands before. *)
LEMMA HoldsOne ==
    ASSUME NEW tokens, NEW k \in Nat, NEW w, Holds(tokens, k, <<w>>)
    PROVE  k \in 1..Len(tokens) /\ tokens[k].word = w
<1>1. 1 \in 1..Len(<<w>>) /\ <<w>>[1] = w /\ k + 1 - 1 = k
  OBVIOUS
<1> QED BY <1>1 DEF Holds

-----------------------------------------------------------------------------
LEMMA TwoWords ==
    ASSUME NEW S, NEW x \in S, NEW y \in S
    PROVE  /\ <<x>> \in Seq(S) /\ <<y>> \in Seq(S) /\ Len(<<x>>) = 1 /\ Len(<<y>>) = 1
           /\ <<x>> \o <<y>> \in Seq(S) /\ Len(<<x>> \o <<y>>) = 2
<1>1. <<x>> \in Seq(S) /\ <<y>> \in Seq(S) /\ Len(<<x>>) = 1 /\ Len(<<y>>) = 1
  OBVIOUS
<1> QED BY <1>1, ConcatProperties

(* A number below a hundred in words: its cases. *)
LEMMA TwoDigitsIs ==
    ASSUME NEW n \in 0..99
    PROVE  \/ n = 0 /\ TwoDigits(n) = <<>>
           \/ n \in 1..19 /\ TwoDigits(n) = <<Ones[n]>>
           \/ \E q \in 2..9 : n = 10 * q /\ TwoDigits(n) = <<Tens[q]>>
           \/ \E q \in 2..9, m \in 1..9 : n = 10 * q + m /\ TwoDigits(n) = <<Tens[q]>> \o <<Ones[m]>>
<1> DEFINE q == n \div 10
           m == n % 10
<1>1. n >= 20 => q \in 2..9 /\ m \in 0..9 /\ n = 10 * q + m
  OBVIOUS
<1>2. n >= 20 /\ m = 0 => TwoDigits(n) = <<Tens[q]>> \o <<>>
  BY DEF TwoDigits
<1>3. n >= 20 /\ m # 0 => TwoDigits(n) = <<Tens[q]>> \o <<Ones[m]>>
  BY DEF TwoDigits
<1>4. \A x : <<x>> \o <<>> = <<x>>
  <2>1. \A x : <<x>> \in Seq({x})
    OBVIOUS
  <2> QED BY <2>1, ConcatEmptySeq
<1>5. n = 0 => TwoDigits(n) = <<>>
  BY DEF TwoDigits
<1>6. n \in 1..19 => TwoDigits(n) = <<Ones[n]>>
  BY DEF TwoDigits
<1> HIDE DEF q, m
<1>7. n = 0 \/ n \in 1..19 \/ n >= 20
  OBVIOUS
<1>8. CASE n >= 20 /\ m = 0
  <2>1. q \in 2..9 /\ n = 10 * q /\ TwoDigits(n) = <<Tens[q]>>
    BY <1>1, <1>2, <1>4, <1>8
  <2> QED BY <2>1
<1>9. CASE n >= 20 /\ m # 0
  <2>1. q \in 2..9 /\ m \in 1..9 /\ n = 10 * q + m /\ TwoDigits(n) = <<Tens[q]>> \o <<Ones[m]>>
    BY <1>1, <1>3, <1>9
  <2> QED BY <2>1
<1> QED BY <1>5, <1>6, <1>7, <1>8, <1>9

LEMMA TwoDigitsType == \A n \in 0..99 : TwoDigits(n) \in Seq(Vocabulary)
<1> SUFFICES ASSUME NEW n \in 0..99 PROVE TwoDigits(n) \in Seq(Vocabulary)
  OBVIOUS
<1>1. \A x, y \in Vocabulary : <<>> \in Seq(Vocabulary) /\ <<x>> \in Seq(Vocabulary)
                               /\ <<x>> \o <<y>> \in Seq(Vocabulary)
  BY TwoWords
<1>2. \A m \in 1..9 : m \in 1..19
  OBVIOUS
<1>3. CASE n = 0 /\ TwoDigits(n) = <<>>
  <2>1. <<>> \in Seq(Vocabulary)
    OBVIOUS
  <2> QED BY <1>3, <2>1
<1>4. CASE n \in 1..19 /\ TwoDigits(n) = <<Ones[n]>>
  BY <1>1, <1>4, InVocabulary
<1>5. CASE \E q \in 2..9 : n = 10 * q /\ TwoDigits(n) = <<Tens[q]>>
  BY <1>1, <1>5, InVocabulary
<1>6. CASE \E q \in 2..9, m \in 1..9 : n = 10 * q + m /\ TwoDigits(n) = <<Tens[q]>> \o <<Ones[m]>>
  BY <1>1, <1>2, <1>6, InVocabulary
<1> QED BY <1>3, <1>4, <1>5, <1>6, TwoDigitsIs

(* After the words from token k on the reader stands before the next token *)
(* with t thousands and c in hand.                                         *)
Took(r, k, words, t, c) == r[k + Len(words) - 1] = Reader(t, c, k + Len(words))

(* The reader takes the words in hand: from full hundreds c to c + n. *)
LEMMA TwoDigitsRead ==
    ASSUME NEW S, NEW tokens \in Seq(S), NEW i \in Nat, NEW r, Rounds(tokens, i, r),
           NEW k \in Nat, k >= i, i >= 1, NEW t \in Nat, NEW c \in Nat, c % 100 = 0,
           NEW n \in 0..99, Holds(tokens, k, TwoDigits(n)), r[k - 1] = Reader(t, c, k)
    PROVE  Took(r, k, TwoDigits(n), t, c + n)
<1>1. \A j \in Nat : j >= i /\ j \in 1..Len(tokens) => r[j] = ReadWord(r[j - 1], tokens[j].word)
  BY DEF Rounds
<1>2. c \notin 1..19 /\ c % 10 = 0
  OBVIOUS
<1>3. CASE n = 0 /\ TwoDigits(n) = <<>>
  <2>1. k + Len(TwoDigits(n)) = k /\ c + n = c
    BY <1>3
  <2> QED BY <2>1 DEF Took
<1>4. CASE n \in 1..19 /\ TwoDigits(n) = <<Ones[n]>>
  <2>1. k + Len(TwoDigits(n)) = k + 1 /\ (k + 1) - 1 = k
    BY <1>4
  <2>2. k \in 1..Len(tokens) /\ tokens[k].word = Ones[n]
    BY <1>4, HoldsOne
  <2>3. r[k] = ReadWord(Reader(t, c, k), Ones[n])
    BY <1>1, <2>2
  <2>4. r[k] = Reader(t, c + n, k + 1)
    BY <1>2, <1>4, <2>3, ReadOnes, ZenonT(60)
  <2> QED BY <2>1, <2>4 DEF Took
<1>5. ASSUME NEW q \in 2..9, n = 10 * q, TwoDigits(n) = <<Tens[q]>>
      PROVE  Took(r, k, TwoDigits(n), t, c + n)
  <2>1. k + Len(TwoDigits(n)) = k + 1 /\ (k + 1) - 1 = k
    <3>1. Len(TwoDigits(n)) = 1
      BY <1>5
    <3> QED BY <3>1
  <2>2. k \in 1..Len(tokens) /\ tokens[k].word = Tens[q]
    BY <1>5, HoldsOne
  <2>3. r[k] = ReadWord(Reader(t, c, k), Tens[q])
    BY <1>1, <2>2
  <2>4. r[k] = Reader(t, c + 10 * q, k + 1)
    BY <2>3, ReadTens
  <2> QED BY <1>5, <2>1, <2>4 DEF Took
<1>6. ASSUME NEW q \in 2..9, NEW m \in 1..9, n = 10 * q + m,
             TwoDigits(n) = <<Tens[q]>> \o <<Ones[m]>>
      PROVE  Took(r, k, TwoDigits(n), t, c + n)
  <2>2. Ones[m] \in Vocabulary /\ Tens[q] \in Vocabulary
    <3>1. m \in 1..19
      OBVIOUS
    <3> QED BY <3>1, InVocabulary
  <2>3. /\ <<Tens[q]>> \in Seq(Vocabulary) /\ <<Ones[m]>> \in Seq(Vocabulary)
        /\ Len(<<Tens[q]>>) = 1 /\ Len(<<Tens[q]>> \o <<Ones[m]>>) = 2
    BY <2>2, TwoWords
  <2>1. k + Len(TwoDigits(n)) = k + 2 /\ (k + 2) - 1 = k + 1 /\ (k + 1) - 1 = k
    <3>1. Len(TwoDigits(n)) = 2
      BY <1>6, <2>3
    <3> QED BY <3>1
  <2>4. Holds(tokens, k, <<Tens[q]>>) /\ Holds(tokens, k + 1, <<Ones[m]>>)
    <3>1. Holds(tokens, k, <<Tens[q]>> \o <<Ones[m]>>)
      BY <1>6
    <3>2. Holds(tokens, k, <<Tens[q]>>) /\ Holds(tokens, k + Len(<<Tens[q]>>), <<Ones[m]>>)
      BY <2>3, <3>1, HoldsParts
    <3> QED BY <2>3, <3>2
  <2>5. k \in 1..Len(tokens) /\ tokens[k].word = Tens[q]
    BY <2>4, HoldsOne
  <2>6. k + 1 \in 1..Len(tokens) /\ tokens[k + 1].word = Ones[m]
    BY <2>4, HoldsOne
  <2>7. r[k] = ReadWord(Reader(t, c, k), Tens[q])
    BY <1>1, <2>5
  <2>8. r[k] = Reader(t, c + 10 * q, k + 1)
    BY <2>7, ReadTens
  <2>9. k + 1 \in Nat /\ k + 1 >= i /\ c + 10 * q \in Nat
    OBVIOUS
  <2>10. r[k + 1] = ReadWord(Reader(t, c + 10 * q, k + 1), Ones[m])
    BY <1>1, <2>1, <2>6, <2>8, <2>9
  <2>11. c + 10 * q \notin 1..19 /\ (c + 10 * q) % 10 = 0 /\ m \in 1..19
    OBVIOUS
  <2>12. r[k + 1] = Reader(t, (c + 10 * q) + m, (k + 1) + 1)
    <3> DEFINE d == c + 10 * q
               l == k + 1
    <3>1. d \in Nat /\ l \in Nat /\ d \notin 1..19 /\ d % 10 = 0 /\ m \in 1..19
      BY <2>9, <2>11
    <3>2. r[l] = ReadWord(Reader(t, d, l), Ones[m])
      BY <2>10
    <3> HIDE DEF d, l
    <3>3. ReadWord(Reader(t, d, l), Ones[m]) = Reader(t, d + m, l + 1)
      <4>1. t \in Nat
        OBVIOUS
      <4> HIDE <2>1, <2>4, <2>5, <2>6, <2>7, <2>8, <2>9, <2>10, <2>11, <3>2
      <4> QED BY <3>1, <4>1, ReadOnes, ZenonT(60)
    <3> QED BY <3>2, <3>3 DEF d, l
  <2>13. c + 10 * q + m = c + n /\ (k + 1) + 1 = k + 2
    BY <1>6
  <2> QED BY <2>1, <2>12, <2>13 DEF Took
<1> QED BY <1>3, <1>4, <1>5, <1>6, TwoDigitsIs, ZenonT(60)

LEMMA TookBoth ==
    ASSUME NEW S, NEW a \in Seq(S), NEW b \in Seq(S), NEW k \in Nat, NEW r, NEW t, NEW c,
           Took(r, k + Len(a), b, t, c)
    PROVE  Took(r, k, a \o b, t, c)
<1>1. Len(a) \in Nat /\ Len(b) \in Nat /\ Len(a \o b) = Len(a) + Len(b)
  BY ConcatProperties
<1>2. k + Len(a \o b) = (k + Len(a)) + Len(b)
  BY <1>1
<1> QED BY <1>2 DEF Took

(* A number of hundreds. *)
LEMMA HundredTook ==
    ASSUME NEW S, NEW tokens \in Seq(S), NEW i \in Nat, NEW r, Rounds(tokens, i, r),
           NEW k \in Nat, k >= i, i >= 1, NEW t \in Nat, NEW q \in 1..9,
           Holds(tokens, k, <<Ones[q], "hundred">>), r[k - 1] = Reader(t, 0, k)
    PROVE  Took(r, k, <<Ones[q], "hundred">>, t, q * 100)
<1>1. \A j \in Nat : j >= i /\ j \in 1..Len(tokens) => r[j] = ReadWord(r[j - 1], tokens[j].word)
  BY DEF Rounds
<1> DEFINE two == <<Ones[q], "hundred">>
<1>2. Len(two) = 2 /\ two[1] = Ones[q] /\ two[2] = "hundred"
  OBVIOUS
<1> HIDE DEF two
<1>3. k + 1 - 1 = k /\ k + 2 - 1 = k + 1 /\ 1 \in 1..2 /\ 2 \in 1..2
  OBVIOUS
<1>4. /\ k \in 1..Len(tokens) /\ tokens[k].word = Ones[q]
      /\ k + 1 \in 1..Len(tokens) /\ tokens[k + 1].word = "hundred"
  <2>1. \A j \in 1..2 : k + j - 1 \in 1..Len(tokens) /\ tokens[k + j - 1].word = two[j]
    BY <1>2 DEF Holds, two
  <2> QED BY <1>2, <1>3, <2>1
<1>5. r[k] = ReadWord(Reader(t, 0, k), Ones[q])
  BY <1>1, <1>4
<1>6. q \in 1..19 /\ 0 \notin 1..19 /\ 0 % 10 = 0 /\ 0 \in Nat /\ 0 + q = q
  OBVIOUS
<1>7. ReadWord(Reader(t, 0, k), Ones[q]) = Reader(t, 0 + q, k + 1)
  BY <1>6, ReadOnes
<1> DEFINE l == k + 1
<1>8. l \in Nat /\ l >= i /\ l \in 1..Len(tokens) /\ l - 1 = k /\ tokens[l].word = "hundred"
  BY <1>4
<1>9. r[k] = Reader(t, q, l)
  BY <1>5, <1>6, <1>7
<1> HIDE DEF l
<1>10. r[l] = ReadWord(Reader(t, q, l), "hundred")
  BY <1>1, <1>8, <1>9
<1>11. q \in Nat /\ q # 0
  OBVIOUS
<1>12. ReadWord(Reader(t, q, l), "hundred") = Reader(t, q * 100, l + 1)
  BY <1>8, <1>11, ReadOthers
<1>13. k + Len(two) - 1 = l /\ k + Len(two) = l + 1
  BY <1>2 DEF l
<1>14. Took(r, k, two, t, q * 100)
  BY <1>10, <1>12, <1>13 DEF Took
<1> QED BY <1>14 DEF two

(* The word between, written or not. *)
LEMMA AndTook ==
    ASSUME NEW S, NEW tokens \in Seq(S), NEW i \in Nat, NEW r, Rounds(tokens, i, r),
           NEW k \in Nat, k >= i, i >= 1, NEW t \in Nat, NEW c \in Nat,
           NEW b \in BOOLEAN, Holds(tokens, k, And(b)), r[k - 1] = Reader(t, c, k)
    PROVE  Took(r, k, And(b), t, c)
<1> DEFINE words == And(b)
<1>1. CASE words = <<>>
  <2>1. k + Len(words) = k
    BY <1>1
  <2> QED BY <2>1 DEF Took
<1>2. CASE words = <<"and">>
  <2>1. Len(words) = 1
    BY <1>2
  <2>2. k \in 1..Len(tokens) /\ tokens[k].word = "and"
    BY <1>2, HoldsOne
  <2>3. r[k] = ReadWord(Reader(t, c, k), "and")
    BY <2>2 DEF Rounds
  <2>4. ReadWord(Reader(t, c, k), "and") = Reader(t, c, k + 1)
    BY ReadOthers
  <2>5. k + Len(words) - 1 = k /\ k + Len(words) = k + 1
    BY <2>1
  <2> QED BY <2>3, <2>4, <2>5 DEF Took
<1> QED BY <1>1, <1>2 DEF And

(* A number of hundreds or thousands, the word between, and the rest. *)
LEMMA HoldsThree ==
    ASSUME NEW S, NEW tokens \in Seq(S), NEW k \in Nat,
           NEW h \in Seq(Vocabulary), NEW x \in Seq(Vocabulary), NEW w \in Seq(Vocabulary),
           Holds(tokens, k, (h \o x) \o w)
    PROVE  /\ Holds(tokens, k, h) /\ Holds(tokens, k + Len(h), x)
           /\ Holds(tokens, k + Len(h \o x), w)
           /\ k + Len(h) \in Nat /\ k + Len(h) >= k
           /\ k + Len(h \o x) \in Nat /\ k + Len(h \o x) >= k
<1>1. h \o x \in Seq(Vocabulary)
  BY ConcatProperties
<1>2. Holds(tokens, k, h \o x) /\ Holds(tokens, k + Len(h \o x), w)
  BY <1>1, HoldsParts
<1>3. Holds(tokens, k, h) /\ Holds(tokens, k + Len(h), x)
  BY <1>2, HoldsParts
<1>4. Len(h) \in Nat /\ Len(h \o x) \in Nat
  BY <1>1
<1> QED BY <1>2, <1>3, <1>4

LEMMA TookThree ==
    ASSUME NEW S, NEW tokens \in Seq(S), NEW i \in Nat, NEW r, Rounds(tokens, i, r),
           NEW k \in Nat, k >= i, i >= 1, NEW t, NEW c, NEW t1 \in Nat, NEW c1 \in Nat,
           NEW h \in Seq(Vocabulary), NEW b \in BOOLEAN, NEW w \in Seq(Vocabulary),
           And(b) \in Seq(Vocabulary),
           Holds(tokens, k, (h \o And(b)) \o w),
           Holds(tokens, k, h) => Took(r, k, h, t1, c1),
           \A e \in Nat : e >= i /\ Holds(tokens, e, w) /\ r[e - 1] = Reader(t1, c1, e)
                          => Took(r, e, w, t, c)
    PROVE  Took(r, k, (h \o And(b)) \o w, t, c)
<1>1. /\ Holds(tokens, k, h) /\ Holds(tokens, k + Len(h), And(b))
      /\ Holds(tokens, k + Len(h \o And(b)), w)
      /\ k + Len(h) \in Nat /\ k + Len(h) >= k
      /\ k + Len(h \o And(b)) \in Nat /\ k + Len(h \o And(b)) >= k
  BY HoldsThree
<1>2. r[k + Len(h) - 1] = Reader(t1, c1, k + Len(h))
  BY <1>1 DEF Took
<1>3. Took(r, k + Len(h), And(b), t1, c1)
  <2>1. k + Len(h) >= i
    BY <1>1
  <2> QED BY <1>1, <1>2, <2>1, AndTook
<1>4. Took(r, k, h \o And(b), t1, c1)
  BY <1>3, TookBoth
<1>5. r[k + Len(h \o And(b)) - 1] = Reader(t1, c1, k + Len(h \o And(b)))
  BY <1>4 DEF Took
<1>6. Took(r, k + Len(h \o And(b)), w, t, c)
  <2>1. k + Len(h \o And(b)) >= i
    BY <1>1
  <2> QED BY <1>1, <1>5, <2>1
<1>7. h \o And(b) \in Seq(Vocabulary)
  BY ConcatProperties
<1> QED BY <1>6, <1>7, TookBoth

LEMMA AndType == \A b \in BOOLEAN : And(b) \in Seq(Vocabulary)
<1>1. "and" \in Vocabulary
  BY InVocabulary
<1>2. <<>> \in Seq(Vocabulary) /\ <<"and">> \in Seq(Vocabulary)
  BY <1>1
<1> QED BY <1>2 DEF And

LEMMA HundredType == \A q \in 1..9 : <<Ones[q], "hundred">> \in Seq(Vocabulary)
<1> SUFFICES ASSUME NEW q \in 1..9 PROVE <<Ones[q], "hundred">> \in Seq(Vocabulary)
  OBVIOUS
<1>1. q \in 1..19
  OBVIOUS
<1>2. Ones[q] \in Vocabulary /\ "hundred" \in Vocabulary
  BY <1>1, InVocabulary
<1> QED BY <1>2

(* A number below a thousand in words: its parts. *)
Hundreds(n) == <<Ones[n \div 100], "hundred">>
Rest(n) == n % 100
Full(n) == 100 * (n \div 100)

LEMMA ThreeDigitsIs ==
    ASSUME NEW n \in 100..999, NEW joined \in BOOLEAN
    PROVE  /\ ThreeDigits(n, joined) = (Hundreds(n) \o And(joined /\ Rest(n) # 0)) \o TwoDigits(Rest(n))
           /\ n \div 100 \in 1..9 /\ Rest(n) \in 0..99
           /\ Full(n) \in Nat /\ Full(n) % 100 = 0 /\ Full(n) + Rest(n) = n
           /\ Hundreds(n) \in Seq(Vocabulary)
<1>1. ThreeDigits(n, joined) = (Hundreds(n) \o And(joined /\ Rest(n) # 0)) \o TwoDigits(Rest(n))
  BY DEF ThreeDigits, Hundreds, Rest
<1> DEFINE q == n \div 100
           m == n % 100
<1>2. q \in 1..9 /\ m \in 0..99 /\ n = 100 * q + m
  OBVIOUS
<1> HIDE DEF q, m
<1>3. 100 * q \in Nat /\ (100 * q) % 100 = 0 /\ 100 * q + m = n
  BY <1>2
<1>4. <<Ones[q], "hundred">> \in Seq(Vocabulary)
  BY <1>2, HundredType
<1> QED BY <1>1, <1>2, <1>3, <1>4 DEF Hundreds, Rest, Full, q, m

LEMMA ThreeDigitsType ==
    ASSUME NEW n \in Nat, n <= 999, NEW joined \in BOOLEAN
    PROVE  ThreeDigits(n, joined) \in Seq(Vocabulary)
<1>1. CASE n < 100
  <2>1. n \in 0..99
    BY <1>1
  <2>2. ThreeDigits(n, joined) = TwoDigits(n)
    BY <1>1 DEF ThreeDigits
  <2> QED BY <2>1, <2>2, TwoDigitsType
<1>2. CASE n >= 100
  <2> DEFINE b == joined /\ Rest(n) # 0
             h == Hundreds(n)
             w == TwoDigits(Rest(n))
  <2>1. n \in 100..999 /\ b \in BOOLEAN
    BY <1>2
  <2>2. ThreeDigits(n, joined) = (h \o And(b)) \o w /\ h \in Seq(Vocabulary)
    BY <2>1, ThreeDigitsIs, ZenonT(60)
  <2>3. Rest(n) \in 0..99
    BY <2>1, ThreeDigitsIs, ZenonT(60)
  <2>4. w \in Seq(Vocabulary)
    BY <2>3, TwoDigitsType
  <2> HIDE DEF b, h, w
  <2>5. And(b) \in Seq(Vocabulary)
    BY <2>1, AndType
  <2>6. h \o And(b) \in Seq(Vocabulary)
    BY <2>2, <2>5, ConcatProperties
  <2>7. (h \o And(b)) \o w \in Seq(Vocabulary)
    BY <2>4, <2>6, ConcatProperties
  <2> QED BY <2>2, <2>7
<1> QED BY <1>1, <1>2

LEMMA Hundred == \A n \in Nat : n <= 999 => n \in 0..99 \/ n \in 100..999
OBVIOUS

LEMMA ThreeDigitsRead ==
    ASSUME NEW S, NEW tokens \in Seq(S), NEW i \in Nat, NEW r, Rounds(tokens, i, r),
           NEW k \in Nat, k >= i, i >= 1, NEW t \in Nat, NEW n \in Nat, n <= 999, NEW joined \in BOOLEAN,
           Holds(tokens, k, ThreeDigits(n, joined)), r[k - 1] = Reader(t, 0, k)
    PROVE  Took(r, k, ThreeDigits(n, joined), t, n)
<1>1. CASE n \in 0..99
  <2>2. ThreeDigits(n, joined) = TwoDigits(n)
    BY <1>1 DEF ThreeDigits
  <2>3. 0 \in Nat /\ 0 % 100 = 0 /\ 0 + n = n
    OBVIOUS
  <2>4. Holds(tokens, k, TwoDigits(n))
    BY <2>2
  <2>5. Took(r, k, TwoDigits(n), t, 0 + n)
    BY <1>1, <2>3, <2>4, TwoDigitsRead, ZenonT(60)
  <2> QED BY <2>2, <2>3, <2>5
<1>2. CASE n \in 100..999
  <2> DEFINE b == joined /\ Rest(n) # 0
             h == Hundreds(n)
             m == Rest(n)
             w == TwoDigits(m)
             c == Full(n)
             q == n \div 100
  <2>1. n \in 100..999 /\ b \in BOOLEAN
    BY <1>2
  <2>2. /\ ThreeDigits(n, joined) = (h \o And(b)) \o w /\ h \in Seq(Vocabulary)
        /\ q \in 1..9 /\ m \in 0..99 /\ c \in Nat /\ c % 100 = 0 /\ c + m = n
    BY <2>1, ThreeDigitsIs, ZenonT(60)
  <2>3. h = <<Ones[q], "hundred">> /\ c = 100 * q /\ w = TwoDigits(m)
    BY DEF Hundreds, Full
  <2> HIDE DEF b, h, m, w, c, q
  <2>4. And(b) \in Seq(Vocabulary) /\ w \in Seq(Vocabulary)
    BY <2>1, <2>2, <2>3, AndType, TwoDigitsType, ZenonT(60)
  <2>5. Holds(tokens, k, h) => Took(r, k, h, t, c)
    <3>1. 100 * q = q * 100
      BY <2>2
    <3>2. Holds(tokens, k, <<Ones[q], "hundred">>)
             => Took(r, k, <<Ones[q], "hundred">>, t, q * 100)
      BY <2>2, HundredTook
    <3> QED BY <2>3, <3>1, <3>2
  <2>6. \A e \in Nat : e >= i /\ Holds(tokens, e, w) /\ r[e - 1] = Reader(t, c, e)
                       => Took(r, e, w, t, n)
    <3> SUFFICES ASSUME NEW e \in Nat, e >= i, Holds(tokens, e, w), r[e - 1] = Reader(t, c, e)
                 PROVE  Took(r, e, w, t, n)
      OBVIOUS
    <3>1. Holds(tokens, e, TwoDigits(m))
      BY <2>3
    <3>2. Took(r, e, TwoDigits(m), t, c + m)
      BY <2>2, <3>1, TwoDigitsRead, ZenonT(60)
    <3> QED BY <2>2, <2>3, <3>2
  <2>7. Holds(tokens, k, (h \o And(b)) \o w)
    BY <2>2
  <2>8. Took(r, k, (h \o And(b)) \o w, t, n)
    BY <2>1, <2>2, <2>4, <2>5, <2>6, <2>7, TookThree, ZenonT(60)
  <2> QED BY <2>2, <2>8
<1> QED BY <1>1, <1>2, Hundred

(* A number in words: its parts. *)
Thousands(n) == n \div 1000
Below(n) == n % 1000

LEMMA WordsIs ==
    ASSUME NEW n \in Nat, n >= 1000, n <= Largest, NEW joined \in BOOLEAN
    PROVE  /\ WordsOf(n, joined) = ((ThreeDigits(Thousands(n), joined) \o <<"thousand">>)
                                    \o And(joined /\ Below(n) \in 1..99)) \o ThreeDigits(Below(n), joined)
           /\ Thousands(n) \in Nat /\ Thousands(n) >= 1 /\ Thousands(n) <= 999
           /\ Below(n) \in Nat /\ Below(n) <= 999 /\ 1000 * Thousands(n) + Below(n) = n
<1>1. WordsOf(n, joined) = ((ThreeDigits(Thousands(n), joined) \o <<"thousand">>)
                            \o And(joined /\ Below(n) \in 1..99)) \o ThreeDigits(Below(n), joined)
  <2>1. n # 0 /\ ~(n < 1000)
    OBVIOUS
  <2> QED BY <2>1 DEF WordsOf, Thousands, Below
<1>2. /\ Thousands(n) \in Nat /\ Thousands(n) >= 1 /\ Thousands(n) <= 999
      /\ Below(n) \in Nat /\ Below(n) <= 999 /\ 1000 * Thousands(n) + Below(n) = n
  <2>1. n <= 999999
    BY SMT DEF Largest
  <2> DEFINE q == n \div 1000
             m == n % 1000
  <2>2. q \in Nat /\ q >= 1 /\ q <= 999
    BY <2>1, SMT
  <2>3. m \in Nat /\ m <= 999
    BY SMT
  <2>4. 1000 * q + m = n
    BY SMT
  <2> HIDE DEF q, m
  <2>5. Thousands(n) = q /\ Below(n) = m
    BY DEF Thousands, Below, q, m
  <2> QED BY <2>2, <2>3, <2>4, <2>5
<1> QED BY <1>1, <1>2

LEMMA ThousandType == <<"thousand">> \in Seq(Vocabulary) /\ Len(<<"thousand">>) = 1
<1>1. "thousand" \in Vocabulary
  BY InVocabulary
<1> QED BY <1>1

LEMMA ThousandsTook ==
    ASSUME NEW S, NEW tokens \in Seq(S), NEW i \in Nat, NEW r, Rounds(tokens, i, r),
           NEW k \in Nat, k >= i, i >= 1, NEW n \in Nat, n >= 1, n <= 999, NEW joined \in BOOLEAN,
           Holds(tokens, k, ThreeDigits(n, joined) \o <<"thousand">>), r[k - 1] = Reader(0, 0, k)
    PROVE  Took(r, k, ThreeDigits(n, joined) \o <<"thousand">>, n * 1000, 0)
<1> DEFINE h == ThreeDigits(n, joined)
<1>1. h \in Seq(Vocabulary)
  BY ThreeDigitsType
<1>2. Holds(tokens, k, h) => Took(r, k, h, 0, n)
  <2> SUFFICES ASSUME Holds(tokens, k, ThreeDigits(n, joined)) PROVE Took(r, k, ThreeDigits(n, joined), 0, n)
    OBVIOUS
  <2> HIDE DEF h
  <2>1. 0 \in Nat
    OBVIOUS
  <2> QED BY <2>1, ThreeDigitsRead
<1>3. Holds(tokens, k, h \o <<"thousand">>)
  OBVIOUS
<1> HIDE DEF h
<1>4. Holds(tokens, k, h) /\ Holds(tokens, k + Len(h), <<"thousand">>)
  BY <1>1, <1>3, ThousandType, HoldsParts
<1>5. k + Len(h) \in Nat /\ k + Len(h) >= i
  <2>1. Len(h) \in Nat
    BY <1>1
  <2> QED BY <2>1
<1>6. r[k + Len(h) - 1] = Reader(0, n, k + Len(h))
  BY <1>2, <1>4 DEF Took
<1> DEFINE l == k + Len(h)
<1>7. l \in Nat /\ l >= i /\ r[l - 1] = Reader(0, n, l) /\ Holds(tokens, l, <<"thousand">>)
  BY <1>4, <1>5, <1>6
<1> HIDE DEF l
<1>8. l \in 1..Len(tokens) /\ tokens[l].word = "thousand"
  BY <1>7, HoldsOne
<1>9. r[l] = ReadWord(Reader(0, n, l), "thousand")
  BY <1>7, <1>8 DEF Rounds
<1>10. ReadWord(Reader(0, n, l), "thousand") = Reader(0 + n * 1000, 0, l + 1)
  <2>1. n \in Nat /\ n # 0 /\ 0 \in Nat
    OBVIOUS
  <2> QED BY <1>7, <2>1, ReadOthers
<1>11. 0 + n * 1000 = n * 1000 /\ l + Len(<<"thousand">>) = l + 1 /\ l + Len(<<"thousand">>) - 1 = l
  BY <1>7, ThousandType
<1>12. Took(r, l, <<"thousand">>, n * 1000, 0)
  BY <1>9, <1>10, <1>11 DEF Took
<1>13. Took(r, k + Len(h), <<"thousand">>, n * 1000, 0)
  BY <1>12 DEF l
<1>14. Took(r, k, h \o <<"thousand">>, n * 1000, 0)
  BY <1>1, <1>13, ThousandType, TookBoth, ZenonT(60)
<1> QED BY <1>14 DEF h

(* The first word is not one that parseNumberWords looks out for. *)
Starts(words) == Len(words) >= 1 /\ words[1] # "zero" /\ words[1] # "and"

LEMMA BothStart ==
    ASSUME NEW a \in Seq(Vocabulary), NEW b \in Seq(Vocabulary), Starts(a)
    PROVE  Starts(a \o b)
<1>1. Len(a) \in Nat /\ Len(b) \in Nat /\ Len(a) >= 1
  BY DEF Starts
<1>2. Len(a \o b) = Len(a) + Len(b) /\ (a \o b)[1] = a[1]
  BY <1>1, ConcatProperties
<1> QED BY <1>1, <1>2 DEF Starts

LEMMA OneStarts == ASSUME NEW w, w # "zero", w # "and" PROVE Starts(<<w>>)
BY DEF Starts

LEMMA TwoDigitsStart == \A n \in 1..99 : Starts(TwoDigits(n))
<1> SUFFICES ASSUME NEW n \in 1..99 PROVE Starts(TwoDigits(n))
  OBVIOUS
<1>1. CASE n \in 1..19 /\ TwoDigits(n) = <<Ones[n]>>
  BY <1>1, OnesRead, OneStarts
<1>2. ASSUME NEW q \in 2..9 PROVE Starts(<<Tens[q]>>)
  BY TensRead, OneStarts
<1>3. ASSUME NEW q \in 2..9, NEW m \in 1..9 PROVE Starts(<<Tens[q]>> \o <<Ones[m]>>)
  <2>1. m \in 1..19
    OBVIOUS
  <2>2. <<Tens[q]>> \in Seq(Vocabulary) /\ <<Ones[m]>> \in Seq(Vocabulary)
    BY <2>1, InVocabulary, TwoWords
  <2> QED BY <1>2, <2>2, BothStart
<1>4. n \in 0..99 /\ n # 0
  OBVIOUS
<1>5. \/ n \in 1..19 /\ TwoDigits(n) = <<Ones[n]>>
      \/ \E q \in 2..9 : n = 10 * q /\ TwoDigits(n) = <<Tens[q]>>
      \/ \E q \in 2..9, m \in 1..9 : n = 10 * q + m /\ TwoDigits(n) = <<Tens[q]>> \o <<Ones[m]>>
  BY <1>4, TwoDigitsIs
<1> QED BY <1>1, <1>2, <1>3, <1>5

LEMMA ThreeDigitsStart ==
    ASSUME NEW n \in Nat, n >= 1, n <= 999, NEW joined \in BOOLEAN
    PROVE  Starts(ThreeDigits(n, joined))
<1>1. CASE n \in 1..99
  <2>1. ThreeDigits(n, joined) = TwoDigits(n)
    BY <1>1 DEF ThreeDigits
  <2> QED BY <1>1, <2>1, TwoDigitsStart
<1>2. CASE n \in 100..999
  <2> DEFINE b == joined /\ Rest(n) # 0
             h == Hundreds(n)
             w == TwoDigits(Rest(n))
             q == n \div 100
  <2>1. b \in BOOLEAN
    OBVIOUS
  <2>2. ThreeDigits(n, joined) = (h \o And(b)) \o w /\ h \in Seq(Vocabulary) /\ q \in 1..9
    BY <1>2, ThreeDigitsIs, ZenonT(60)
  <2>3. Rest(n) \in 0..99
    BY <1>2, ThreeDigitsIs, ZenonT(60)
  <2>4. w \in Seq(Vocabulary)
    BY <2>3, TwoDigitsType
  <2>5. h = <<Ones[q], "hundred">>
    BY DEF Hundreds
  <2> HIDE DEF b, h, w, q
  <2>6. Starts(h)
    <3>1. q \in 1..19
      BY <2>2
    <3>2. Ones[q] # "zero" /\ Ones[q] # "and"
      BY <3>1, OnesRead
    <3> QED BY <2>5, <3>2 DEF Starts
  <2>7. And(b) \in Seq(Vocabulary)
    BY <2>1, AndType
  <2>8. Starts(h \o And(b)) /\ h \o And(b) \in Seq(Vocabulary)
    BY <2>2, <2>6, <2>7, BothStart, ConcatProperties
  <2>9. Starts((h \o And(b)) \o w)
    BY <2>4, <2>8, BothStart
  <2> QED BY <2>2, <2>9
<1>3. n \in 1..99 \/ n \in 100..999
  OBVIOUS
<1> QED BY <1>1, <1>2, <1>3

LEMMA WordsStart ==
    ASSUME NEW n \in Nat, n >= 1, n <= Largest, NEW joined \in BOOLEAN
    PROVE  Starts(WordsOf(n, joined)) /\ WordsOf(n, joined) \in Seq(Vocabulary)
<1>1. CASE n < 1000
  <2>1. WordsOf(n, joined) = ThreeDigits(n, joined)
    BY <1>1 DEF WordsOf
  <2>2. n <= 999
    BY <1>1
  <2> QED BY <2>1, <2>2, ThreeDigitsStart, ThreeDigitsType
<1>2. CASE n >= 1000
  <2> DEFINE q == Thousands(n)
             m == Below(n)
             b == joined /\ m \in 1..99
             d == ThreeDigits(q, joined)
             h == d \o <<"thousand">>
             w == ThreeDigits(m, joined)
  <2>1. /\ WordsOf(n, joined) = (h \o And(b)) \o w
        /\ q \in Nat /\ q >= 1 /\ q <= 999 /\ m \in Nat /\ m <= 999
    BY <1>2, WordsIs
  <2>2. b \in BOOLEAN
    OBVIOUS
  <2>3. d \in Seq(Vocabulary) /\ w \in Seq(Vocabulary) /\ Starts(d)
    BY <2>1, ThreeDigitsType, ThreeDigitsStart
  <2>4. h \in Seq(Vocabulary) /\ Starts(h)
    BY <2>3, ThousandType, BothStart, ConcatProperties
  <2> HIDE DEF q, m, b, d, h, w
  <2>5. And(b) \in Seq(Vocabulary)
    BY <2>2, AndType
  <2>6. Starts(h \o And(b)) /\ h \o And(b) \in Seq(Vocabulary)
    BY <2>4, <2>5, BothStart, ConcatProperties
  <2>7. Starts((h \o And(b)) \o w) /\ (h \o And(b)) \o w \in Seq(Vocabulary)
    BY <2>3, <2>6, BothStart, ConcatProperties
  <2> QED BY <2>1, <2>7
<1> QED BY <1>1, <1>2

(* The reader takes all the words of a number, and has the number then.     *)
LEMMA WordsRead ==
    ASSUME NEW S, NEW tokens \in Seq(S), NEW i \in Nat, i >= 1, NEW r, Rounds(tokens, i, r),
           NEW n \in Nat, n >= 1, n <= Largest, NEW joined \in BOOLEAN,
           Holds(tokens, i, WordsOf(n, joined))
    PROVE  \E t, c \in Nat : t + c = n /\ Took(r, i, WordsOf(n, joined), t, c)
<1>1. r[i - 1] = Reader(0, 0, i)
  BY DEF Rounds
<1>2. 0 \in Nat /\ i >= i
  OBVIOUS
<1>3. CASE n < 1000
  <2>1. WordsOf(n, joined) = ThreeDigits(n, joined)
    BY <1>3 DEF WordsOf
  <2>2. n <= 999
    BY <1>3
  <2>3. Holds(tokens, i, ThreeDigits(n, joined))
    BY <2>1
  <2>4. Took(r, i, ThreeDigits(n, joined), 0, n)
    BY <1>1, <1>2, <2>2, <2>3, ThreeDigitsRead
  <2>5. 0 + n = n
    OBVIOUS
  <2> QED BY <1>2, <2>1, <2>4, <2>5
<1>4. CASE n >= 1000
  <2> DEFINE q == Thousands(n)
             m == Below(n)
             b == joined /\ m \in 1..99
             d == ThreeDigits(q, joined)
             h == d \o <<"thousand">>
             w == ThreeDigits(m, joined)
             t == q * 1000
  <2>1. /\ WordsOf(n, joined) = (h \o And(b)) \o w
        /\ q \in Nat /\ q >= 1 /\ q <= 999 /\ m \in Nat /\ m <= 999 /\ 1000 * q + m = n
    BY <1>4, WordsIs, SMTT(30)
  <2>2. b \in BOOLEAN
    OBVIOUS
  <2>3. d \in Seq(Vocabulary) /\ w \in Seq(Vocabulary)
    BY <2>1, ThreeDigitsType
  <2>4. h \in Seq(Vocabulary)
    BY <2>3, ThousandType, ConcatProperties
  <2> HIDE DEF q
  <2>5. Holds(tokens, i, h) => Took(r, i, h, t, 0)
    <3> SUFFICES ASSUME Holds(tokens, i, ThreeDigits(q, joined) \o <<"thousand">>)
                 PROVE  Took(r, i, ThreeDigits(q, joined) \o <<"thousand">>, q * 1000, 0)
      OBVIOUS
    <3> HIDE DEF m, b, d, h, w, t
    <3> QED BY <1>1, <1>2, <2>1, ThousandsTook
  <2> HIDE DEF m
  <2>6. t \in Nat /\ t + m = n
    BY <2>1
  <2> HIDE DEF t
  <2>7. ASSUME NEW e \in Nat, e >= i, Holds(tokens, e, w), r[e - 1] = Reader(t, 0, e)
        PROVE  Took(r, e, w, t, m)
    BY <2>1, <2>6, <2>7, ThreeDigitsRead
  <2> HIDE DEF b, d, h, w
  <2>8. And(b) \in Seq(Vocabulary)
    BY <2>2, AndType
  <2>9. Holds(tokens, i, (h \o And(b)) \o w)
    BY <2>1
  <2>10. Took(r, i, (h \o And(b)) \o w, t, m)
    BY <1>2, <2>2, <2>3, <2>4, <2>5, <2>6, <2>7, <2>8, <2>9, TookThree
  <2> QED BY <2>1, <2>6, <2>10
<1> QED BY <1>3, <1>4

(* A number that ended stays as it was to the last token. *)
LEMMA ReadingEnds ==
    ASSUME NEW S, NEW tokens \in Seq(S), NEW i \in Nat, i >= 1, NEW r, Rounds(tokens, i, r),
           NEW t, NEW c, NEW m \in Nat, m >= i, m <= Len(tokens) + 1, r[m - 1] = Reader(t, c, m),
           m <= Len(tokens) => ~NumberWord(tokens[m].word)
    PROVE  LET end == r[Len(tokens)] IN end.total = t /\ end.current = c /\ end.next = m
<1> DEFINE z == [Reader(t, c, m) EXCEPT !.open = FALSE]
<1>1. z.total = t /\ z.current = c /\ z.next = m /\ z.open = FALSE
  BY DEF Reader
<1>2. Len(tokens) \in Nat
  OBVIOUS
<1>3. CASE m = Len(tokens) + 1
  <2>1. r[Len(tokens)] = Reader(t, c, m)
    BY <1>2, <1>3
  <2> QED BY <2>1 DEF Reader
<1>4. CASE m <= Len(tokens)
  <2>1. r[m] = ReadWord(Reader(t, c, m), tokens[m].word)
    BY <1>2, <1>4 DEF Rounds
  <2>2. r[m] = z
    <3>1. ~NumberWord(tokens[m].word)
      BY <1>4
    <3> DEFINE u == tokens[m].word
    <3>2. ~NumberWord(u) /\ r[m] = ReadWord(Reader(t, c, m), u)
      BY <2>1, <3>1
    <3> HIDE DEF u
    <3>3. ReadWord(Reader(t, c, m), u) = [Reader(t, c, m) EXCEPT !.open = FALSE]
      BY <3>2, ReadEnd
    <3> QED BY <3>2, <3>3
  <2> HIDE DEF z
  <2>3. \A w : ReadWord(z, w) = z
    BY <1>1 DEF ReadWord
  <2> DEFINE G == {d \in Nat : m + d <= Len(tokens) => r[m + d] = z}
  <2>4. 0 \in G
    BY <2>2
  <2>5. ASSUME NEW d \in G PROVE d + 1 \in G
    <3> SUFFICES ASSUME m + (d + 1) <= Len(tokens) PROVE r[m + (d + 1)] = z
      OBVIOUS
    <3> DEFINE k == m + (d + 1)
    <3>1. k \in i..Len(tokens) /\ k - 1 = m + d /\ m + d <= Len(tokens)
      BY <1>2
    <3>2. r[k] = ReadWord(r[k - 1], tokens[k].word)
      BY <3>1 DEF Rounds
    <3>3. r[k - 1] = z
      BY <3>1
    <3> QED BY <2>3, <3>2, <3>3
  <2> HIDE DEF G
  <2>6. G = Nat
    BY <2>4, <2>5, NatSetInduction DEF G
  <2>7. Len(tokens) - m \in G
    BY <1>2, <1>4, <2>6
  <2>8. r[Len(tokens)] = z
    <3>1. m + (Len(tokens) - m) = Len(tokens)
      BY <1>2
    <3> QED BY <1>2, <2>7, <3>1 DEF G
  <2> QED BY <1>1, <2>8
<1> QED BY <1>2, <1>3, <1>4

(***************************************************************************)
(* Whatever stands before it and whatever follows it, if only no word of a *)
(* number follows: a number in words is read to its last word.             *)
(***************************************************************************)
LEMMA NumberRead ==
    ASSUME NEW S, NEW tokens \in Seq(S), NEW i \in Nat, i >= 1,
           NEW n \in Nat, n <= Largest, NEW joined \in BOOLEAN,
           Holds(tokens, i, WordsOf(n, joined)),
           LET e == i + Len(WordsOf(n, joined))
           IN  e <= Len(tokens) => ~NumberWord(tokens[e].word)
    PROVE  ParseNumberWords(tokens, i) = [value |-> n, next |-> i + Len(WordsOf(n, joined))]
<1> DEFINE words == WordsOf(n, joined)
           e == i + Len(words)
<1>1. CASE n = 0
  <2>1. words = <<"zero">> /\ Len(words) = 1
    BY <1>1 DEF WordsOf
  <2>2. i \in 1..Len(tokens) /\ tokens[i].word = "zero"
    BY <2>1, HoldsOne
  <2>3. DOMAIN tokens = 1..Len(tokens)
    OBVIOUS
  <2>4. ParseNumberWords(tokens, i) = [value |-> 0, next |-> i + 1]
    BY <2>2, <2>3 DEF ParseNumberWords
  <2> QED BY <1>1, <2>1, <2>4
<1>2. CASE n # 0
  <2> DEFINE r == ReadingOf(tokens, i)
             w == tokens[i].word
  <2>1. Holds(tokens, i, words) /\ Len(tokens) \in Nat /\ n >= 1
    BY <1>2
  <2>2. Starts(words) /\ words \in Seq(Vocabulary)
    BY <2>1, WordsStart
  <2>3. \A t, c : Took(r, i, words, t, c) => r[e - 1] = Reader(t, c, e)
    BY DEF Took
  <2> HIDE DEF words
  <2>4. Len(words) \in Nat /\ Len(words) >= 1
    BY <2>2 DEF Starts
  <2>5. i \in 1..Len(tokens) /\ w = words[1]
    <3>1. 1 \in 1..Len(words) /\ i + 1 - 1 = i
      BY <2>4
    <3> QED BY <2>1, <3>1 DEF Holds
  <2>6. w # "zero" /\ w # "and"
    BY <2>2, <2>5 DEF Starts
  <2>7. e - 1 \in 1..Len(tokens) /\ e \in Nat /\ e >= i
    <3>1. Len(words) \in 1..Len(words) /\ i + Len(words) - 1 = e - 1
      BY <2>4
    <3>2. e - 1 \in 1..Len(tokens)
      BY <2>1, <3>1 DEF Holds
    <3> QED BY <2>4, <3>2
  <2>8. Rounds(tokens, i, r)
    <3>1. i \in 1..(Len(tokens) + 1)
      BY <2>1, <2>5
    <3> QED BY <3>1, ReadingRounds
  <2>9. ParseNumberWords(tokens, i) = [value |-> r[Len(tokens)].total + r[Len(tokens)].current,
                                       next |-> r[Len(tokens)].next]
    <3>1. DOMAIN tokens = 1..Len(tokens)
      OBVIOUS
    <3>2. ParseNumberWords(tokens, i) = SumWords(tokens, i)
      BY <2>5, <2>6, <3>1 DEF ParseNumberWords
    <3> QED BY <3>2, SumWordsIs
  <2>10. e <= Len(tokens) => ~NumberWord(tokens[e].word)
    BY DEF words
  <2> HIDE DEF r, w, e
  <2>11. PICK t, c \in Nat : t + c = n /\ Took(r, i, words, t, c)
    BY <2>1, <2>8, WordsRead DEF words
  <2>12. r[e - 1] = Reader(t, c, e)
    BY <2>3, <2>11
  <2>13. e <= Len(tokens) + 1
    BY <2>1, <2>7
  <2>14. /\ r[Len(tokens)].total = t /\ r[Len(tokens)].current = c
         /\ r[Len(tokens)].next = e
    BY <2>7, <2>8, <2>10, <2>12, <2>13, ReadingEnds
  <2>15. ParseNumberWords(tokens, i) = [value |-> n, next |-> e]
    BY <2>9, <2>11, <2>14
  <2> QED BY <2>15 DEF e, words
<1> QED BY <1>1, <1>2

-----------------------------------------------------------------------------
AmountInv == amount \in Nat /\ amount <= MaxAmount

THEOREM AmountStays == PhotosSpec => []AmountInv
<1>1. PhotosInit => AmountInv
  BY PhotosAssumption DEF PhotosInit, AmountInv
<1>2. AmountInv /\ [PhotosNext]_photoVars => AmountInv'
  BY DEF AmountInv, PhotosNext, ExtractEc8a, photoVars
<1> QED BY <1>1, <1>2, PTL DEF PhotosSpec

THEOREM NumbersAlwaysReadBack == PhotosSpec => []NumbersReadBack
<1>1. AmountInv => NumbersReadBack
  <2> SUFFICES ASSUME AmountInv, NEW joined \in BOOLEAN
               PROVE  LET words == WordsOf(amount, joined)
                          tokens == [k \in DOMAIN words |-> Word(words[k])] \o <<Digits(7), Word("one")>>
                      IN  ParseNumberWords(tokens, 1) = [value |-> amount, next |-> Len(words) + 1]
    BY DEF NumbersReadBack
  <2> DEFINE words == WordsOf(amount, joined)
             said == [k \in DOMAIN words |-> Word(words[k])]
             rest == <<Digits(7), Word("one")>>
             tokens == said \o rest
             Token == {Word(w) : w \in Vocabulary} \union {Digits(7)}
  <2>1. amount \in Nat /\ amount <= Largest
    BY PhotosAssumption DEF AmountInv, Largest
  <2>2. words \in Seq(Vocabulary)
    <3>1. CASE amount = 0
      <4>1. words = <<"zero">> /\ "zero" \in Vocabulary
        BY <3>1, InVocabulary DEF WordsOf
      <4> QED BY <4>1
    <3>2. CASE amount # 0
      <4>1. amount >= 1
        BY <2>1, <3>2
      <4> QED BY <2>1, <4>1, WordsStart
    <3> QED BY <3>1, <3>2
  <2> HIDE DEF words
  <2>3. said \in Seq(Token) /\ Len(said) = Len(words)
    BY <2>2
  <2>4. rest \in Seq(Token) /\ Len(rest) = 2 /\ rest[1] = Digits(7)
    <3>1. "one" \in Vocabulary
      <4>1. Ones[1] = "one" /\ 1 \in 1..19
        BY DEF Ones
      <4> QED BY <4>1, InVocabulary
    <3> QED BY <3>1
  <2>5. \A k \in 1..Len(words) : said[k].word = words[k]
    BY <2>2 DEF Word
  <2> HIDE DEF said, rest, Token
  <2>6. /\ tokens \in Seq(Token) /\ Len(tokens) = Len(said) + Len(rest)
        /\ \A k \in 1..Len(said) : tokens[k] = said[k]
        /\ \A k \in 1..Len(rest) : tokens[Len(said) + k] = rest[k]
    <3>1. tokens = said \o rest
      OBVIOUS
    <3>2. said \in Seq(Token) /\ rest \in Seq(Token)
      BY <2>3, <2>4
    <3> HIDE DEF tokens
    <3> QED BY <3>1, <3>2, Concat
  <2> HIDE DEF tokens
  <2>7. Len(words) \in Nat
    BY <2>2
  <2>8. Holds(tokens, 1, words)
    <3> SUFFICES ASSUME NEW j \in 1..Len(words)
                 PROVE  1 + j - 1 \in 1..Len(tokens) /\ tokens[1 + j - 1].word = words[j]
      BY DEF Holds
    <3>1. 1 + j - 1 = j /\ j \in 1..Len(tokens)
      BY <2>3, <2>4, <2>6, <2>7
    <3>2. tokens[j] = said[j]
      BY <2>3, <2>6
    <3> QED BY <2>5, <3>1, <3>2
  <2>9. tokens[1 + Len(words)].word = "digits"
    <3>1. tokens[Len(said) + 1] = rest[1]
      BY <2>4, <2>6
    <3>2. Len(said) + 1 = 1 + Len(words)
      BY <2>3, <2>7
    <3> QED BY <2>4, <3>1, <3>2 DEF Digits
  <2>10. ~NumberWord(tokens[1 + Len(words)].word)
    BY <2>9, OtherWords
  <2>11. ParseNumberWords(tokens, 1) = [value |-> amount, next |-> 1 + Len(words)]
    <3>1. 1 \in Nat /\ 1 >= 1
      OBVIOUS
    <3> QED BY <2>1, <2>6, <2>8, <2>10, <3>1, NumberRead DEF words
  <2>12. 1 + Len(words) = Len(words) + 1
    BY <2>7
  <2> QED BY <2>11, <2>12 DEF tokens, said, rest, words
<1>2. PhotosSpec => []AmountInv
  BY AmountStays
<1> QED BY <1>1, <1>2, PTL

-----------------------------------------------------------------------------
(* Up to n one number at a time, and down from n.                          *)
LEMMA Climb ==
    ASSUME NEW n \in Nat, NEW G \in SUBSET (0..n), 0 \in G,
           \A k \in G : k < n => k + 1 \in G
    PROVE  G = 0..n
<1> DEFINE N == {k \in Nat : k <= n => k \in G}
<1>1. 0 \in N
  OBVIOUS
<1>2. ASSUME NEW k \in N PROVE k + 1 \in N
  BY <1>2
<1> HIDE DEF N
<1>3. N \in SUBSET Nat
  BY DEF N
<1>4. N = Nat
  BY <1>1, <1>2, <1>3, NatSetInduction
<1>5. ASSUME NEW k \in 0..n PROVE k \in G
  <2>1. k \in N /\ k <= n
    BY <1>4
  <2> QED BY <2>1 DEF N
<1> QED BY <1>5

LEMMA Descend ==
    ASSUME NEW n \in Nat, NEW G \in SUBSET (0..n), n \in G,
           \A k \in G : k > 0 => k - 1 \in G
    PROVE  G = 0..n
<1> DEFINE H == {k \in 0..n : n - k \in G}
<1>1. 0 \in H
  OBVIOUS
<1>2. ASSUME NEW k \in H, k < n PROVE k + 1 \in H
  <2>1. n - k \in G /\ n - k > 0
    BY <1>2
  <2>2. n - k - 1 \in G
    BY <2>1
  <2>3. n - k - 1 = n - (k + 1)
    BY <1>2
  <2> QED BY <1>2, <2>2, <2>3
<1> HIDE DEF H
<1>3. H \in SUBSET (0..n)
  BY DEF H
<1>4. H = 0..n
  BY <1>1, <1>2, <1>3, Climb
<1>5. ASSUME NEW k \in 0..n PROVE k \in G
  <2>1. n - k \in H
    BY <1>4
  <2>2. n - (n - k) = k
    OBVIOUS
  <2> QED BY <2>1, <2>2 DEF H
<1> QED BY <1>5

(* What is written one after the other. *)
Written(seqs, n, g) ==
    /\ g[0] = <<>> /\ \A k \in 1..n : g[k] = g[k - 1] \o seqs[k]
    /\ FlattenSeq(seqs) = g[n]

LEMMA FlattenIs ==
    ASSUME NEW X, NEW seqs \in Seq(Seq(X)), NEW n, n = Len(seqs)
    PROVE  \E g \in [0..n -> Seq(X)] : Written(seqs, n, g)
<1> DEFINE F == [p \in Nat \X Seq(X) |-> IF p[1] \in 1..n THEN p[2] \o seqs[p[1]] ELSE p[2]]
           Flat(h) == h = [i \in 1..n |-> IF i = 1 THEN seqs[i] ELSE h[i - 1] \o seqs[i]]
<1>1. n \in Nat /\ \A k \in 1..n : seqs[k] \in Seq(X)
  OBVIOUS
<1>2. <<>> \in Seq(X)
  OBVIOUS
<1>3. ASSUME NEW p \in Nat \X Seq(X) PROVE F[p] \in Seq(X)
  BY <1>1, <1>3
<1>4. F \in [Nat \X Seq(X) -> Seq(X)]
  BY <1>3
<1>5. ASSUME NEW k \in 1..n, NEW s \in Seq(X) PROVE F[<<k, s>>] = s \o seqs[k]
  <2>1. <<k, s>> \in Nat \X Seq(X)
    BY <1>1
  <2> QED BY <2>1
<1> HIDE DEF F
<1>6. \A m \in Nat : \E g \in [0..m -> Seq(X)] : Goes(<<>>, F, m, g)
  BY <1>2, <1>4, LoopRuns
<1>7. PICK g \in [0..n -> Seq(X)] : g[0] = <<>> /\ \A k \in 1..n : g[k] = F[<<k, g[k - 1]>>]
  BY <1>1, <1>6 DEF Goes
<1>8. \A k \in 1..n : g[k] = g[k - 1] \o seqs[k]
  <2> SUFFICES ASSUME NEW k \in 1..n PROVE g[k] = g[k - 1] \o seqs[k]
    OBVIOUS
  <2>1. k - 1 \in 0..n
    BY <1>1
  <2>2. g[k - 1] \in Seq(X)
    BY <2>1
  <2> QED BY <1>5, <1>7, <2>2
<1>9. CASE n = 0
  <2>1. Len(seqs) = 0
    BY <1>9
  <2>2. seqs = <<>>
    BY <2>1, EmptySeq
  <2>3. FlattenSeq(seqs) = seqs
    BY <2>1 DEF FlattenSeq
  <2>4. Written(seqs, n, g)
    BY <1>7, <1>8, <1>9, <2>2, <2>3 DEF Written
  <2> QED BY <2>4
<1>10. CASE n # 0
  <2> DEFINE h == [i \in 1..n |-> g[i]]
             r == CHOOSE r : Flat(r)
  <2>1. Flat(h)
    <3>1. ASSUME NEW i \in 1..n
          PROVE  g[i] = IF i = 1 THEN seqs[i] ELSE h[i - 1] \o seqs[i]
      <4>1. CASE i = 1
        <5>1. g[i] = g[i - 1] \o seqs[i]
          BY <1>8
        <5>3. i - 1 = 0
          BY <4>1
        <5>2. seqs[1] \in Seq(X)
          BY <1>1, <4>1
        <5>4. g[i] = <<>> \o seqs[i]
          BY <1>7, <5>1, <5>3
        <5>5. <<>> \o seqs[i] = seqs[i]
          BY <4>1, <5>2, ConcatEmptySeq
        <5> QED BY <4>1, <5>4, <5>5
      <4>2. CASE i # 1
        <5>1. i - 1 \in 1..n
          BY <1>1, <4>2
        <5> QED BY <1>8, <4>2, <5>1
      <4> QED BY <4>1, <4>2
    <3> QED BY <3>1
  <2> HIDE DEF h
  <2>2. Flat(r)
    BY <2>1
  <2>3. FlattenSeq(seqs) = r[n]
    BY <1>10 DEF FlattenSeq
  <2> HIDE DEF r
  <2> DEFINE G == {k \in 0..n : k # 0 => r[k] = g[k]}
  <2>4. ASSUME NEW k \in G, k < n PROVE k + 1 \in G
    <3>1. k + 1 \in 1..n /\ k + 1 - 1 = k
      BY <1>1, <2>4
    <3>2. r[k + 1] = IF k + 1 = 1 THEN seqs[k + 1] ELSE r[k] \o seqs[k + 1]
      <4>1. \A i \in 1..n : r[i] = IF i = 1 THEN seqs[i] ELSE r[i - 1] \o seqs[i]
        BY <2>2
      <4>2. r[k + 1] = IF k + 1 = 1 THEN seqs[k + 1] ELSE r[k + 1 - 1] \o seqs[k + 1]
        BY <3>1, <4>1
      <4> QED BY <3>1, <4>2
    <3>3. g[k + 1] = g[k] \o seqs[k + 1]
      <4>1. PICK i \in 1..n : i = k + 1
        BY <3>1
      <4>2. g[i] = g[i - 1] \o seqs[i]
        BY <1>8
      <4>3. i - 1 = k
        BY <3>1, <4>1
      <4> QED BY <4>1, <4>2, <4>3
    <3>4. CASE k = 0
      <4>1. seqs[1] \in Seq(X)
        BY <1>1, <3>1, <3>4
      <4>2. <<>> \o seqs[1] = seqs[1]
        BY <4>1, ConcatEmptySeq
      <4>3. k + 1 = 1 /\ g[k] = <<>>
        BY <1>7, <3>4
      <4>4. r[k + 1] = seqs[1] /\ g[k + 1] = <<>> \o seqs[1]
        BY <3>2, <3>3, <4>3
      <4>5. r[k + 1] = g[k + 1]
        BY <4>2, <4>4
      <4> QED BY <3>1, <4>5
    <3>5. CASE k # 0
      <4>1. k + 1 # 1 /\ r[k] = g[k]
        BY <1>1, <2>4, <3>5
      <4>2. r[k + 1] = g[k + 1]
        BY <3>2, <3>3, <4>1
      <4> QED BY <3>1, <4>2
    <3> QED BY <3>4, <3>5
  <2>5. 0 \in G
    BY <1>1
  <2> HIDE DEF G
  <2>6. G \in SUBSET (0..n)
    BY DEF G
  <2>7. G = 0..n
    BY <1>1, <2>4, <2>5, <2>6, Climb
  <2>8. n \in G
    BY <1>1, <2>7
  <2>9. r[n] = g[n]
    BY <1>10, <2>8 DEF G
  <2>10. Written(seqs, n, g)
    BY <1>7, <1>8, <2>3, <2>9 DEF Written
  <2> QED BY <2>10
<1> QED BY <1>9, <1>10

(* The pieces end at e[1], e[2], ... *)
EndAt(seqs, n, e) ==
    /\ n = Len(seqs) /\ e \in [0..n -> Nat] /\ e[0] = 0
    /\ \A k \in 1..n : e[k] = e[k - 1] + Len(seqs[k])

Pieces(c, seqs, n, e) ==
    /\ Len(c) = e[n]
    /\ \A k \in 1..n : \A j \in 1..Len(seqs[k]) : c[e[k - 1] + j] = seqs[k][j]

LEMMA FlattenHolds ==
    ASSUME NEW X, NEW seqs \in Seq(Seq(X)), NEW n, NEW e, EndAt(seqs, n, e)
    PROVE  FlattenSeq(seqs) \in Seq(X) /\ Pieces(FlattenSeq(seqs), seqs, n, e)
<1>0. /\ n = Len(seqs) /\ e \in [0..n -> Nat] /\ e[0] = 0
      /\ \A k \in 1..n : e[k] = e[k - 1] + Len(seqs[k])
  BY DEF EndAt
<1>1. PICK g \in [0..n -> Seq(X)] :
          /\ g[0] = <<>> /\ \A k \in 1..n : g[k] = g[k - 1] \o seqs[k]
          /\ FlattenSeq(seqs) = g[n]
  <2>1. \E g \in [0..n -> Seq(X)] : Written(seqs, n, g)
    BY <1>0, FlattenIs
  <2> QED BY <2>1 DEF Written
<1>2. n \in Nat /\ \A k \in 1..n : seqs[k] \in Seq(X)
  BY <1>0
<1> DEFINE Upto(m) == \A k \in 1..m : \A j \in 1..Len(seqs[k]) :
                         e[k - 1] + j \in 1..e[m] /\ g[m][e[k - 1] + j] = seqs[k][j]
           G == {m \in 0..n : Len(g[m]) = e[m] /\ Upto(m)}
<1>3. 0 \in G
  BY <1>0, <1>1, <1>2
<1>4. ASSUME NEW m \in G, m < n PROVE m + 1 \in G
  <2>1. PICK p \in 1..n : p = m + 1
    BY <1>2, <1>4
  <2>2. p - 1 = m /\ m \in 0..n
    BY <2>1
  <2>3. g[p] = g[p - 1] \o seqs[p]
    BY <1>1
  <2>4. e[p] = e[p - 1] + Len(seqs[p])
    BY <1>0
  <2>5. Len(g[m]) = e[m] /\ Upto(m)
    OBVIOUS
  <2>6. g[m] \in Seq(X) /\ seqs[p] \in Seq(X) /\ g[p] = g[m] \o seqs[p]
    BY <1>2, <2>2, <2>3
  <2>7. /\ Len(seqs[p]) \in Nat /\ Len(g[p]) = e[m] + Len(seqs[p])
        /\ \A k \in 1..e[m] : g[p][k] = g[m][k]
        /\ \A k \in 1..Len(seqs[p]) : g[p][e[m] + k] = seqs[p][k]
    <3>1. /\ Len(g[m]) \in Nat /\ Len(seqs[p]) \in Nat
          /\ Len(g[p]) = Len(g[m]) + Len(seqs[p])
          /\ \A k \in 1..Len(g[m]) : g[p][k] = g[m][k]
          /\ \A k \in 1..Len(seqs[p]) : g[p][Len(g[m]) + k] = seqs[p][k]
      BY ONLY <2>6, Concat
    <3> QED BY <2>5, <3>1
  <2>8. e[p] = e[m] + Len(seqs[p]) /\ e[m] \in Nat /\ e[p] \in Nat
    BY <1>0, <1>2, <2>2, <2>4
  <2>9. ASSUME NEW k \in 1..p, NEW j \in 1..Len(seqs[k])
        PROVE  e[k - 1] + j \in 1..e[p] /\ g[p][e[k - 1] + j] = seqs[k][j]
    <3>1. CASE k = p
      <4>1. e[k - 1] = e[m] /\ seqs[k] = seqs[p]
        BY <2>2, <3>1
      <4>2. j \in Nat /\ j >= 1
        BY <3>1, <2>7
      <4>3. e[m] + j \in 1..e[p]
        BY <2>7, <2>8, <3>1, <4>2
      <4>4. g[p][e[m] + j] = seqs[p][j]
        BY <2>7, <3>1
      <4> QED BY <4>1, <4>3, <4>4
    <3>2. CASE k # p
      <4>1. k \in 1..m
        BY <2>1, <3>2, <2>2
      <4>2. e[k - 1] + j \in 1..e[m] /\ g[m][e[k - 1] + j] = seqs[k][j]
        BY <2>5, <4>1
      <4> HIDE DEF Upto
      <4>3. g[p][e[k - 1] + j] = g[m][e[k - 1] + j]
        BY <2>7, <4>2
      <4>4. e[k - 1] + j \in 1..e[p]
        BY <2>7, <2>8, <4>2
      <4> QED BY <4>2, <4>3, <4>4
    <3> QED BY <3>1, <3>2
  <2>10. Upto(p) /\ Len(g[p]) = e[p]
    BY <2>7, <2>8, <2>9
  <2> QED BY <2>1, <2>10
<1> HIDE DEF G
<1>5. G \in SUBSET (0..n)
  BY DEF G
<1>6. n \in G
  <2>1. n \in Nat
    BY <1>2
  <2>2. G = 0..n
    BY ONLY <1>3, <1>4, <1>5, <2>1, Climb
  <2> QED BY <2>1, <2>2
<1>7. Len(g[n]) = e[n] /\ Upto(n)
  BY <1>6 DEF G
<1>8. g[n] \in Seq(X)
  BY <1>2
<1> QED BY <1>1, <1>7, <1>8 DEF Pieces

(* Every place up to the last end is in one of the pieces. *)
LEMMA InAPiece ==
    ASSUME NEW n \in Nat, NEW e \in [0..n -> Nat]
    PROVE  \A p \in Nat : e[0] < p /\ p <= e[n] => \E k \in 1..n : e[k - 1] < p /\ p <= e[k]
<1> SUFFICES ASSUME NEW p \in Nat, e[0] < p, p <= e[n]
             PROVE  \E k \in 1..n : e[k - 1] < p /\ p <= e[k]
  OBVIOUS
<1> DEFINE G == {k \in 0..n : e[k] < p}
<1>1. SUFFICES ASSUME \A k \in 1..n : ~(e[k - 1] < p /\ p <= e[k]) PROVE FALSE
  OBVIOUS
<1>2. ASSUME NEW k \in G, k < n PROVE k + 1 \in G
  <2>1. PICK i \in 1..n : i = k + 1 /\ i - 1 = k
    BY <1>2
  <2>2. ~(e[i - 1] < p /\ p <= e[i])
    BY <1>1
  <2>3. e[i] \in Nat /\ e[k] < p
    OBVIOUS
  <2>4. e[i] < p
    BY <2>1, <2>2, <2>3
  <2> QED BY <2>1, <2>4
<1>3. 0 \in G
  OBVIOUS
<1> HIDE DEF G
<1>4. G \in SUBSET (0..n)
  BY DEF G
<1>5. n \in G
  <2>1. G = 0..n
    BY <1>2, <1>3, <1>4, Climb
  <2> QED BY <2>1
<1>6. e[n] < p /\ e[n] \in Nat
  BY <1>5 DEF G
<1> QED BY <1>6

(* The pieces do not overlap and are in order. *)
LEMMA EndsGrow ==
    ASSUME NEW n \in Nat, NEW e \in [0..n -> Nat], \A k \in 1..n : e[k - 1] <= e[k]
    PROVE  \A j, k \in 0..n : j <= k => e[j] <= e[k]
<1> SUFFICES ASSUME NEW j \in 0..n PROVE \A k \in 0..n : j <= k => e[j] <= e[k]
  OBVIOUS
<1> DEFINE G == {k \in 0..n : j <= k => e[j] <= e[k]}
<1>1. 0 \in G
  OBVIOUS
<1>2. ASSUME NEW k \in G, k < n PROVE k + 1 \in G
  <2>1. PICK i \in 1..n : i = k + 1 /\ i - 1 = k
    BY <1>2
  <2>2. e[i - 1] <= e[i] /\ e[i] \in Nat /\ e[k] \in Nat /\ e[j] \in Nat
    OBVIOUS
  <2>3. j <= i => e[j] <= e[i]
    BY <2>1, <2>2
  <2> QED BY <2>1, <2>3
<1> HIDE DEF G
<1>3. G \in SUBSET (0..n)
  BY DEF G
<1>4. G = 0..n
  BY <1>1, <1>2, <1>3, Climb
<1> QED BY <1>4 DEF G

-----------------------------------------------------------------------------
(* Numbers in order, once they are given in order. *)
Increasing(q, n) == \A j, k \in 1..n : j < k => q[j] < q[k]

LEMMA OrderedSize ==
    ASSUME NEW n \in Nat, NEW q \in [1..n -> Nat], Increasing(q, n), NEW k \in 0..n
    PROVE  Cardinality({q[j] : j \in 1..k}) = k
<1> DEFINE T == {q[j] : j \in 1..k}
           f == [j \in 1..k |-> q[j]]
<1>1. \A j \in 1..k : j \in 1..n
  OBVIOUS
<1>2. f \in [1..k -> T]
  OBVIOUS
<1>3. \A i, j \in 1..k : f[i] = f[j] => i = j
  <2> SUFFICES ASSUME NEW i \in 1..k, NEW j \in 1..k, q[i] = q[j] PROVE i = j
    OBVIOUS
  <2>1. i \in Nat /\ j \in Nat /\ q[i] \in Nat
    BY <1>1
  <2>2. ~(i < j) /\ ~(j < i)
    BY <1>1, <2>1 DEF Increasing
  <2> QED BY <2>1, <2>2
<1>4. \A t \in T : \E j \in 1..k : f[j] = t
  OBVIOUS
<1> HIDE DEF f, T
<1>5. DOMAIN f = 1..k
  BY <1>2
<1>6. IsInjective(f)
  BY <1>3, <1>5 DEF IsInjective
<1>7. f \in Bijection(1..k, T)
  BY <1>2, <1>4, <1>6 DEF Bijection, Injection, Surjection
<1>8. IsFiniteSet(1..k) /\ Cardinality(1..k) = k
  BY UpTo
<1>9. Cardinality(T) = Cardinality(1..k)
  BY <1>7, <1>8, FS_Bijection DEF ExistsBijection
<1> QED BY <1>8, <1>9 DEF T

LEMMA InOrderIs ==
    ASSUME NEW n \in Nat, NEW q \in [1..n -> Nat], Increasing(q, n),
           NEW S, S = {q[k] : k \in 1..n}
    PROVE  InOrder(S) = q
<1>1. Cardinality(S) = n
  BY OrderedSize
<1>2. ASSUME NEW k \in 1..n PROVE Cardinality({j \in S : j <= q[k]}) = k
  <2>1. \A j \in 1..n : q[j] <= q[k] <=> j <= k
    <3> SUFFICES ASSUME NEW j \in 1..n PROVE q[j] <= q[k] <=> j <= k
      OBVIOUS
    <3>1. j \in Nat /\ k \in Nat /\ q[j] \in Nat /\ q[k] \in Nat
      OBVIOUS
    <3>2. j < k => q[j] < q[k]
      BY DEF Increasing
    <3>3. k < j => q[k] < q[j]
      BY DEF Increasing
    <3> QED BY <3>1, <3>2, <3>3
  <2>2. \A j \in 1..k : j \in 1..n /\ j <= k
    OBVIOUS
  <2>3. {j \in S : j <= q[k]} = {q[j] : j \in 1..k}
    <3>1. ASSUME NEW s \in S, s <= q[k] PROVE s \in {q[j] : j \in 1..k}
      <4>1. PICK j \in 1..n : s = q[j]
        OBVIOUS
      <4>2. j \in 1..k
        BY <2>1, <3>1, <4>1
      <4> QED BY <4>1, <4>2
    <3>2. ASSUME NEW j \in 1..k PROVE q[j] \in S /\ q[j] <= q[k]
      BY <2>1, <2>2
    <3> QED BY <3>1, <3>2
  <2>4. k \in 0..n
    OBVIOUS
  <2> QED BY <2>3, <2>4, OrderedSize
<1>3. ASSUME NEW k \in 1..n
      PROVE  (CHOOSE i \in S : Cardinality({j \in S : j <= i}) = k) = q[k]
  <2>1. q[k] \in S
    OBVIOUS
  <2>2. ASSUME NEW i \in S, Cardinality({j \in S : j <= i}) = k PROVE i = q[k]
    <3>1. PICK m \in 1..n : i = q[m]
      OBVIOUS
    <3>2. Cardinality({j \in S : j <= i}) = m
      BY <1>2, <3>1
    <3> QED BY <2>2, <3>1, <3>2
  <2>3. \E i \in S : Cardinality({j \in S : j <= i}) = k
    BY <1>2, <2>1
  <2> DEFINE P(i) == Cardinality({j \in S : j <= i}) = k
  <2>4. \A i \in S : P(i) => i = q[k]
    BY <2>2
  <2>5. \E i \in S : P(i)
    BY <2>3
  <2> HIDE DEF P
  <2>6. (CHOOSE i \in S : P(i)) = q[k]
    BY <2>4, <2>5
  <2> QED BY <2>6 DEF P
<1>4. InOrder(S) = [k \in 1..n |-> q[k]]
  BY <1>1, <1>3 DEF InOrder
<1> QED BY <1>4

-----------------------------------------------------------------------------
(* The lines of a form's text and where they stand. *)
Names == {"code", "name", "parties", "inWords", "agents", "total"}
Line == {Label(b) : b \in Box} \union {Number(n) : n \in Nat} \union {PartyCode(c) : c \in Code}
           \union {InWords(w) : w \in Seq(Vocabulary)} \union {Heading(h) : h \in Names}

VotesIn(ph, k) == ph.sheet.parties[Ballot[k]]
InFigures(ph, k) == Ballot[k] \in ph.figures
Worded(ph, k)    == Ballot[k] \in ph.words
ValueOf(ph, k)   == ph.sheet.fields[Boxes[k]]
Valid(ph)        == ph.sheet.fields["votesCast"]

RowSize(ph, k) == 2 + (IF InFigures(ph, k) THEN 1 ELSE 0) + (IF Worded(ph, k) THEN 1 ELSE 0)

RowOf(ph, k) == <<Number(k), PartyCode(Ballot[k])>>
                   \o If(InFigures(ph, k), Number(VotesIn(ph, k)))
                   \o If(Worded(ph, k), InWords(WordsOf(VotesIn(ph, k), TRUE)))
RowsOf(ph) == [k \in DOMAIN Ballot |-> RowOf(ph, k)]

PlaceOf == <<Number(29), Heading("code"), Heading("name")>>
LabelsOf == [k \in DOMAIN Boxes |-> Label(Boxes[k])]
ValuesOf(ph) == [k \in DOMAIN Boxes |-> Number(ValueOf(ph, k))]
PairsOf(ph) == [k \in DOMAIN Boxes |-> <<LabelsOf[k], ValuesOf(ph)[k]>>]
SummaryOf(ph) == IF ph.apart THEN LabelsOf \o PlaceOf \o ValuesOf(ph)
                 ELSE PlaceOf \o FlattenSeq(PairsOf(ph))
HeadOf == <<Heading("parties"), Heading("inWords"), Heading("agents")>>
EndOf(ph) == <<Heading("total"), Number(Valid(ph)), InWords(WordsOf(Valid(ph), TRUE))>>

LEMMA TextParts ==
    \A ph : TextOf(ph) = SummaryOf(ph) \o HeadOf \o FlattenSeq(RowsOf(ph)) \o EndOf(ph)
BY DEF TextOf, SummaryOf, HeadOf, RowsOf, RowOf, EndOf, PlaceOf, LabelsOf, ValuesOf, PairsOf,
       ValueOf, Valid, VotesIn, InFigures, Worded

(* What a filled form holds. *)
FormNumber(ph) ==
    /\ ph.sheet.fields \in [Box -> Nat] /\ ph.sheet.parties \in [Code -> Nat]
    /\ \A k \in 1..8 : /\ ValueOf(ph, k) \in Nat /\ ValueOf(ph, k) <= MostInBox
                       /\ ~TooSmallForField(Boxes[k], ValueOf(ph, k))
    /\ \A k \in 1..Len(Ballot) : VotesIn(ph, k) \in Nat /\ VotesIn(ph, k) <= MostInBox
    /\ Valid(ph) \in Nat /\ Valid(ph) <= MostInBox

LEMMA WordsType ==
    ASSUME NEW n \in Nat, n <= Largest, NEW joined \in BOOLEAN
    PROVE  WordsOf(n, joined) \in Seq(Vocabulary)
<1>1. CASE n = 0
  <2>1. WordsOf(n, joined) = <<"zero">> /\ "zero" \in Vocabulary
    BY <1>1, InVocabulary DEF WordsOf
  <2> QED BY <2>1
<1>2. CASE n # 0
  <2>1. n >= 1
    BY <1>2
  <2> QED BY <2>1, WordsStart
<1> QED BY <1>1, <1>2

LEMMA MostIsRead == MostInBox \in Nat /\ MostInBox <= Largest
BY SMT DEF MostInBox, Largest

LEMMA LineType ==
    /\ \A b \in Box : Label(b) \in Line
    /\ \A n \in Nat : Number(n) \in Line
    /\ \A c \in Code : PartyCode(c) \in Line
    /\ \A w \in Seq(Vocabulary) : InWords(w) \in Line
    /\ \A h \in Names : Heading(h) \in Line
BY DEF Line

LEMMA IfHolds ==
    ASSUME NEW S, NEW x \in S, NEW b \in BOOLEAN
    PROVE  If(b, x) \in Seq(S) /\ Len(If(b, x)) = (IF b THEN 1 ELSE 0) /\ (b => If(b, x)[1] = x)
BY DEF If

LEMMA RowHolds ==
    ASSUME NEW ph, FormNumber(ph), NEW k \in 1..Len(Ballot)
    PROVE  /\ RowOf(ph, k) \in Seq(Line) /\ Len(RowOf(ph, k)) = RowSize(ph, k)
           /\ RowOf(ph, k)[1] = Number(k) /\ RowOf(ph, k)[2] = PartyCode(Ballot[k])
           /\ InFigures(ph, k) => RowOf(ph, k)[3] = Number(VotesIn(ph, k))
           /\ Worded(ph, k) =>
                 RowOf(ph, k)[RowSize(ph, k)] = InWords(WordsOf(VotesIn(ph, k), TRUE))
<1> DEFINE a == <<Number(k), PartyCode(Ballot[k])>>
           b == If(InFigures(ph, k), Number(VotesIn(ph, k)))
           w == If(Worded(ph, k), InWords(WordsOf(VotesIn(ph, k), TRUE)))
           ab == a \o b
           all == ab \o w
           m == IF InFigures(ph, k) THEN 1 ELSE 0
           l == IF Worded(ph, k) THEN 1 ELSE 0
<1>1. /\ Ballot[k] \in Code /\ k \in Nat
      /\ VotesIn(ph, k) \in Nat /\ VotesIn(ph, k) <= Largest
  <2>1. Ballot[k] \in Code /\ k \in Nat
    BY ReadingAssumption
  <2>2. VotesIn(ph, k) \in Nat /\ VotesIn(ph, k) <= MostInBox
    BY DEF FormNumber
  <2> QED BY <2>1, <2>2, MostIsRead DEF Largest
<1>2. WordsOf(VotesIn(ph, k), TRUE) \in Seq(Vocabulary)
  <2>1. TRUE \in BOOLEAN
    OBVIOUS
  <2> QED BY <1>1, <2>1, WordsType
<1>3. a \in Seq(Line) /\ Len(a) = 2 /\ a[1] = Number(k) /\ a[2] = PartyCode(Ballot[k])
  <2>1. Number(k) \in Line /\ PartyCode(Ballot[k]) \in Line
    BY <1>1, LineType
  <2> QED BY <2>1
<1>4. /\ b \in Seq(Line) /\ Len(b) = m
      /\ InFigures(ph, k) => b[1] = Number(VotesIn(ph, k))
  <2>1. Number(VotesIn(ph, k)) \in Line /\ InFigures(ph, k) \in BOOLEAN
    BY <1>1, LineType DEF InFigures
  <2> QED BY <2>1, IfHolds
<1>5. /\ w \in Seq(Line) /\ Len(w) = l
      /\ Worded(ph, k) => w[1] = InWords(WordsOf(VotesIn(ph, k), TRUE))
  <2>1. InWords(WordsOf(VotesIn(ph, k), TRUE)) \in Line
    BY <1>2, LineType
  <2>2. Worded(ph, k) \in BOOLEAN
    BY DEF Worded
  <2> QED BY <2>1, <2>2, IfHolds
<1>6. all = RowOf(ph, k)
  BY DEF RowOf
<1> HIDE DEF a, b, w
<1>7. /\ ab \in Seq(Line) /\ Len(ab) = Len(a) + Len(b)
      /\ \A j \in 1..Len(a) : ab[j] = a[j]
      /\ \A j \in 1..Len(b) : ab[Len(a) + j] = b[j]
  <2>1. a \in Seq(Line) /\ b \in Seq(Line) /\ ab = a \o b
    BY <1>3, <1>4
  <2> HIDE DEF ab
  <2> QED BY ONLY <2>1, Concat
<1> HIDE DEF ab
<1>8. /\ all \in Seq(Line) /\ Len(all) = Len(ab) + Len(w)
      /\ \A j \in 1..Len(ab) : all[j] = ab[j]
      /\ \A j \in 1..Len(w) : all[Len(ab) + j] = w[j]
  <2>1. ab \in Seq(Line) /\ w \in Seq(Line) /\ all = ab \o w
    BY <1>5, <1>7
  <2> HIDE DEF all
  <2> QED BY ONLY <2>1, Concat
<1> HIDE DEF all
<1>9. Len(ab) = 2 + m /\ Len(all) = 2 + m + l /\ m \in 0..1 /\ l \in 0..1
  BY <1>3, <1>4, <1>5, <1>7, <1>8
<1>10. all[1] = Number(k) /\ all[2] = PartyCode(Ballot[k])
  <2>1. 1 \in 1..Len(a) /\ 2 \in 1..Len(a) /\ 1 \in 1..Len(ab) /\ 2 \in 1..Len(ab)
    BY <1>3, <1>9
  <2> QED BY <1>3, <1>7, <1>8, <2>1
<1>11. InFigures(ph, k) => all[3] = Number(VotesIn(ph, k))
  <2> SUFFICES ASSUME InFigures(ph, k) PROVE all[3] = Number(VotesIn(ph, k))
    OBVIOUS
  <2>1. m = 1 /\ 1 \in 1..Len(b) /\ Len(a) + 1 = 3 /\ 3 \in 1..Len(ab)
    BY <1>3, <1>4, <1>9
  <2>2. ab[3] = b[1]
    BY <1>7, <2>1
  <2> QED BY <1>4, <1>8, <2>1, <2>2
<1>12. Worded(ph, k) => all[2 + m + l] = InWords(WordsOf(VotesIn(ph, k), TRUE))
  <2> SUFFICES ASSUME Worded(ph, k)
               PROVE  all[2 + m + l] = InWords(WordsOf(VotesIn(ph, k), TRUE))
    OBVIOUS
  <2>1. l = 1 /\ 1 \in 1..Len(w) /\ Len(ab) + 1 = 2 + m + l
    BY <1>5, <1>9
  <2>2. all[Len(ab) + 1] = w[1]
    BY <1>8, <2>1
  <2> QED BY <1>5, <2>1, <2>2
<1>13. RowSize(ph, k) = 2 + m + l
  BY DEF RowSize
<1> HIDE DEF m, l
<1> QED BY <1>6, <1>8, <1>9, <1>10, <1>11, <1>12, <1>13

(* Where the summary's lines stand: the place first, or between the labels *)
(* and the values.                                                         *)
LabelAt(ph, k) == IF ph.apart THEN k ELSE 2 + 2 * k
ValueAt(ph, k) == IF ph.apart THEN 11 + k ELSE 3 + 2 * k
PlaceAt(ph) == IF ph.apart THEN 9 ELSE 1

SummaryIs(ph, page) ==
    /\ page[PlaceAt(ph)] = Number(29)
    /\ page[PlaceAt(ph) + 1] = Heading("code") /\ page[PlaceAt(ph) + 2] = Heading("name")
    /\ \A k \in 1..8 : /\ page[LabelAt(ph, k)] = Label(Boxes[k])
                       /\ page[ValueAt(ph, k)] = Number(ValueOf(ph, k))

LEMMA SummaryParts ==
    ASSUME NEW ph, FormNumber(ph)
    PROVE  /\ PlaceOf \in Seq(Line) /\ Len(PlaceOf) = 3
           /\ LabelsOf \in Seq(Line) /\ Len(LabelsOf) = 8
           /\ \A k \in 1..8 : LabelsOf[k] = Label(Boxes[k])
           /\ ValuesOf(ph) \in Seq(Line) /\ Len(ValuesOf(ph)) = 8
           /\ \A k \in 1..8 : ValuesOf(ph)[k] = Number(ValueOf(ph, k))
<1>1. Number(29) \in Line /\ Heading("code") \in Line /\ Heading("name") \in Line
  BY LineType DEF Names
<1>2. PlaceOf \in Seq(Line) /\ Len(PlaceOf) = 3
  BY <1>1 DEF PlaceOf
<1>3. LabelsOf = [k \in 1..8 |-> Label(Boxes[k])] /\ \A k \in 1..8 : Label(Boxes[k]) \in Line
  BY BoxIs, LineType DEF LabelsOf, Box
<1>4. /\ ValuesOf(ph) = [k \in 1..8 |-> Number(ValueOf(ph, k))]
      /\ \A k \in 1..8 : Number(ValueOf(ph, k)) \in Line
  BY BoxIs, LineType DEF ValuesOf, FormNumber
<1>5. LabelsOf \in Seq(Line) /\ Len(LabelsOf) = 8
  BY <1>3
<1>6. ValuesOf(ph) \in Seq(Line) /\ Len(ValuesOf(ph)) = 8
  BY <1>4
<1> QED BY <1>2, <1>3, <1>4, <1>5, <1>6

LEMMA PairsHold ==
    ASSUME NEW ph, FormNumber(ph), NEW c, c = FlattenSeq(PairsOf(ph))
    PROVE  /\ c \in Seq(Line) /\ Len(c) = 16
           /\ \A k \in 1..8 : c[2 * k - 1] = Label(Boxes[k]) /\ c[2 * k] = Number(ValueOf(ph, k))
<1> DEFINE p == PairsOf(ph)
           e == [k \in 0..8 |-> 2 * k]
<1>1. p = [k \in 1..8 |-> <<LabelsOf[k], ValuesOf(ph)[k]>>]
  BY BoxIs DEF PairsOf
<1>2. ASSUME NEW k \in 1..8
      PROVE  /\ p[k] \in Seq(Line) /\ Len(p[k]) = 2
             /\ p[k][1] = Label(Boxes[k]) /\ p[k][2] = Number(ValueOf(ph, k))
  <2>1. p[k] = <<LabelsOf[k], ValuesOf(ph)[k]>>
    BY <1>1
  <2>2. LabelsOf[k] = Label(Boxes[k]) /\ ValuesOf(ph)[k] = Number(ValueOf(ph, k))
    BY SummaryParts
  <2>3. LabelsOf[k] \in Line /\ ValuesOf(ph)[k] \in Line
    BY SummaryParts
  <2> QED BY <2>1, <2>2, <2>3
<1>3. p \in Seq(Seq(Line)) /\ 8 = Len(p)
  BY <1>1, <1>2
<1> HIDE DEF p
<1>4. e \in [0..8 -> Nat] /\ e[0] = 0
  OBVIOUS
<1>5. \A k \in 1..8 : e[k - 1] = 2 * k - 2 /\ e[k] = 2 * k
  OBVIOUS
<1>6. e[8] = 16
  OBVIOUS
<1> HIDE DEF e
<1>7. \A k \in 1..8 : e[k] = e[k - 1] + Len(p[k])
  <2> SUFFICES ASSUME NEW k \in 1..8 PROVE e[k] = e[k - 1] + Len(p[k])
    OBVIOUS
  <2>1. Len(p[k]) = 2 /\ e[k - 1] = 2 * k - 2 /\ e[k] = 2 * k
    BY <1>2, <1>5
  <2> QED BY <2>1
<1>8. /\ c \in Seq(Line) /\ Len(c) = e[8]
      /\ \A k \in 1..8 : \A j \in 1..Len(p[k]) : c[e[k - 1] + j] = p[k][j]
  <2>1. PICK n : n = 8
    OBVIOUS
  <2>2. n = Len(p) /\ e \in [0..n -> Nat] /\ e[0] = 0 /\ \A k \in 1..n : e[k] = e[k - 1] + Len(p[k])
    BY <1>3, <1>4, <1>7, <2>1
  <2>3. EndAt(p, n, e)
    BY <2>2 DEF EndAt
  <2>4. FlattenSeq(p) \in Seq(Line) /\ Pieces(FlattenSeq(p), p, n, e)
    BY <1>3, <2>3, FlattenHolds
  <2>5. c = FlattenSeq(p)
    BY DEF p
  <2> QED BY <2>1, <2>4, <2>5 DEF Pieces
<1>9. ASSUME NEW k \in 1..8
      PROVE  c[2 * k - 1] = Label(Boxes[k]) /\ c[2 * k] = Number(ValueOf(ph, k))
  <2>1. 1 \in 1..Len(p[k]) /\ 2 \in 1..Len(p[k])
    BY <1>2
  <2>2. c[e[k - 1] + 1] = p[k][1] /\ c[e[k - 1] + 2] = p[k][2]
    BY <1>8, <2>1
  <2>3. e[k - 1] + 1 = 2 * k - 1 /\ e[k - 1] + 2 = 2 * k
    BY <1>5
  <2> QED BY <1>2, <2>2, <2>3
<1> QED BY <1>6, <1>8, <1>9

LEMMA SummaryHolds ==
    ASSUME NEW ph, FormNumber(ph), ph.apart \in BOOLEAN, NEW s, s = SummaryOf(ph)
    PROVE  s \in Seq(Line) /\ Len(s) = 19 /\ SummaryIs(ph, s)
<1> DEFINE p == PlaceOf
           l == LabelsOf
           v == ValuesOf(ph)
           q == FlattenSeq(PairsOf(ph))
<1>1. /\ p \in Seq(Line) /\ Len(p) = 3 /\ l \in Seq(Line) /\ Len(l) = 8
      /\ v \in Seq(Line) /\ Len(v) = 8
      /\ \A k \in 1..8 : l[k] = Label(Boxes[k]) /\ v[k] = Number(ValueOf(ph, k))
  BY SummaryParts
<1>2. p[1] = Number(29) /\ p[2] = Heading("code") /\ p[3] = Heading("name")
  BY DEF PlaceOf
<1>3. /\ q \in Seq(Line) /\ Len(q) = 16
      /\ \A k \in 1..8 : q[2 * k - 1] = Label(Boxes[k]) /\ q[2 * k] = Number(ValueOf(ph, k))
  BY PairsHold
<1>4. s = IF ph.apart THEN (l \o p) \o v ELSE p \o q
  BY DEF SummaryOf
<1> HIDE DEF p, l, v, q
<1>5. CASE ph.apart
  <2> DEFINE lp == l \o p
  <2>1. /\ lp \in Seq(Line) /\ Len(lp) = 11
        /\ \A k \in 1..8 : lp[k] = l[k]
        /\ \A k \in 1..3 : lp[8 + k] = p[k]
    <3>1. /\ lp \in Seq(Line) /\ Len(lp) = Len(l) + Len(p)
          /\ \A k \in 1..Len(l) : lp[k] = l[k]
          /\ \A k \in 1..Len(p) : lp[Len(l) + k] = p[k]
      <4>1. l \in Seq(Line) /\ p \in Seq(Line) /\ lp = l \o p
        BY <1>1
      <4> HIDE DEF lp
      <4> QED BY ONLY <4>1, Concat
    <3> HIDE DEF lp
    <3> QED BY <1>1, <3>1
  <2>2. s = lp \o v
    BY <1>4, <1>5
  <2> HIDE DEF lp
  <2>3. /\ s \in Seq(Line) /\ Len(s) = 19
        /\ \A k \in 1..11 : s[k] = lp[k]
        /\ \A k \in 1..8 : s[11 + k] = v[k]
    <3>1. /\ s \in Seq(Line) /\ Len(s) = Len(lp) + Len(v)
          /\ \A k \in 1..Len(lp) : s[k] = lp[k]
          /\ \A k \in 1..Len(v) : s[Len(lp) + k] = v[k]
      <4>1. lp \in Seq(Line) /\ v \in Seq(Line) /\ s = lp \o v
        BY <1>1, <2>1, <2>2
      <4> QED BY ONLY <4>1, Concat
    <3>2. Len(lp) = 11 /\ Len(v) = 8
      BY <1>1, <2>1
    <3> QED BY ONLY <3>1, <3>2
  <2>4. /\ \A k \in 1..8 : s[k] = l[k]
        /\ s[9] = p[1] /\ s[10] = p[2] /\ s[11] = p[3]
    <3>1. \A k \in 1..8 : k \in 1..11
      OBVIOUS
    <3>2. lp[9] = p[1] /\ lp[10] = p[2] /\ lp[11] = p[3]
      <4>1. lp[8 + 1] = p[1] /\ lp[8 + 2] = p[2] /\ lp[8 + 3] = p[3]
        BY <2>1
      <4> QED BY <4>1
    <3> QED BY <2>1, <2>3, <3>1, <3>2, SMTT(30)
  <2> QED BY <1>1, <1>2, <1>5, <2>3, <2>4 DEF SummaryIs, LabelAt, ValueAt, PlaceAt
<1>6. CASE ~ph.apart
  <2>1. s = p \o q
    BY <1>4, <1>6
  <2>2. /\ s \in Seq(Line) /\ Len(s) = 19
        /\ \A k \in 1..3 : s[k] = p[k]
        /\ \A k \in 1..16 : s[3 + k] = q[k]
    <3>1. /\ s \in Seq(Line) /\ Len(s) = Len(p) + Len(q)
          /\ \A k \in 1..Len(p) : s[k] = p[k]
          /\ \A k \in 1..Len(q) : s[Len(p) + k] = q[k]
      <4>1. p \in Seq(Line) /\ q \in Seq(Line) /\ s = p \o q
        BY <1>1, <1>3, <2>1
      <4> QED BY ONLY <4>1, Concat
    <3>2. Len(p) = 3 /\ Len(q) = 16
      BY <1>1, <1>3
    <3> QED BY ONLY <3>1, <3>2
  <2>3. ASSUME NEW k \in 1..8
        PROVE  s[2 + 2 * k] = q[2 * k - 1] /\ s[3 + 2 * k] = q[2 * k]
    <3>1. 2 * k - 1 \in 1..16 /\ 2 * k \in 1..16 /\ 3 + (2 * k - 1) = 2 + 2 * k
      OBVIOUS
    <3>2. s[3 + (2 * k - 1)] = q[2 * k - 1] /\ s[3 + 2 * k] = q[2 * k]
      BY <2>2, <3>1
    <3> QED BY <3>1, <3>2
  <2>4. s[1] = p[1] /\ s[2] = p[2] /\ s[3] = p[3]
    BY <2>2
  <2>5. /\ PlaceAt(ph) = 1 /\ PlaceAt(ph) + 1 = 2 /\ PlaceAt(ph) + 2 = 3
        /\ \A k \in 1..8 : LabelAt(ph, k) = 2 + 2 * k /\ ValueAt(ph, k) = 3 + 2 * k
    BY <1>6 DEF LabelAt, ValueAt, PlaceAt
  <2>6. \A k \in 1..8 : /\ s[LabelAt(ph, k)] = Label(Boxes[k])
                        /\ s[ValueAt(ph, k)] = Number(ValueOf(ph, k))
    BY <1>3, <2>3, <2>5
  <2> QED BY <1>2, <2>2, <2>4, <2>5, <2>6 DEF SummaryIs
<1> QED BY <1>5, <1>6

(* Row k ends at line e[k]. *)
RowEnds(ph, e) ==
    /\ e \in [0..Len(Ballot) -> Nat] /\ e[0] = 22
    /\ \A k \in 1..Len(Ballot) : e[k] = e[k - 1] + RowSize(ph, k)

RowIs(ph, page, e, k) ==
    /\ page[e[k - 1] + 1] = Number(k) /\ page[e[k - 1] + 2] = PartyCode(Ballot[k])
    /\ InFigures(ph, k) => page[e[k - 1] + 3] = Number(VotesIn(ph, k))
    /\ Worded(ph, k) => page[e[k]] = InWords(WordsOf(VotesIn(ph, k), TRUE))

TextIs(ph, page, e) ==
    /\ page \in Seq(Line) /\ Len(page) = e[Len(Ballot)] + 3
    /\ SummaryIs(ph, page)
    /\ page[20] = Heading("parties") /\ page[21] = Heading("inWords")
    /\ page[22] = Heading("agents")
    /\ \A k \in 1..Len(Ballot) : RowIs(ph, page, e, k)
    /\ page[e[Len(Ballot)] + 1] = Heading("total")
    /\ page[e[Len(Ballot)] + 2] = Number(Valid(ph))
    /\ page[e[Len(Ballot)] + 3] = InWords(WordsOf(Valid(ph), TRUE))

LEMMA RowSizes ==
    \A ph, k : /\ RowSize(ph, k) \in 2..4
               /\ InFigures(ph, k) => RowSize(ph, k) >= 3
               /\ Worded(ph, k) => RowSize(ph, k) >= 3
               /\ InFigures(ph, k) /\ Worded(ph, k) <=> RowSize(ph, k) = 4
BY DEF RowSize

LEMMA RowsEnd == \A ph : \E e : RowEnds(ph, e)
<1> SUFFICES ASSUME NEW ph PROVE \E e : RowEnds(ph, e)
  OBVIOUS
<1> DEFINE n == Len(Ballot)
           F == [p \in Nat \X Nat |-> p[2] + RowSize(ph, p[1])]
<1>1. n \in Nat
  BY CodesFinite
<1>2. F \in [Nat \X Nat -> Nat]
  BY RowSizes
<1>3. \A k, m \in Nat : F[<<k, m>>] = m + RowSize(ph, k)
  OBVIOUS
<1> HIDE DEF F, n
<1>4. 22 \in Nat
  OBVIOUS
<1>5. PICK e \in [0..n -> Nat] : e[0] = 22 /\ \A k \in 1..n : e[k] = F[<<k, e[k - 1]>>]
  <2>1. \A m \in Nat : \E g \in [0..m -> Nat] : Goes(22, F, m, g)
    BY <1>2, <1>4, LoopRuns
  <2> QED BY <1>1, <2>1 DEF Goes
<1>6. ASSUME NEW k \in 1..n PROVE e[k] = e[k - 1] + RowSize(ph, k)
  <2>1. k \in Nat /\ e[k - 1] \in Nat
    BY <1>1
  <2> QED BY <1>3, <1>5, <2>1
<1> QED BY <1>5, <1>6 DEF RowEnds, n

LEMMA EndsType ==
    ASSUME NEW ph, NEW e, RowEnds(ph, e)
    PROVE  /\ \A k \in 0..Len(Ballot) : e[k] \in Nat /\ e[k] >= 22
           /\ \A j, k \in 0..Len(Ballot) : j <= k => e[j] <= e[k]
           /\ \A k \in 1..Len(Ballot) : k - 1 \in 0..Len(Ballot) /\ k \in 0..Len(Ballot)
<1>1. Len(Ballot) \in Nat
  BY CodesFinite
<1>2. e \in [0..Len(Ballot) -> Nat] /\ e[0] = 22
  BY DEF RowEnds
<1>3. \A k \in 1..Len(Ballot) : k - 1 \in 0..Len(Ballot) /\ k \in 0..Len(Ballot)
  BY <1>1
<1>4. \A k \in 1..Len(Ballot) : e[k - 1] <= e[k]
  <2> SUFFICES ASSUME NEW k \in 1..Len(Ballot) PROVE e[k - 1] <= e[k]
    OBVIOUS
  <2>1. e[k] = e[k - 1] + RowSize(ph, k) /\ e[k - 1] \in Nat /\ RowSize(ph, k) \in Nat
    BY <1>2, <1>3, RowSizes DEF RowEnds
  <2> QED BY <2>1
<1>5. \A j, k \in 0..Len(Ballot) : j <= k => e[j] <= e[k]
  BY <1>1, <1>2, <1>4, EndsGrow
<1>6. \A k \in 0..Len(Ballot) : e[k] \in Nat
  BY <1>2
<1>7. \A k \in 0..Len(Ballot) : e[k] >= 22
  <2> SUFFICES ASSUME NEW k \in 0..Len(Ballot) PROVE e[k] >= 22
    OBVIOUS
  <2>1. 0 \in 0..Len(Ballot) /\ 0 <= k
    BY <1>1
  <2>2. e[0] <= e[k] /\ e[k] \in Nat
    BY <1>5, <1>6, <2>1
  <2> QED BY <1>2, <2>2
<1> QED BY <1>3, <1>5, <1>6, <1>7

LEMMA RowsHold ==
    ASSUME NEW ph, FormNumber(ph), NEW e, RowEnds(ph, e), NEW c, c = FlattenSeq(RowsOf(ph))
    PROVE  /\ c \in Seq(Line) /\ Len(c) = e[Len(Ballot)] - 22
           /\ \A k \in 1..Len(Ballot) : \A j \in 1..RowSize(ph, k) :
                 c[e[k - 1] - 22 + j] = RowOf(ph, k)[j]
<1> DEFINE n == Len(Ballot)
           rows == RowsOf(ph)
           d == [k \in 0..n |-> e[k] - 22]
<1>1. n \in Nat /\ rows = [k \in 1..n |-> RowOf(ph, k)]
  BY CodesFinite DEF RowsOf
<1>2. \A k \in 1..n : RowOf(ph, k) \in Seq(Line) /\ Len(RowOf(ph, k)) = RowSize(ph, k)
  BY RowHolds
<1> HIDE DEF n, rows
<1>3. rows \in Seq(Seq(Line)) /\ Len(rows) = n
  BY <1>1, <1>2
<1>4. \A k \in 0..n : e[k] \in Nat /\ e[k] >= 22
  BY EndsType DEF n
<1>5. d \in [0..n -> Nat]
  BY <1>4
<1>6. d[0] = 0
  <2>1. e[0] = 22 /\ 0 \in 0..n
    BY <1>1 DEF RowEnds
  <2> QED BY <2>1
<1>7. ASSUME NEW k \in 1..n PROVE d[k] = d[k - 1] + Len(rows[k]) /\ d[k - 1] = e[k - 1] - 22
  <2>1. k \in 0..n /\ k - 1 \in 0..n
    BY <1>1
  <2>2. e[k] = e[k - 1] + RowSize(ph, k)
    BY DEF RowEnds, n
  <2>3. d[k] = e[k] - 22 /\ d[k - 1] = e[k - 1] - 22
    BY <2>1
  <2>4. Len(rows[k]) = RowSize(ph, k) /\ RowSize(ph, k) \in Nat
    BY <1>1, <1>2, RowSizes
  <2>5. e[k] \in Nat /\ e[k - 1] \in Nat
    BY <1>4, <2>1
  <2> HIDE DEF d
  <2> QED BY <2>2, <2>3, <2>4, <2>5
<1>8. d[n] = e[n] - 22
  BY <1>1
<1> HIDE DEF d
<1>9. EndAt(rows, n, d)
  BY <1>3, <1>5, <1>6, <1>7 DEF EndAt
<1>10. c \in Seq(Line) /\ Pieces(c, rows, n, d)
  BY <1>3, <1>9, FlattenHolds DEF rows
<1>11. ASSUME NEW k \in 1..n, NEW j \in 1..RowSize(ph, k)
       PROVE  c[e[k - 1] - 22 + j] = RowOf(ph, k)[j]
  <2>1. rows[k] = RowOf(ph, k) /\ Len(rows[k]) = RowSize(ph, k)
    BY <1>1, <1>2
  <2>2. c[d[k - 1] + j] = rows[k][j]
    BY <1>10, <2>1 DEF Pieces
  <2> QED BY <1>7, <2>1, <2>2
<1> QED BY <1>8, <1>10, <1>11 DEF Pieces, n

LEMMA Three ==
    ASSUME NEW S, NEW a \in S, NEW b \in S, NEW c \in S, NEW t, t = <<a, b, c>>
    PROVE  t \in Seq(S) /\ Len(t) = 3 /\ t[1] = a /\ t[2] = b /\ t[3] = c
OBVIOUS

LEMMA Within ==
    ASSUME NEW a \in Nat, NEW b \in Nat, NEW c \in Nat, NEW m \in Nat, NEW j \in Nat,
           a >= 22, b = a + m, b <= c, j >= 1, j <= m
    PROVE  a - 22 + j \in 1..(c - 22) /\ a + j \in 1..c /\ 22 + (a - 22 + j) = a + j
OBVIOUS

LEMMA TextHolds ==
    ASSUME NEW ph, FormNumber(ph), ph.apart \in BOOLEAN, NEW e, RowEnds(ph, e)
    PROVE  TextIs(ph, TextOf(ph), e)
<1> DEFINE n == Len(Ballot)
           s == SummaryOf(ph)
           h == HeadOf
           r == FlattenSeq(RowsOf(ph))
           z == EndOf(ph)
           sh == s \o h
           shr == sh \o r
           page == shr \o z
<1>1. s \in Seq(Line) /\ Len(s) = 19 /\ SummaryIs(ph, s)
  BY SummaryHolds
<1>2. /\ h \in Seq(Line) /\ Len(h) = 3
      /\ h[1] = Heading("parties") /\ h[2] = Heading("inWords") /\ h[3] = Heading("agents")
  <2>1. Heading("parties") \in Line /\ Heading("inWords") \in Line /\ Heading("agents") \in Line
    BY LineType DEF Names
  <2>2. h = <<Heading("parties"), Heading("inWords"), Heading("agents")>>
    BY DEF HeadOf
  <2> HIDE DEF h
  <2> QED BY ONLY <2>1, <2>2, Three
<1>3. /\ r \in Seq(Line) /\ Len(r) = e[n] - 22
      /\ \A k \in 1..n : \A j \in 1..RowSize(ph, k) : r[e[k - 1] - 22 + j] = RowOf(ph, k)[j]
  BY RowsHold
<1>4. /\ z \in Seq(Line) /\ Len(z) = 3
      /\ z[1] = Heading("total") /\ z[2] = Number(Valid(ph))
      /\ z[3] = InWords(WordsOf(Valid(ph), TRUE))
  <2>1. Valid(ph) \in Nat /\ Valid(ph) <= Largest
    BY MostIsRead DEF FormNumber, Largest
  <2>2. TRUE \in BOOLEAN
    OBVIOUS
  <2>3. WordsOf(Valid(ph), TRUE) \in Seq(Vocabulary)
    BY <2>1, <2>2, WordsType
  <2>4. Heading("total") \in Line /\ Number(Valid(ph)) \in Line
        /\ InWords(WordsOf(Valid(ph), TRUE)) \in Line
    BY <2>1, <2>3, LineType DEF Names
  <2>5. PICK w \in Line : w = InWords(WordsOf(Valid(ph), TRUE))
    BY <2>4
  <2>6. z = <<Heading("total"), Number(Valid(ph)), w>>
    BY <2>5 DEF EndOf
  <2> HIDE DEF z
  <2>7. /\ z \in Seq(Line) /\ Len(z) = 3
        /\ z[1] = Heading("total") /\ z[2] = Number(Valid(ph)) /\ z[3] = w
    BY ONLY <2>4, <2>6, Three
  <2> QED BY <2>5, <2>7
<1>5. page = TextOf(ph)
  BY TextParts
<1>6. n \in Nat /\ e[n] \in Nat /\ e[n] >= 22
  <2>1. n \in Nat /\ n \in 0..n
    BY CodesFinite
  <2> QED BY <2>1, EndsType
<1> HIDE DEF s, h, r, z, n
<1>7. /\ sh \in Seq(Line) /\ Len(sh) = Len(s) + Len(h)
      /\ \A k \in 1..Len(s) : sh[k] = s[k]
      /\ \A k \in 1..Len(h) : sh[Len(s) + k] = h[k]
  <2>1. s \in Seq(Line) /\ h \in Seq(Line) /\ sh = s \o h
    BY <1>1, <1>2
  <2> HIDE DEF sh
  <2> QED BY ONLY <2>1, Concat
<1> HIDE DEF sh
<1>8. /\ shr \in Seq(Line) /\ Len(shr) = Len(sh) + Len(r)
      /\ \A k \in 1..Len(sh) : shr[k] = sh[k]
      /\ \A k \in 1..Len(r) : shr[Len(sh) + k] = r[k]
  <2>1. sh \in Seq(Line) /\ r \in Seq(Line) /\ shr = sh \o r
    BY <1>3, <1>7
  <2> HIDE DEF shr
  <2> QED BY ONLY <2>1, Concat
<1> HIDE DEF shr
<1>9. /\ page \in Seq(Line) /\ Len(page) = Len(shr) + Len(z)
      /\ \A k \in 1..Len(shr) : page[k] = shr[k]
      /\ \A k \in 1..Len(z) : page[Len(shr) + k] = z[k]
  <2>1. shr \in Seq(Line) /\ z \in Seq(Line) /\ page = shr \o z
    BY <1>4, <1>8
  <2> HIDE DEF page
  <2> QED BY ONLY <2>1, Concat
<1> HIDE DEF page
<1>10. Len(sh) = 22 /\ Len(shr) = e[n] /\ Len(page) = e[n] + 3
  <2>1. Len(s) = 19 /\ Len(h) = 3 /\ Len(r) = e[n] - 22 /\ Len(z) = 3
    BY <1>1, <1>2, <1>3, <1>4
  <2>2. /\ Len(sh) = Len(s) + Len(h) /\ Len(shr) = Len(sh) + Len(r)
        /\ Len(page) = Len(shr) + Len(z)
    BY <1>7, <1>8, <1>9
  <2> QED BY ONLY <1>6, <2>1, <2>2
<1>11. \A k \in 1..19 : page[k] = s[k]
  <2> SUFFICES ASSUME NEW k \in 1..19 PROVE page[k] = s[k]
    OBVIOUS
  <2>1. k \in 1..Len(s) /\ k \in 1..Len(sh) /\ k \in 1..Len(shr)
    BY <1>1, <1>6, <1>10
  <2> QED BY <1>7, <1>8, <1>9, <2>1
<1>12. page[20] = h[1] /\ page[21] = h[2] /\ page[22] = h[3]
  <2>1. ASSUME NEW k \in 1..3 PROVE page[19 + k] = h[k]
    <3>1. k \in 1..Len(h) /\ 19 + k \in 1..Len(sh) /\ 19 + k \in 1..Len(shr) /\ Len(s) + k = 19 + k
      <4>1. Len(h) = 3 /\ Len(s) = 19
        BY <1>1, <1>2
      <4> QED BY ONLY <1>6, <1>10, <4>1
    <3>2. page[19 + k] = shr[19 + k] /\ shr[19 + k] = sh[19 + k]
      BY <1>8, <1>9, <3>1
    <3>3. sh[Len(s) + k] = h[k]
      BY <1>7, <3>1
    <3> QED BY <3>1, <3>2, <3>3
  <2>2. page[19 + 1] = h[1] /\ page[19 + 2] = h[2] /\ page[19 + 3] = h[3]
    BY <2>1
  <2> QED BY <2>2
<1>13. page[e[n] + 1] = z[1] /\ page[e[n] + 2] = z[2] /\ page[e[n] + 3] = z[3]
  <2>1. 1 \in 1..Len(z) /\ 2 \in 1..Len(z) /\ 3 \in 1..Len(z)
    BY <1>4
  <2>2. page[Len(shr) + 1] = z[1] /\ page[Len(shr) + 2] = z[2] /\ page[Len(shr) + 3] = z[3]
    BY <1>9, <2>1
  <2> QED BY <1>10, <2>2
<1>14. ASSUME NEW k \in 1..n, NEW j \in 1..RowSize(ph, k)
       PROVE  page[e[k - 1] + j] = RowOf(ph, k)[j] /\ e[k] = e[k - 1] + RowSize(ph, k)
  <2>1. /\ e[k - 1] \in Nat /\ e[k - 1] >= 22 /\ e[k] \in Nat /\ e[k] <= e[n]
        /\ e[k] = e[k - 1] + RowSize(ph, k)
    <3>1. k \in 0..n /\ k - 1 \in 0..n /\ n \in 0..n /\ k <= n
      BY <1>6
    <3>2. e[k] = e[k - 1] + RowSize(ph, k)
      BY DEF RowEnds, n
    <3> QED BY <3>1, <3>2, EndsType DEF n
  <2>2. j \in Nat /\ j >= 1 /\ j <= RowSize(ph, k) /\ RowSize(ph, k) \in Nat
    BY RowSizes
  <2> DEFINE i == e[k - 1] - 22 + j
  <2>3. r[i] = RowOf(ph, k)[j]
    BY <1>3
  <2>4. i \in 1..Len(r) /\ 22 + i = e[k - 1] + j /\ e[k - 1] + j \in 1..Len(shr)
    <3>1. Len(r) = e[n] - 22
      BY <1>3
    <3>2. /\ e[k - 1] - 22 + j \in 1..(e[n] - 22) /\ e[k - 1] + j \in 1..e[n]
          /\ 22 + (e[k - 1] - 22 + j) = e[k - 1] + j
      BY ONLY <1>6, <2>1, <2>2, Within
    <3> QED BY ONLY <1>10, <3>1, <3>2
  <2> HIDE DEF i
  <2>5. shr[Len(sh) + i] = r[i]
    BY <1>8, <2>4
  <2>6. page[e[k - 1] + j] = shr[e[k - 1] + j]
    BY <1>9, <2>4
  <2> QED BY <1>10, <2>1, <2>3, <2>4, <2>5, <2>6
<1>15. ASSUME NEW k \in 1..n PROVE RowIs(ph, page, e, k)
  <2>1. /\ RowOf(ph, k)[1] = Number(k) /\ RowOf(ph, k)[2] = PartyCode(Ballot[k])
        /\ InFigures(ph, k) => RowOf(ph, k)[3] = Number(VotesIn(ph, k))
        /\ Worded(ph, k) =>
              RowOf(ph, k)[RowSize(ph, k)] = InWords(WordsOf(VotesIn(ph, k), TRUE))
    BY RowHolds DEF n
  <2>2. RowSize(ph, k) \in 2..4 /\ (InFigures(ph, k) => RowSize(ph, k) >= 3)
    BY RowSizes
  <2>3. 1 \in 1..RowSize(ph, k) /\ 2 \in 1..RowSize(ph, k) /\ RowSize(ph, k) \in 1..RowSize(ph, k)
        /\ (InFigures(ph, k) => 3 \in 1..RowSize(ph, k))
    BY <2>2
  <2>4. page[e[k - 1] + 1] = RowOf(ph, k)[1] /\ page[e[k - 1] + 2] = RowOf(ph, k)[2]
    BY <1>14, <2>3
  <2>5. InFigures(ph, k) => page[e[k - 1] + 3] = RowOf(ph, k)[3]
    BY <1>14, <2>3
  <2>6. page[e[k - 1] + RowSize(ph, k)] = RowOf(ph, k)[RowSize(ph, k)]
        /\ e[k] = e[k - 1] + RowSize(ph, k)
    BY <1>14, <2>3
  <2> QED BY <2>1, <2>4, <2>5, <2>6 DEF RowIs
<1>16. SummaryIs(ph, page)
  <2>1. /\ PlaceAt(ph) \in 1..19 /\ PlaceAt(ph) + 1 \in 1..19 /\ PlaceAt(ph) + 2 \in 1..19
        /\ \A k \in 1..8 : LabelAt(ph, k) \in 1..19 /\ ValueAt(ph, k) \in 1..19
    BY DEF PlaceAt, LabelAt, ValueAt
  <2> QED BY <1>1, <1>11, <2>1 DEF SummaryIs
<1>17. TextIs(ph, page, e)
  BY <1>2, <1>4, <1>9, <1>10, <1>12, <1>13, <1>15, <1>16 DEF TextIs, n
<1> QED BY <1>5, <1>17

-----------------------------------------------------------------------------
(* What stands on a line. *)
IsA(ph, page, e) == FormNumber(ph) /\ ph.apart \in BOOLEAN /\ RowEnds(ph, e) /\ TextIs(ph, page, e)

LEMMA KindsAre ==
    /\ \A b : Label(b).is = "label" /\ Label(b).of = b
    /\ \A n : Number(n).is = "number" /\ Number(n).of = n
    /\ \A c : PartyCode(c).is = "code" /\ PartyCode(c).of = c
    /\ \A w : InWords(w).is = "words" /\ InWords(w).of = w
    /\ \A h : Heading(h).is = "heading" /\ Heading(h).of = h
BY DEF Label, Number, PartyCode, InWords, Heading

InSummary(ph, i) == \/ \E k \in 1..8 : i = LabelAt(ph, k) \/ i = ValueAt(ph, k)
                    \/ i = PlaceAt(ph) \/ i = PlaceAt(ph) + 1 \/ i = PlaceAt(ph) + 2

InRow(ph, e, k, i) == \/ i = e[k - 1] + 1 \/ i = e[k - 1] + 2
                      \/ InFigures(ph, k) /\ i = e[k - 1] + 3
                      \/ Worded(ph, k) /\ i = e[k]

LEMMA SummaryLines ==
    ASSUME NEW ph, ph.apart \in BOOLEAN, NEW i \in 1..19
    PROVE  InSummary(ph, i)
<1>1. CASE ph.apart
  <2>1. \A k \in 1..8 : LabelAt(ph, k) = k /\ ValueAt(ph, k) = 11 + k
    BY <1>1 DEF LabelAt, ValueAt
  <2>2. PlaceAt(ph) = 9
    BY <1>1 DEF PlaceAt
  <2>3. CASE i \in 1..8
    BY <2>1, <2>3 DEF InSummary
  <2>4. CASE i \in 9..11
    BY <2>2, <2>4 DEF InSummary
  <2>5. CASE i \in 12..19
    <3>1. i - 11 \in 1..8 /\ i = 11 + (i - 11)
      BY <2>5
    <3>2. i = ValueAt(ph, i - 11)
      BY <2>1, <3>1
    <3> QED BY <3>1, <3>2 DEF InSummary
  <2> QED BY <2>3, <2>4, <2>5
<1>2. CASE ~ph.apart
  <2>1. \A k \in 1..8 : LabelAt(ph, k) = 2 + 2 * k /\ ValueAt(ph, k) = 3 + 2 * k
    BY <1>2 DEF LabelAt, ValueAt
  <2>2. PlaceAt(ph) = 1
    BY <1>2 DEF PlaceAt
  <2>3. CASE i \in 1..3
    BY <2>2, <2>3 DEF InSummary
  <2>4. CASE i \in 4..19
    <3>1. \E k \in 1..8 : i = 2 + 2 * k \/ i = 3 + 2 * k
      <4>1. (i - 2) \div 2 \in 1..8
            /\ (i = 2 + 2 * ((i - 2) \div 2) \/ i = 3 + 2 * ((i - 2) \div 2))
        BY <2>4
      <4> QED BY <4>1
    <3> QED BY <2>1, <3>1 DEF InSummary
  <2> QED BY <2>3, <2>4
<1> QED BY <1>1, <1>2

LEMMA LinesAre ==
    ASSUME NEW ph, NEW page, NEW e, IsA(ph, page, e), NEW i \in 1..Len(page)
    PROVE  \/ i \in 1..19 /\ InSummary(ph, i)
           \/ i \in 20..22
           \/ \E k \in 1..Len(Ballot) : e[k - 1] < i /\ i <= e[k] /\ InRow(ph, e, k, i)
           \/ i \in (e[Len(Ballot)] + 1)..(e[Len(Ballot)] + 3)
<1> DEFINE n == Len(Ballot)
<1>1. n \in Nat /\ n \in 0..n /\ 0 \in 0..n
  BY CodesFinite
<1>2. /\ \A k \in 0..n : e[k] \in Nat /\ e[k] >= 22
      /\ \A k \in 1..n : k - 1 \in 0..n /\ k \in 0..n
  BY EndsType DEF IsA
<1>3. Len(page) = e[n] + 3 /\ e[0] = 22 /\ e \in [0..n -> Nat]
  BY DEF IsA, TextIs, RowEnds
<1> HIDE DEF n
<1>4. i \in Nat /\ i >= 1 /\ i <= e[n] + 3
  <2>1. e[n] \in Nat
    BY <1>1, <1>2
  <2> QED BY <1>3, <2>1
<1>5. CASE i <= 19
  <2>1. i \in 1..19 /\ ph.apart \in BOOLEAN
    BY <1>4, <1>5 DEF IsA
  <2> QED BY <2>1, SummaryLines, SMTT(30)
<1>6. CASE i \in 20..22
  BY <1>6
<1>7. CASE i > e[n]
  <2>1. e[n] \in Nat
    BY <1>1, <1>2
  <2>2. i \in (e[n] + 1)..(e[n] + 3)
    BY <1>4, <1>7, <2>1
  <2> QED BY <2>2 DEF n
<1>8. CASE i > 22 /\ i <= e[n]
  <2>1. PICK k \in 1..n : e[k - 1] < i /\ i <= e[k]
    <3>1. \A p \in Nat : e[0] < p /\ p <= e[n] => \E k \in 1..n : e[k - 1] < p /\ p <= e[k]
      BY <1>1, <1>3, InAPiece
    <3> QED BY <1>3, <1>4, <1>8, <3>1
  <2>2. e[k] = e[k - 1] + RowSize(ph, k)
    BY DEF IsA, RowEnds, n
  <2>3. e[k - 1] \in Nat /\ e[k] \in Nat
    BY <1>2
  <2>4. /\ RowSize(ph, k) \in 2..4
        /\ RowSize(ph, k) = 3 => InFigures(ph, k) \/ Worded(ph, k)
        /\ RowSize(ph, k) = 4 => InFigures(ph, k) /\ Worded(ph, k)
    BY DEF RowSize
  <2>5. i = e[k - 1] + 1 \/ i = e[k - 1] + 2 \/ i = e[k - 1] + 3 \/ i = e[k - 1] + 4
    BY <1>4, <2>1, <2>2, <2>3, <2>4
  <2>6. i = e[k - 1] + 3 => RowSize(ph, k) = 3 \/ RowSize(ph, k) = 4
    BY <2>1, <2>2, <2>3, <2>4
  <2>7. i = e[k - 1] + 4 => RowSize(ph, k) = 4
    BY <2>1, <2>2, <2>3, <2>4
  <2>8. InRow(ph, e, k, i)
    BY <2>2, <2>4, <2>5, <2>6, <2>7 DEF InRow
  <2> QED BY <2>1, <2>8 DEF n
<1>9. e[n] \in Nat
  BY <1>1, <1>2
<1> QED BY <1>4, <1>5, <1>6, <1>7, <1>8, <1>9

LEMMA LineKinds ==
    ASSUME NEW ph, NEW page, NEW e, IsA(ph, page, e), NEW i \in 1..Len(page)
    PROVE  /\ page[i].is = "label" => \E k \in 1..8 : i = LabelAt(ph, k)
           /\ page[i].is = "code" => \E k \in 1..Len(Ballot) : i = e[k - 1] + 2
           /\ page[i].is = "number" =>
                 \/ i = PlaceAt(ph) \/ \E k \in 1..8 : i = ValueAt(ph, k)
                 \/ \E k \in 1..Len(Ballot) : \/ i = e[k - 1] + 1
                                              \/ InFigures(ph, k) /\ i = e[k - 1] + 3
                 \/ i = e[Len(Ballot)] + 2
           /\ page[i].is = "words" =>
                 \/ \E k \in 1..Len(Ballot) : Worded(ph, k) /\ i = e[k]
                 \/ i = e[Len(Ballot)] + 3
           /\ page[i].is = "heading" =>
                 i \in {PlaceAt(ph) + 1, PlaceAt(ph) + 2, 20, 21, 22, e[Len(Ballot)] + 1}
<1> DEFINE n == Len(Ballot)
<1>1. CASE \E k \in 1..8 : i = LabelAt(ph, k) \/ i = ValueAt(ph, k)
  <2>1. PICK k \in 1..8 : i = LabelAt(ph, k) \/ i = ValueAt(ph, k)
    BY <1>1
  <2>2. /\ page[LabelAt(ph, k)] = Label(Boxes[k])
        /\ page[ValueAt(ph, k)] = Number(ValueOf(ph, k))
    BY DEF IsA, TextIs, SummaryIs
  <2>3. CASE i = LabelAt(ph, k)
    <3>1. page[i].is = "label"
      BY <2>2, <2>3, KindsAre
    <3> QED BY <2>3, <3>1
  <2>4. CASE i = ValueAt(ph, k)
    <3>1. page[i].is = "number"
      BY <2>2, <2>4, KindsAre
    <3> QED BY <2>4, <3>1
  <2> QED BY <2>1, <2>3, <2>4
<1>2. CASE i = PlaceAt(ph) \/ i = PlaceAt(ph) + 1 \/ i = PlaceAt(ph) + 2
  <2>1. /\ page[PlaceAt(ph)] = Number(29) /\ page[PlaceAt(ph) + 1] = Heading("code")
        /\ page[PlaceAt(ph) + 2] = Heading("name")
    BY DEF IsA, TextIs, SummaryIs
  <2>2. CASE i = PlaceAt(ph)
    <3>1. page[i].is = "number"
      BY <2>1, <2>2, KindsAre
    <3> QED BY <2>2, <3>1
  <2>3. CASE i = PlaceAt(ph) + 1 \/ i = PlaceAt(ph) + 2
    <3>1. page[i].is = "heading"
      BY <2>1, <2>3, KindsAre
    <3> QED BY <2>3, <3>1
  <2> QED BY <1>2, <2>2, <2>3
<1>3. CASE i \in 20..22
  <2>1. /\ page[20] = Heading("parties") /\ page[21] = Heading("inWords")
        /\ page[22] = Heading("agents")
    BY DEF IsA, TextIs
  <2>2. i = 20 \/ i = 21 \/ i = 22
    BY <1>3
  <2>3. page[i].is = "heading"
    BY <2>1, <2>2, KindsAre
  <2> QED BY <2>2, <2>3
<1>4. CASE \E k \in 1..n : InRow(ph, e, k, i)
  <2>1. PICK k \in 1..n : InRow(ph, e, k, i)
    BY <1>4
  <2>2. RowIs(ph, page, e, k)
    BY DEF IsA, TextIs
  <2>3. CASE i = e[k - 1] + 1 \/ (InFigures(ph, k) /\ i = e[k - 1] + 3)
    <3>1. page[i].is = "number"
      BY <2>2, <2>3, KindsAre DEF RowIs
    <3> QED BY <2>3, <3>1
  <2>4. CASE i = e[k - 1] + 2
    <3>1. page[i].is = "code"
      BY <2>2, <2>4, KindsAre DEF RowIs
    <3> QED BY <2>4, <3>1
  <2>5. CASE Worded(ph, k) /\ i = e[k]
    <3>1. page[i].is = "words"
      BY <2>2, <2>5, KindsAre, ZenonT(60) DEF RowIs
    <3> QED BY <2>5, <3>1
  <2> QED BY <2>1, <2>3, <2>4, <2>5 DEF InRow
<1>5. CASE i \in (e[n] + 1)..(e[n] + 3)
  <2>1. /\ page[e[n] + 1] = Heading("total") /\ page[e[n] + 2] = Number(Valid(ph))
        /\ page[e[n] + 3] = InWords(WordsOf(Valid(ph), TRUE))
    BY DEF IsA, TextIs
  <2>2. e[n] \in Nat
    <3>1. n \in 0..n
      BY CodesFinite
    <3> QED BY <3>1, EndsType DEF IsA
  <2>3. i = e[n] + 1 \/ i = e[n] + 2 \/ i = e[n] + 3
    BY <1>5, <2>2
  <2>4. CASE i = e[n] + 1
    <3>1. page[i].is = "heading"
      BY <2>1, <2>4, KindsAre
    <3> QED BY <2>4, <3>1
  <2>5. CASE i = e[n] + 2
    <3>1. page[i].is = "number"
      BY <2>1, <2>5, KindsAre
    <3> QED BY <2>5, <3>1
  <2>6. CASE i = e[n] + 3
    <3>1. page[i].is = "words"
      BY <2>1, <2>6, KindsAre, ZenonT(60)
    <3> QED BY <2>6, <3>1
  <2> QED BY <2>3, <2>4, <2>5, <2>6
<1>6. \/ i \in 1..19 /\ InSummary(ph, i)
      \/ i \in 20..22
      \/ \E k \in 1..n : e[k - 1] < i /\ i <= e[k] /\ InRow(ph, e, k, i)
      \/ i \in (e[n] + 1)..(e[n] + 3)
  BY LinesAre
<1> HIDE DEF n
<1>7. CASE InSummary(ph, i)
  BY <1>1, <1>2, <1>7 DEF InSummary
<1> QED BY <1>3, <1>4, <1>5, <1>6, <1>7

LEMMA LastEnd ==
    ASSUME NEW ph, NEW page, NEW e, IsA(ph, page, e)
    PROVE  /\ Len(Ballot) \in Nat /\ e[Len(Ballot)] \in Nat /\ e[Len(Ballot)] >= 22
           /\ DOMAIN page = 1..(e[Len(Ballot)] + 3) /\ Len(page) = e[Len(Ballot)] + 3
           /\ \A k \in 1..Len(Ballot) :
                 /\ e[k - 1] \in Nat /\ e[k - 1] >= 22 /\ e[k] \in Nat
                 /\ e[k] = e[k - 1] + RowSize(ph, k) /\ e[k] <= e[Len(Ballot)]
<1> DEFINE n == Len(Ballot)
<1>1. n \in Nat /\ n \in 0..n /\ \A k \in 1..n : k <= n
  BY CodesFinite
<1>2. /\ \A k \in 0..n : e[k] \in Nat /\ e[k] >= 22
      /\ \A j, k \in 0..n : j <= k => e[j] <= e[k]
      /\ \A k \in 1..n : k - 1 \in 0..n /\ k \in 0..n
  BY EndsType DEF IsA
<1>3. page \in Seq(Line) /\ Len(page) = e[n] + 3
  BY DEF IsA, TextIs
<1>4. DOMAIN page = 1..Len(page)
  BY <1>3
<1>5. \A k \in 1..n : e[k] = e[k - 1] + RowSize(ph, k)
  BY DEF IsA, RowEnds
<1> HIDE DEF n
<1>6. \A k \in 1..n : e[k - 1] \in Nat /\ e[k - 1] >= 22 /\ e[k] \in Nat /\ e[k] <= e[n]
  BY <1>1, <1>2
<1> QED BY <1>1, <1>2, <1>3, <1>4, <1>5, <1>6 DEF n

LEMMA SummaryPlaces ==
    ASSUME NEW ph, ph.apart \in BOOLEAN
    PROVE  /\ PlaceAt(ph) \in 1..9
           /\ \A k \in 1..8 : /\ LabelAt(ph, k) \in 1..18 /\ ValueAt(ph, k) \in 5..19
                              /\ ValueAt(ph, k) > PlaceAt(ph) + 2
                              /\ LabelAt(ph, k) \notin PlaceAt(ph)..(PlaceAt(ph) + 2)
           /\ \A j, k \in 1..8 : /\ LabelAt(ph, j) # ValueAt(ph, k)
                                 /\ LabelAt(ph, j) = LabelAt(ph, k) => j = k
                                 /\ ValueAt(ph, j) = ValueAt(ph, k) => j = k
BY DEF PlaceAt, LabelAt, ValueAt

(* Every heading stands once. *)
LEMMA HeadingsAre ==
    ASSUME NEW ph, NEW page, NEW e, IsA(ph, page, e), NEW j
    PROVE  /\ HeadingAt(page, j, "code") <=> j = PlaceAt(ph) + 1
           /\ HeadingAt(page, j, "parties") <=> j = 20
           /\ HeadingAt(page, j, "inWords") <=> j = 21
           /\ HeadingAt(page, j, "agents") <=> j = 22
           /\ HeadingAt(page, j, "total") <=> j = e[Len(Ballot)] + 1
<1> DEFINE t == e[Len(Ballot)] + 1
           p == PlaceAt(ph)
<1>1. /\ page[p + 1] = Heading("code") /\ page[p + 2] = Heading("name")
      /\ page[20] = Heading("parties") /\ page[21] = Heading("inWords")
      /\ page[22] = Heading("agents") /\ page[t] = Heading("total")
  BY DEF IsA, TextIs, SummaryIs
<1>2. /\ p \in 1..9 /\ t >= 23 /\ t \in Nat
      /\ DOMAIN page = 1..Len(page) /\ Len(page) = t + 2
  BY LastEnd, SummaryPlaces DEF IsA
<1>3. ASSUME page[j].is = "heading", j \in 1..Len(page)
      PROVE  j \in {p + 1, p + 2, 20, 21, 22, t}
  BY <1>3, LineKinds
<1> HIDE DEF t, p
<1>4. ASSUME NEW name PROVE HeadingAt(page, j, name) <=>
                               /\ j \in {p + 1, p + 2, 20, 21, 22, t}
                               /\ page[j] = Heading(name)
  <2>1. ASSUME HeadingAt(page, j, name)
        PROVE  j \in {p + 1, p + 2, 20, 21, 22, t} /\ page[j].of = name
    BY <1>2, <1>3, <2>1 DEF HeadingAt, At
  <2>2. ASSUME j \in {p + 1, p + 2, 20, 21, 22, t}
        PROVE  j \in DOMAIN page /\ page[j] = Heading(page[j].of)
    <3>1. p + 1 \in 1..(t + 2) /\ p + 2 \in 1..(t + 2) /\ 20 \in 1..(t + 2)
          /\ 21 \in 1..(t + 2) /\ 22 \in 1..(t + 2) /\ t \in 1..(t + 2)
      BY <1>2
    <3>2. j \in DOMAIN page
      BY <1>2, <2>2, <3>1
    <3> QED BY <1>1, <2>2, <3>2, KindsAre
  <2> QED BY <2>1, <2>2, KindsAre DEF HeadingAt, At
<1>5. p + 1 # p + 2 /\ p + 1 < 20 /\ p + 2 < 20 /\ t > 22
  BY <1>2
<1>6. \A g, h : Heading(g) = Heading(h) => g = h
  BY KindsAre
<1>7. HeadingAt(page, j, "code") <=> j = p + 1
  BY <1>1, <1>4, <1>6
<1>8. HeadingAt(page, j, "parties") <=> j = 20
  BY <1>1, <1>4, <1>6
<1>9. HeadingAt(page, j, "inWords") <=> j = 21
  BY <1>1, <1>4, <1>6
<1>10. HeadingAt(page, j, "agents") <=> j = 22
  BY <1>1, <1>4, <1>6
<1>11. HeadingAt(page, j, "total") <=> j = t
  BY <1>1, <1>4, <1>6
<1> QED BY <1>7, <1>8, <1>9, <1>10, <1>11 DEF t, p

LEMMA LabelsOfText ==
    ASSUME NEW ph, NEW page, NEW e, IsA(ph, page, e)
    PROVE  Labels(page) = {LabelAt(ph, k) : k \in 1..8}
<1>1. /\ DOMAIN page = 1..Len(page) /\ Len(page) \in Nat /\ Len(page) >= 19
  BY LastEnd
<1>2. \A k \in 1..8 : page[LabelAt(ph, k)] = Label(Boxes[k])
  BY DEF IsA, TextIs, SummaryIs
<1>3. \A k \in 1..8 : LabelAt(ph, k) \in 1..Len(page)
  <2>1. ph.apart \in BOOLEAN
    BY DEF IsA
  <2>2. \A k \in 1..8 : LabelAt(ph, k) \in 1..18
    BY <2>1, SummaryPlaces
  <2>3. \A j \in 1..18 : j \in 1..Len(page)
    BY <1>1
  <2> QED BY <2>2, <2>3
<1>4. ASSUME NEW i \in Labels(page) PROVE \E k \in 1..8 : i = LabelAt(ph, k)
  BY <1>1, LineKinds DEF Labels
<1>5. ASSUME NEW k \in 1..8 PROVE LabelAt(ph, k) \in Labels(page)
  <2> DEFINE i == LabelAt(ph, k)
  <2>1. i \in DOMAIN page /\ page[i].is = "label" /\ i \in Nat
    BY <1>1, <1>2, <1>3, KindsAre, SMTT(30)
  <2>2. ASSUME NEW j \in 1..(i - 1), page[j] = page[i] PROVE FALSE
    <3>1. j \in 1..Len(page) /\ j # i
      <4>1. i \in 1..Len(page)
        BY <1>3
      <4> HIDE DEF i
      <4> QED BY ONLY <1>1, <4>1, j \in 1..(i - 1)
    <3>2. page[j].is = "label"
      BY <2>1, <2>2
    <3>3. PICK m \in 1..8 : j = LabelAt(ph, m)
      BY <3>1, <3>2, LineKinds
    <3>4. Boxes[m] = Boxes[k]
      BY <1>2, <2>2, <3>3, KindsAre
    <3>5. m = k
      BY <3>4, BoxIs
    <3> QED BY <3>1, <3>3, <3>5
  <2> QED BY <2>1, <2>2 DEF Labels
<1> QED BY <1>4, <1>5

LEMMA FormNumbersOfText ==
    ASSUME NEW ph, NEW page, NEW e, IsA(ph, page, e), NEW i \in 1..19
    PROVE  i \in FormNumbers(page) <=> \E k \in 1..8 : i = ValueAt(ph, k)
<1>1. /\ DOMAIN page = 1..Len(page) /\ Len(page) \in Nat /\ Len(page) >= 22
      /\ e[Len(Ballot)] \in Nat /\ e[Len(Ballot)] >= 22
  BY LastEnd
<1>2. \A k \in 1..8 : page[ValueAt(ph, k)] = Number(ValueOf(ph, k)) /\ ValueOf(ph, k) <= MostInBox
  BY DEF IsA, TextIs, SummaryIs, FormNumber
<1>3. page[PlaceAt(ph)] = Number(29)
  BY DEF IsA, TextIs, SummaryIs
<1>4. /\ PlaceAt(ph) \in 1..9
      /\ \A k \in 1..8 : ValueAt(ph, k) \in 5..19 /\ ValueAt(ph, k) > PlaceAt(ph) + 2
  BY SummaryPlaces DEF IsA
<1>5. \A j : HeadingAt(page, j, "code") <=> j = PlaceAt(ph) + 1
  BY HeadingsAre
<1>6. ASSUME NEW k \in 1..8 PROVE ValueAt(ph, k) \in FormNumbers(page)
  <2> DEFINE v == ValueAt(ph, k)
  <2>1. v \in DOMAIN page
    <3>1. v \in 5..19
      BY <1>4
    <3> HIDE DEF v
    <3> QED BY ONLY <1>1, <3>1
  <2>4. page[v].is = "number" /\ page[v].of <= MostInBox
    BY <1>2, KindsAre
  <2>2. v - 1 # PlaceAt(ph) + 1 /\ v + 1 # PlaceAt(ph) + 1
    BY <1>4
  <2>3. ~LooksLikeLocationCode(page, v)
    BY <1>5, <2>2 DEF LooksLikeLocationCode
  <2> QED BY <2>1, <2>3, <2>4 DEF FormNumbers
<1>7. ASSUME i \in FormNumbers(page) PROVE \E k \in 1..8 : i = ValueAt(ph, k)
  <2>1. page[i].is = "number" /\ i \in 1..Len(page)
    BY <1>1, <1>7 DEF FormNumbers
  <2>2. \/ i = PlaceAt(ph) \/ \E k \in 1..8 : i = ValueAt(ph, k)
        \/ \E k \in 1..Len(Ballot) : i = e[k - 1] + 1 \/ i = e[k - 1] + 3
        \/ i = e[Len(Ballot)] + 2
    BY <2>1, LineKinds
  <2>3. i # e[Len(Ballot)] + 2 /\ \A k \in 1..Len(Ballot) : i # e[k - 1] + 1 /\ i # e[k - 1] + 3
    BY LastEnd, SMTT(30)
  <2>4. i # PlaceAt(ph)
    <3>1. ASSUME i = PlaceAt(ph) PROVE FALSE
      <4>1. page[i].of = 29 /\ HeadingAt(page, i + 1, "code")
        BY <1>3, <1>5, <3>1, KindsAre
      <4>2. LooksLikeLocationCode(page, i)
        BY <4>1 DEF LooksLikeLocationCode
      <4> QED BY <1>7, <4>2 DEF FormNumbers
    <3> QED BY <3>1
  <2> QED BY <2>2, <2>3, <2>4
<1> QED BY <1>6, <1>7

-----------------------------------------------------------------------------
(* The boxes are filled from the text: after m labels and k values the     *)
(* labels between are open and the first k boxes have their values.        *)
Filled(ph, k) == [b \in {Boxes[j] : j \in 1..k} |-> ph.sheet.fields[b]]
Filling(ph, m, k, seen) ==
    [open |-> SubSeq(Boxes, k + 1, m), seen |-> seen, fields |-> Filled(ph, k)]

LEMMA OpenBoxes ==
    ASSUME NEW m \in 0..8, NEW k \in 0..m
    PROVE  /\ k = m => SubSeq(Boxes, k + 1, m) = <<>>
           /\ m < 8 => Append(SubSeq(Boxes, k + 1, m), Boxes[m + 1]) = SubSeq(Boxes, k + 1, m + 1)
           /\ k < m => /\ SubSeq(Boxes, k + 1, m) # <<>>
                       /\ Head(SubSeq(Boxes, k + 1, m)) = Boxes[k + 1]
                       /\ Tail(SubSeq(Boxes, k + 1, m)) = SubSeq(Boxes, k + 2, m)
<1>1. Boxes \in Seq(Box) /\ Len(Boxes) = 8
  <2>1. /\ "registeredVoters" \in Box /\ "accreditedVoters" \in Box
        /\ "ballotPapersIssued" \in Box /\ "unusedBallotPapers" \in Box
        /\ "spoiledBallotPapers" \in Box /\ "invalidVotes" \in Box
        /\ "votesCast" \in Box /\ "usedBallotPapers" \in Box
    BY BoxIs
  <2> QED BY <2>1 DEF Boxes
<1>2. \A i \in 1..8 : Boxes[i] \in Box
  BY BoxIs DEF Box
<1>3. k = m => SubSeq(Boxes, k + 1, m) = <<>>
  <2> SUFFICES ASSUME k = m PROVE SubSeq(Boxes, k + 1, m) = <<>>
    OBVIOUS
  <2>1. k + 1 \in Int /\ m \in Int /\ m < k + 1
    OBVIOUS
  <2> QED BY <2>1, SubSeqEmpty
<1>4. m < 8 => Append(SubSeq(Boxes, k + 1, m), Boxes[m + 1]) = SubSeq(Boxes, k + 1, m + 1)
  <2> SUFFICES ASSUME m < 8
               PROVE  Append(SubSeq(Boxes, k + 1, m), Boxes[m + 1]) = SubSeq(Boxes, k + 1, m + 1)
    OBVIOUS
  <2> DEFINE a == SubSeq(Boxes, k + 1, m)
             b == SubSeq(Boxes, k + 1, m + 1)
             x == Boxes[m + 1]
  <2>1. k + 1 \in Int /\ m \in Int /\ m + 1 \in Int /\ m + 1 \in 1..8
    OBVIOUS
  <2>2. (\A i \in (k + 1)..m : Boxes[i] \in Box) /\ \A i \in (k + 1)..(m + 1) : Boxes[i] \in Box
    BY <1>2
  <2>3. /\ a \in Seq(Box) /\ Len(a) = m - k
        /\ \A i \in 1..(m - k) : a[i] = Boxes[k + i]
    <3>1. /\ a \in Seq(Box) /\ Len(a) = (IF k + 1 <= m THEN m - (k + 1) + 1 ELSE 0)
          /\ \A i \in 1..(m - (k + 1) + 1) : a[i] = Boxes[k + 1 + i - 1]
      BY <2>1, <2>2, SubSeqProperties
    <3> HIDE DEF a
    <3> QED BY <3>1
  <2>4. /\ b \in Seq(Box) /\ Len(b) = m + 1 - k
        /\ \A i \in 1..(m + 1 - k) : b[i] = Boxes[k + i]
    <3>1. /\ b \in Seq(Box)
          /\ Len(b) = (IF k + 1 <= m + 1 THEN m + 1 - (k + 1) + 1 ELSE 0)
          /\ \A i \in 1..(m + 1 - (k + 1) + 1) : b[i] = Boxes[k + 1 + i - 1]
      BY <2>1, <2>2, SubSeqProperties
    <3> HIDE DEF b
    <3> QED BY <3>1
  <2>5. x \in Box
    BY <1>2, <2>1
  <2> HIDE DEF a, b
  <2>6. /\ Append(a, x) \in Seq(Box) /\ Len(Append(a, x)) = m - k + 1
        /\ \A i \in 1..(m - k) : Append(a, x)[i] = a[i]
        /\ Append(a, x)[m - k + 1] = x
    BY <2>3, <2>5
  <2>7. \A i \in 1..(m - k + 1) : Append(a, x)[i] = b[i]
    <3> SUFFICES ASSUME NEW i \in 1..(m - k + 1) PROVE Append(a, x)[i] = b[i]
      OBVIOUS
    <3>1. CASE i = m - k + 1
      <4>1. k + i = m + 1 /\ i \in 1..(m + 1 - k)
        BY <3>1
      <4>2. b[i] = Boxes[k + i]
        BY <2>4, <4>1
      <4> QED BY <2>6, <3>1, <4>1, <4>2
    <3>2. CASE i # m - k + 1
      <4>1. i \in 1..(m - k) /\ i \in 1..(m + 1 - k)
        BY <3>2
      <4> QED BY <2>3, <2>4, <2>6, <4>1
    <3> QED BY <3>1, <3>2
  <2>8. Len(Append(a, x)) = Len(b) /\ Len(b) = m - k + 1
    BY <2>4, <2>6
  <2>9. Append(a, x) = b
    BY <2>4, <2>6, <2>7, <2>8, SeqEqual
  <2> QED BY <2>9 DEF a, b
<1>5. k < m => /\ SubSeq(Boxes, k + 1, m) # <<>>
               /\ Head(SubSeq(Boxes, k + 1, m)) = Boxes[k + 1]
               /\ Tail(SubSeq(Boxes, k + 1, m)) = SubSeq(Boxes, k + 2, m)
  <2> SUFFICES ASSUME k < m
               PROVE  /\ SubSeq(Boxes, k + 1, m) # <<>>
                      /\ Head(SubSeq(Boxes, k + 1, m)) = Boxes[k + 1]
                      /\ Tail(SubSeq(Boxes, k + 1, m)) = SubSeq(Boxes, k + 2, m)
    OBVIOUS
  <2>1. k + 1 \in 1..Len(Boxes) /\ m \in (k + 1)..Len(Boxes) /\ k + 1 + 1 = k + 2
    BY <1>1
  <2>2. /\ Head(SubSeq(Boxes, k + 1, m)) = Boxes[k + 1]
        /\ Tail(SubSeq(Boxes, k + 1, m)) = SubSeq(Boxes, k + 1 + 1, m)
    BY <1>1, <2>1, HeadTailOfSubSeq
  <2>3. SubSeq(Boxes, k + 1, m) # <<>>
    <3>1. k + 1 \in Int /\ m \in Int /\ \A i \in (k + 1)..m : Boxes[i] \in Box
      BY <1>2
    <3>2. Len(SubSeq(Boxes, k + 1, m)) = IF k + 1 <= m THEN m - (k + 1) + 1 ELSE 0
      BY <3>1, SubSeqProperties
    <3>3. Len(SubSeq(Boxes, k + 1, m)) # 0
      BY <3>2
    <3> QED BY <3>3, EmptySeq
  <2> QED BY <2>1, <2>2, <2>3
<1> QED BY <1>3, <1>4, <1>5

LEMMA FilledIs ==
    ASSUME NEW ph, DOMAIN ph.sheet.fields = Box, NEW k \in 0..8
    PROVE  /\ k = 0 => Filled(ph, k) = Nothing
           /\ k = 8 => Filled(ph, k) = [b \in Box |-> ph.sheet.fields[b]]
           /\ k < 8 => Over([b \in {Boxes[k + 1]} |-> ValueOf(ph, k + 1)], Filled(ph, k))
                          = Filled(ph, k + 1)
<1>1. k = 0 => Filled(ph, k) = Nothing
  <2>1. \A j \in 1..0 : FALSE
    OBVIOUS
  <2>2. {Boxes[j] : j \in 1..0} = {}
    BY <2>1
  <2> QED BY <2>2 DEF Filled, Nothing
<1>2. k = 8 => Filled(ph, k) = [b \in Box |-> ph.sheet.fields[b]]
  BY BoxIs DEF Filled, Box
<1>3. k < 8 => Over([b \in {Boxes[k + 1]} |-> ValueOf(ph, k + 1)], Filled(ph, k))
                  = Filled(ph, k + 1)
  <2> SUFFICES ASSUME k < 8
               PROVE  Over([b \in {Boxes[k + 1]} |-> ValueOf(ph, k + 1)], Filled(ph, k))
                         = Filled(ph, k + 1)
    OBVIOUS
  <2> DEFINE f == [b \in {Boxes[k + 1]} |-> ValueOf(ph, k + 1)]
             g == Filled(ph, k)
             B == {Boxes[j] : j \in 1..k}
             C == {Boxes[j] : j \in 1..(k + 1)}
  <2>1. DOMAIN f = {Boxes[k + 1]} /\ f[Boxes[k + 1]] = ph.sheet.fields[Boxes[k + 1]]
    BY DEF ValueOf
  <2>2. DOMAIN g = B /\ \A b \in B : g[b] = ph.sheet.fields[b]
    BY DEF Filled
  <2>3. C = B \union {Boxes[k + 1]}
    <3>1. \A j \in 1..(k + 1) : j \in 1..k \/ j = k + 1
      OBVIOUS
    <3>2. \A j \in 1..k : j \in 1..(k + 1)
      OBVIOUS
    <3>3. k + 1 \in 1..(k + 1)
      OBVIOUS
    <3> QED BY <3>1, <3>2, <3>3
  <2>4. Filled(ph, k + 1) = [b \in C |-> ph.sheet.fields[b]]
    BY DEF Filled
  <2> HIDE DEF f, g, B, C
  <2>5. Over(f, g) = [b \in C |-> ph.sheet.fields[b]]
    BY <2>1, <2>2, <2>3 DEF Over
  <2> QED BY <2>4, <2>5 DEF f, g
<1> QED BY <1>1, <1>2, <1>3

LEMMA FillAtLabel ==
    ASSUME NEW ph, NEW page, NEW i \in Labels(page), NEW m \in 0..7, NEW k \in 0..m,
           NEW seen \in BOOLEAN, seen => k = m, page[i].of = Boxes[m + 1]
    PROVE  FillLine(Filling(ph, m, k, seen), page, i) = Filling(ph, m + 1, k, FALSE)
<1> DEFINE a == SubSeq(Boxes, k + 1, m)
           b == SubSeq(Boxes, k + 1, m + 1)
           g == Filled(ph, k)
<1>1. m \in 0..8 /\ m < 8
  OBVIOUS
<1>2. (k = m => a = <<>>) /\ Append(a, Boxes[m + 1]) = b
  BY <1>1, OpenBoxes
<1> HIDE DEF a, b, g
<1>3. Filling(ph, m, k, seen) = [open |-> a, seen |-> seen, fields |-> g]
  BY DEF Filling, a, g
<1>4. Filling(ph, m + 1, k, FALSE) = [open |-> b, seen |-> FALSE, fields |-> g]
  BY DEF Filling, b, g
<1>5. (IF seen THEN <<>> ELSE a) = a
  BY <1>2
<1>6. FillLine([open |-> a, seen |-> seen, fields |-> g], page, i)
         = [open |-> Append(IF seen THEN <<>> ELSE a, page[i].of), seen |-> FALSE, fields |-> g]
  BY DEF FillLine
<1> QED BY <1>2, <1>3, <1>4, <1>5, <1>6

LEMMA FillAtValue ==
    ASSUME NEW ph, DOMAIN ph.sheet.fields = Box,
           NEW page, NEW i \in FormNumbers(page), i \notin Labels(page),
           NEW m \in 0..8, NEW k \in 0..m, k < m,
           NEW seen \in BOOLEAN, page[i].of = ValueOf(ph, k + 1),
           ~TooSmallForField(Boxes[k + 1], ValueOf(ph, k + 1))
    PROVE  FillLine(Filling(ph, m, k, seen), page, i) = Filling(ph, m, k + 1, TRUE)
<1> DEFINE a == SubSeq(Boxes, k + 1, m)
           b == SubSeq(Boxes, k + 2, m)
           g == Filled(ph, k)
           h == Filled(ph, k + 1)
<1>1. a # <<>> /\ Head(a) = Boxes[k + 1] /\ Tail(a) = b
  BY OpenBoxes
<1>2. Over([x \in {Boxes[k + 1]} |-> ValueOf(ph, k + 1)], g) = h
  <2>1. k \in 0..8 /\ k < 8
    OBVIOUS
  <2> QED BY <2>1, FilledIs
<1>3. k + 1 + 1 = k + 2
  OBVIOUS
<1> HIDE DEF a, b, g, h
<1>4. Filling(ph, m, k, seen) = [open |-> a, seen |-> seen, fields |-> g]
  BY DEF Filling, a, g
<1>5. Filling(ph, m, k + 1, TRUE) = [open |-> b, seen |-> TRUE, fields |-> h]
  BY <1>3 DEF Filling, b, h
<1>6. FillLine([open |-> a, seen |-> seen, fields |-> g], page, i)
         = [open |-> Tail(a), seen |-> TRUE,
            fields |-> Over([x \in {Head(a)} |-> page[i].of], g)]
  BY <1>1 DEF FillLine
<1> QED BY <1>1, <1>2, <1>4, <1>5, <1>6

LEMMA FillAtOther ==
    ASSUME NEW ph, NEW page, NEW i, i \notin Labels(page), i \notin FormNumbers(page),
           NEW m, NEW k, NEW seen \in BOOLEAN
    PROVE  FillLine(Filling(ph, m, k, seen), page, i) = Filling(ph, m, k, seen)
<1> DEFINE a == SubSeq(Boxes, k + 1, m)
           g == Filled(ph, k)
<1> HIDE DEF a, g
<1>1. Filling(ph, m, k, seen) = [open |-> a, seen |-> seen, fields |-> g]
  BY DEF Filling, a, g
<1>2. (seen \/ i \in FormNumbers(page)) = seen
  OBVIOUS
<1>3. FillLine([open |-> a, seen |-> seen, fields |-> g], page, i)
         = [open |-> a, seen |-> (seen \/ i \in FormNumbers(page)), fields |-> g]
  BY DEF FillLine
<1> QED BY <1>1, <1>2, <1>3

LEMMA FillWhenFull ==
    ASSUME NEW ph, NEW page, NEW i, i \notin Labels(page)
    PROVE  FillLine(Filling(ph, 8, 8, TRUE), page, i) = Filling(ph, 8, 8, TRUE)
<1> DEFINE g == Filled(ph, 8)
<1>1. SubSeq(Boxes, 8 + 1, 8) = <<>>
  <2>1. \A m \in 0..8 : \A k \in 0..m : k = m => SubSeq(Boxes, k + 1, m) = <<>>
    BY OpenBoxes
  <2> QED BY <2>1
<1> HIDE DEF g
<1>2. Filling(ph, 8, 8, TRUE) = [open |-> <<>>, seen |-> TRUE, fields |-> g]
  BY <1>1 DEF Filling, g
<1>3. FillLine([open |-> <<>>, seen |-> TRUE, fields |-> g], page, i)
         = [open |-> <<>>, seen |-> TRUE, fields |-> g]
  BY DEF FillLine
<1> QED BY <1>2, <1>3

(* How many labels and values stand on the first i lines, and whether a    *)
(* value has been read since the last label.                               *)
LabelsBy(ph, i) ==
    IF ph.apart THEN IF i <= 8 THEN i ELSE 8
    ELSE IF i <= 3 THEN 0 ELSE IF i <= 19 THEN (i - 2) \div 2 ELSE 8
ValuesBy(ph, i) ==
    IF ph.apart THEN IF i <= 11 THEN 0 ELSE IF i <= 19 THEN i - 11 ELSE 8
    ELSE IF i <= 3 THEN 0 ELSE IF i <= 19 THEN (i - 3) \div 2 ELSE 8
SeenBy(ph, i) == ValuesBy(ph, i) > 0 /\ (ph.apart \/ LabelsBy(ph, i) = ValuesBy(ph, i))

FillingAt(ph, i) == Filling(ph, LabelsBy(ph, i), ValuesBy(ph, i), SeenBy(ph, i))

LEMMA CountsType ==
    ASSUME NEW ph, ph.apart \in BOOLEAN, NEW i \in Nat
    PROVE  /\ LabelsBy(ph, i) \in 0..8 /\ ValuesBy(ph, i) \in 0..LabelsBy(ph, i)
           /\ i = 0 => LabelsBy(ph, i) = 0 /\ ValuesBy(ph, i) = 0
           /\ i >= 19 => LabelsBy(ph, i) = 8 /\ ValuesBy(ph, i) = 8
<1>1. CASE ph.apart
  BY <1>1 DEF LabelsBy, ValuesBy, SeenBy
<1>2. CASE ~ph.apart
  <2>1. i >= 19 => i = 19 \/ i > 19
    OBVIOUS
  <2>2. (i - 2) \div 2 \in Int /\ (i - 3) \div 2 \in Int
    OBVIOUS
  <2>3. i \in 4..19 => (i - 2) \div 2 \in 1..8 /\ (i - 3) \div 2 \in 0..((i - 2) \div 2)
    OBVIOUS
  <2>4. (19 - 2) \div 2 = 8 /\ (19 - 3) \div 2 = 8
    OBVIOUS
  <2>5. i = 19 => LabelsBy(ph, i) = 8 /\ ValuesBy(ph, i) = 8
    BY <1>2, <2>4 DEF LabelsBy, ValuesBy
  <2>6. i > 19 => LabelsBy(ph, i) = 8 /\ ValuesBy(ph, i) = 8
    BY <1>2 DEF LabelsBy, ValuesBy
  <2>7. i <= 3 => LabelsBy(ph, i) = 0 /\ ValuesBy(ph, i) = 0
    BY <1>2 DEF LabelsBy, ValuesBy
  <2>8. i \in 4..19 => /\ LabelsBy(ph, i) = (i - 2) \div 2
                       /\ ValuesBy(ph, i) = (i - 3) \div 2
    BY <1>2 DEF LabelsBy, ValuesBy
  <2>9. i <= 3 \/ i \in 4..19 \/ i > 19
    OBVIOUS
  <2>10. LabelsBy(ph, i) \in 0..8 /\ ValuesBy(ph, i) \in 0..LabelsBy(ph, i)
    BY <2>3, <2>6, <2>7, <2>8, <2>9
  <2>11. i = 0 => LabelsBy(ph, i) = 0 /\ ValuesBy(ph, i) = 0
    BY <2>7
  <2> QED BY <2>1, <2>5, <2>6, <2>10, <2>11
<1> QED BY <1>1, <1>2

LEMMA SeenType ==
    ASSUME NEW ph, ph.apart \in BOOLEAN, NEW i
    PROVE  /\ SeenBy(ph, i) = TRUE \/ SeenBy(ph, i) = FALSE
           /\ ValuesBy(ph, i) = 8 /\ LabelsBy(ph, i) = 8 => SeenBy(ph, i) = TRUE
           /\ ValuesBy(ph, i) = 0 => SeenBy(ph, i) = FALSE
BY DEF SeenBy

LEMMA CountsAtLabel ==
    ASSUME NEW ph, ph.apart \in BOOLEAN, NEW k \in 1..8, NEW i, i = LabelAt(ph, k)
    PROVE  /\ LabelsBy(ph, i - 1) = k - 1 /\ LabelsBy(ph, i) = k
           /\ ValuesBy(ph, i) = ValuesBy(ph, i - 1)
           /\ ValuesBy(ph, i) = 0 \/ (~ph.apart /\ ValuesBy(ph, i) = k - 1)
<1>1. CASE ph.apart
  BY <1>1 DEF LabelAt, LabelsBy, ValuesBy, SeenBy
<1>2. CASE ~ph.apart
  <2>1. i = 2 + 2 * k
    BY <1>2 DEF LabelAt
  <2>2. (i - 2) \div 2 = k /\ (i - 3) \div 2 = k - 1 /\ (i - 1 - 2) \div 2 = k - 1
    BY <2>1
  <2>3. (i - 1 - 3) \div 2 = k - 1
    BY <2>1
  <2>4. i \in 4..18 /\ i - 1 \in 3..17
    BY <2>1
  <2>5. LabelsBy(ph, i) = k /\ ValuesBy(ph, i) = k - 1
    BY <1>2, <2>2, <2>4 DEF LabelsBy, ValuesBy
  <2>6. LabelsBy(ph, i - 1) = k - 1 /\ ValuesBy(ph, i - 1) = k - 1
    <3>1. CASE i - 1 = 3
      <4>1. k = 1
        BY <2>1, <3>1
      <4> QED BY <1>2, <3>1, <4>1 DEF LabelsBy, ValuesBy
    <3>2. CASE i - 1 # 3
      <4>1. ~(i - 1 <= 3) /\ i - 1 <= 19
        BY <2>4, <3>2
      <4> QED BY <1>2, <2>2, <2>3, <4>1 DEF LabelsBy, ValuesBy
    <3> QED BY <3>1, <3>2
  <2> QED BY <1>2, <2>5, <2>6 DEF SeenBy
<1> QED BY <1>1, <1>2

LEMMA CountsAtValue ==
    ASSUME NEW ph, ph.apart \in BOOLEAN, NEW k \in 1..8, NEW i, i = ValueAt(ph, k)
    PROVE  /\ ValuesBy(ph, i - 1) = k - 1 /\ ValuesBy(ph, i) = k
           /\ LabelsBy(ph, i) = LabelsBy(ph, i - 1) /\ LabelsBy(ph, i) >= k
           /\ ph.apart \/ LabelsBy(ph, i) = k
<1>1. CASE ph.apart
  BY <1>1 DEF ValueAt, LabelsBy, ValuesBy, SeenBy
<1>2. CASE ~ph.apart
  <2>1. i = 3 + 2 * k
    BY <1>2 DEF ValueAt
  <2>2. (i - 2) \div 2 = k /\ (i - 3) \div 2 = k /\ (i - 1 - 2) \div 2 = k
    BY <2>1
  <2>3. (i - 1 - 3) \div 2 = k - 1
    BY <2>1
  <2>4. ~(i <= 3) /\ i <= 19 /\ ~(i - 1 <= 3) /\ i - 1 <= 19
    BY <2>1
  <2>5. /\ LabelsBy(ph, i) = k /\ ValuesBy(ph, i) = k
        /\ LabelsBy(ph, i - 1) = k /\ ValuesBy(ph, i - 1) = k - 1
    BY <1>2, <2>2, <2>3, <2>4 DEF LabelsBy, ValuesBy
  <2> QED BY <1>2, <2>5 DEF SeenBy
<1> QED BY <1>1, <1>2

LEMMA CountsAtOther ==
    ASSUME NEW ph, ph.apart \in BOOLEAN, NEW i,
           i \in PlaceAt(ph)..(PlaceAt(ph) + 2) \/ (i \in Nat /\ i >= 20)
    PROVE  FillingAt(ph, i) = FillingAt(ph, i - 1)
<1>1. /\ LabelsBy(ph, i) = LabelsBy(ph, i - 1) /\ ValuesBy(ph, i) = ValuesBy(ph, i - 1)
      /\ SeenBy(ph, i) = SeenBy(ph, i - 1)
  <2>1. CASE i \in Nat /\ i >= 20
    <3>1. i \in Nat /\ i - 1 \in Nat /\ i >= 19 /\ i - 1 >= 19
      BY <2>1
    <3>2. /\ LabelsBy(ph, i) = 8 /\ ValuesBy(ph, i) = 8
          /\ LabelsBy(ph, i - 1) = 8 /\ ValuesBy(ph, i - 1) = 8
      BY <3>1, CountsType
    <3> QED BY <3>2 DEF SeenBy
  <2>2. CASE i \in PlaceAt(ph)..(PlaceAt(ph) + 2)
    BY <2>2 DEF PlaceAt, LabelsBy, ValuesBy, SeenBy
  <2> QED BY <2>1, <2>2
<1> QED BY <1>1 DEF FillingAt

LEMMA FillStep ==
    ASSUME NEW ph, NEW page, NEW e, IsA(ph, page, e), NEW i \in 1..Len(page)
    PROVE  FillingAt(ph, i) = FillLine(FillingAt(ph, i - 1), page, i)
<1> DEFINE m == LabelsBy(ph, i - 1)
           k == ValuesBy(ph, i - 1)
           seen == SeenBy(ph, i - 1)
<1>1. ph.apart \in BOOLEAN /\ ph.sheet.fields \in [Box -> Nat] /\ i \in Nat /\ i - 1 \in Nat
  BY LastEnd DEF IsA, FormNumber
<1>2. m \in 0..8 /\ k \in 0..m
  BY <1>1, CountsType
<1>13. seen \in BOOLEAN
  <2>1. seen = TRUE \/ seen = FALSE
    BY <1>1, SeenType
  <2> HIDE DEF seen
  <2> QED BY <2>1
<1>3. FillingAt(ph, i - 1) = Filling(ph, m, k, seen)
  BY DEF FillingAt
<1>4. Labels(page) = {LabelAt(ph, j) : j \in 1..8}
  BY LabelsOfText
<1>5. \A j \in 1..8 : /\ page[LabelAt(ph, j)] = Label(Boxes[j])
                      /\ page[ValueAt(ph, j)] = Number(ValueOf(ph, j))
  BY DEF IsA, TextIs, SummaryIs
<1>6. /\ PlaceAt(ph) \in 1..9
      /\ \A j \in 1..8 : /\ LabelAt(ph, j) \in 1..18 /\ ValueAt(ph, j) \in 5..19
                         /\ ValueAt(ph, j) > PlaceAt(ph) + 2
                         /\ LabelAt(ph, j) \notin PlaceAt(ph)..(PlaceAt(ph) + 2)
      /\ \A j, l \in 1..8 : LabelAt(ph, j) # ValueAt(ph, l)
  BY <1>1, SummaryPlaces
<1> HIDE DEF m, k, seen
<1>7. CASE \E j \in 1..8 : i = LabelAt(ph, j)
  <2>1. PICK j \in 1..8 : i = LabelAt(ph, j)
    BY <1>7
  <2>2. /\ m = j - 1 /\ LabelsBy(ph, i) = j /\ ValuesBy(ph, i) = k
        /\ SeenBy(ph, i) = FALSE /\ (k = j - 1 \/ seen = FALSE)
    <3>1. /\ LabelsBy(ph, i - 1) = j - 1 /\ LabelsBy(ph, i) = j
          /\ ValuesBy(ph, i) = ValuesBy(ph, i - 1)
          /\ ValuesBy(ph, i) = 0 \/ (~ph.apart /\ ValuesBy(ph, i) = j - 1)
      BY <1>1, <2>1, CountsAtLabel
    <3>2. SeenBy(ph, i) = FALSE
      BY <3>1 DEF SeenBy
    <3>3. ValuesBy(ph, i - 1) = 0 => SeenBy(ph, i - 1) = FALSE
      BY DEF SeenBy
    <3> QED BY <3>1, <3>2, <3>3 DEF m, k, seen
  <2>3. m \in 0..7 /\ m + 1 = j /\ (seen => k = m)
    BY <2>2
  <2>4. page[i].of = Boxes[m + 1] /\ i \in Labels(page)
    BY <1>4, <1>5, <2>1, <2>3, KindsAre
  <2>5. FillLine(Filling(ph, m, k, seen), page, i) = Filling(ph, m + 1, k, FALSE)
    BY <1>2, <1>13, <2>3, <2>4, FillAtLabel
  <2>6. FillingAt(ph, i) = Filling(ph, m + 1, k, FALSE)
    BY <2>2, <2>3 DEF FillingAt
  <2> QED BY <1>3, <2>5, <2>6
<1>8. CASE \E j \in 1..8 : i = ValueAt(ph, j)
  <2>1. PICK j \in 1..8 : i = ValueAt(ph, j)
    BY <1>8
  <2>2. /\ k = j - 1 /\ ValuesBy(ph, i) = j /\ LabelsBy(ph, i) = m /\ m >= j
        /\ SeenBy(ph, i) = TRUE
    <3>1. /\ ValuesBy(ph, i - 1) = j - 1 /\ ValuesBy(ph, i) = j
          /\ LabelsBy(ph, i) = LabelsBy(ph, i - 1) /\ LabelsBy(ph, i) >= j
          /\ ph.apart \/ LabelsBy(ph, i) = j
      BY <1>1, <2>1, CountsAtValue
    <3>2. SeenBy(ph, i) = TRUE
      BY <3>1 DEF SeenBy
    <3> QED BY <3>1, <3>2 DEF m, k
  <2>3. k + 1 = j /\ k < m
    BY <1>2, <2>2
  <2>4. page[i].of = ValueOf(ph, k + 1) /\ i \notin Labels(page)
    BY <1>4, <1>5, <1>6, <2>1, <2>3, KindsAre, SMTT(30)
  <2>5. i \in FormNumbers(page)
    <3>1. i \in 1..19
      BY <1>6, <2>1, SMTT(30)
    <3> QED BY <2>1, <3>1, FormNumbersOfText
  <2>6. ~TooSmallForField(Boxes[k + 1], ValueOf(ph, k + 1))
    BY <2>3 DEF IsA, FormNumber
  <2>7. DOMAIN ph.sheet.fields = Box
    BY <1>1
  <2>8. FillLine(Filling(ph, m, k, seen), page, i) = Filling(ph, m, k + 1, TRUE)
    BY <1>2, <1>13, <2>3, <2>4, <2>5, <2>6, <2>7, FillAtValue, ZenonT(60)
  <2>9. FillingAt(ph, i) = Filling(ph, m, k + 1, TRUE)
    BY <2>2, <2>3 DEF FillingAt
  <2> QED BY <1>3, <2>8, <2>9
<1>9. CASE i \in PlaceAt(ph)..(PlaceAt(ph) + 2)
  <2>5. \A j \in 1..8 : i # LabelAt(ph, j) /\ i # ValueAt(ph, j)
    BY <1>6, <1>9
  <2>6. i \in 1..19
    BY <1>6, <1>9
  <2>1. i \in 1..19 /\ i \notin Labels(page) /\ \A j \in 1..8 : i # ValueAt(ph, j)
    BY <1>4, <2>5, <2>6
  <2>2. i \notin FormNumbers(page)
    BY <2>1, FormNumbersOfText
  <2>3. FillLine(Filling(ph, m, k, seen), page, i) = Filling(ph, m, k, seen)
    BY <1>13, <2>1, <2>2, FillAtOther
  <2>4. FillingAt(ph, i) = FillingAt(ph, i - 1)
    BY <1>1, <1>9, CountsAtOther
  <2> QED BY <1>3, <2>3, <2>4
<1>10. CASE i >= 20
  <2>1. m = 8 /\ k = 8 /\ seen = TRUE
    <3>1. i - 1 >= 19
      BY <1>1, <1>10
    <3>2. LabelsBy(ph, i - 1) = 8 /\ ValuesBy(ph, i - 1) = 8
      BY <1>1, <3>1, CountsType
    <3>3. SeenBy(ph, i - 1) = TRUE
      BY <3>2 DEF SeenBy
    <3> QED BY <3>2, <3>3 DEF m, k, seen
  <2>5. \A j \in 1..8 : i # LabelAt(ph, j)
    <3> SUFFICES ASSUME NEW j \in 1..8 PROVE i # LabelAt(ph, j)
      OBVIOUS
    <3>1. LabelAt(ph, j) \in 1..18
      BY <1>6
    <3>2. i \notin 1..18
      BY <1>10
    <3> QED BY <3>1, <3>2
  <2>2. i \notin Labels(page)
    BY <1>4, <2>5
  <2>3. FillLine(Filling(ph, m, k, seen), page, i) = Filling(ph, m, k, seen)
    BY <2>1, <2>2, FillWhenFull
  <2>4. FillingAt(ph, i) = FillingAt(ph, i - 1)
    BY <1>1, <1>10, CountsAtOther, SMTT(30)
  <2> QED BY <1>3, <2>3, <2>4
<1>11. i < 20 => InSummary(ph, i)
  <2>1. i < 20 => i \in 1..19
    BY <1>1, SMTT(30)
  <2> QED BY <1>1, <2>1, SummaryLines, SMTT(30)
<1>12. i < 20 \/ i >= 20
  BY <1>1
<1> QED BY <1>6, <1>7, <1>8, <1>9, <1>10, <1>11, <1>12 DEF InSummary

(* Every box is filled, with its value. *)
LEMMA BoxesRead ==
    ASSUME NEW ph, NEW page, NEW e, IsA(ph, page, e)
    PROVE  AssignClusteredFields(page) = ph.sheet.fields
<1> DEFINE n == Len(page)
           start == [open |-> <<>>, seen |-> FALSE, fields |-> Nothing]
           Fills(f) == f = [i \in 0..n |-> IF i = 0 THEN start ELSE FillLine(f[i - 1], page, i)]
           h == [i \in 0..n |-> FillingAt(ph, i)]
           r == CHOOSE f : Fills(f)
<1>1. n \in Nat /\ n >= 19 /\ ph.apart \in BOOLEAN
  BY LastEnd DEF IsA
<1>2. ph.sheet.fields \in [Box -> Nat]
  BY DEF IsA, FormNumber
<1>3. \A i \in 1..n : FillingAt(ph, i) = FillLine(FillingAt(ph, i - 1), page, i)
  BY FillStep
<1>4. AssignClusteredFields(page) = r[n].fields
  BY DEF AssignClusteredFields
<1> HIDE DEF n
<1>5. FillingAt(ph, 0) = start
  <2>1. 0 \in Nat /\ 0 \in 0..8 /\ 0 \in 0..0
    OBVIOUS
  <2>5. LabelsBy(ph, 0) = 0 /\ ValuesBy(ph, 0) = 0
    BY <1>1, <2>1, CountsType
  <2>2. LabelsBy(ph, 0) = 0 /\ ValuesBy(ph, 0) = 0 /\ SeenBy(ph, 0) = FALSE
    BY <2>5 DEF SeenBy
  <2>3. SubSeq(Boxes, 0 + 1, 0) = <<>>
    BY <2>1, OpenBoxes
  <2>4. Filled(ph, 0) = Nothing
    BY <1>2, <2>1, FilledIs
  <2> QED BY <2>2, <2>3, <2>4 DEF FillingAt, Filling
<1>6. Fills(h)
  <2>1. ASSUME NEW i \in 0..n
        PROVE  FillingAt(ph, i) = IF i = 0 THEN start ELSE FillLine(h[i - 1], page, i)
    <3>1. CASE i = 0
      BY <1>5, <3>1
    <3>2. CASE i # 0
      <4>1. i \in 1..n /\ i - 1 \in 0..n
        BY <1>1, <3>2
      <4> QED BY <1>3, <3>2, <4>1
    <3> QED BY <3>1, <3>2
  <2> QED BY <2>1
<1> HIDE DEF h, start
<1>7. Fills(r)
  BY <1>6
<1> HIDE DEF r
<1> DEFINE G == {i \in 0..n : r[i] = FillingAt(ph, i)}
<1>8. 0 \in G
  BY <1>1, <1>5, <1>7
<1>9. ASSUME NEW i \in G, i < n PROVE i + 1 \in G
  <2>1. PICK j \in 1..n : j = i + 1
    BY <1>1, <1>9
  <2>2. j \in 0..n /\ j # 0 /\ j - 1 = i
    BY <2>1
  <2>3. r[j] = FillLine(r[j - 1], page, j)
    BY <1>7, <2>2
  <2>4. r[j - 1] = FillingAt(ph, j - 1)
    BY <2>2
  <2>5. r[j] = FillingAt(ph, j)
    BY <1>3, <2>3, <2>4
  <2> QED BY <2>1, <2>2, <2>5
<1> HIDE DEF G
<1>10. G \in SUBSET (0..n)
  BY DEF G
<1>11. n \in G
  <2>1. G = 0..n
    BY <1>1, <1>8, <1>9, <1>10, Climb
  <2> QED BY <1>1, <2>1
<1>12. r[n] = FillingAt(ph, n)
  BY <1>11 DEF G
<1>13. r[n].fields = Filled(ph, 8)
  <2>1. LabelsBy(ph, n) = 8 /\ ValuesBy(ph, n) = 8
    BY <1>1, CountsType
  <2> QED BY <1>12, <2>1 DEF FillingAt, Filling
<1>14. Filled(ph, 8) = [b \in Box |-> ph.sheet.fields[b]]
  BY <1>2, FilledIs
<1> QED BY <1>2, <1>4, <1>13, <1>14

(* With all boxes read, nothing more is looked for, and the sums of the    *)
(* form leave everything as it is.                                         *)
LEMMA OverNothing ==
    ASSUME NEW D, NEW R, NEW f \in [D -> R], NEW g, DOMAIN g = {}
    PROVE  Over(f, g) = f /\ Over(g, f) = f
BY DEF Over

LEMMA PatternsKeep ==
    ASSUME NEW ph, NEW page, NEW e, IsA(ph, page, e), NEW fields \in [Box -> Nat]
    PROVE  ApplyPatternFields(page, fields) = fields
<1> DEFINE table == Headings(page, "parties")
           after(l) == FormNumbers(SubSeq(page, l + 1, l + Near))
           useful(l) == page[l + Min(after(l))].of
           labels == {l \in Labels(page) :
                        /\ page[l].of \notin DOMAIN fields
                        /\ \A h \in table : l < Min(table)
                        /\ after(l) # {}
                        /\ ~TooSmallForField(page[l].of, useful(l))}
           found == [b \in {page[l].of : l \in labels} |->
                        useful(CHOOSE l \in labels : page[l].of = b)]
<1>1. ApplyPatternFields(page, fields) = Over(fields, found)
  BY DEF ApplyPatternFields
<1>2. \A l \in Labels(page) : page[l].of \in Box
  <2>1. Labels(page) = {LabelAt(ph, k) : k \in 1..8}
    BY LabelsOfText
  <2>2. \A k \in 1..8 : page[LabelAt(ph, k)] = Label(Boxes[k])
    BY DEF IsA, TextIs, SummaryIs
  <2>3. \A k \in 1..8 : Boxes[k] \in Box
    BY BoxIs DEF Box
  <2> QED BY <2>1, <2>2, <2>3, KindsAre
<1>3. labels = {}
  BY <1>2
<1> HIDE DEF labels
<1>4. DOMAIN found = {}
  BY <1>3
<1> HIDE DEF found
<1> QED BY <1>1, <1>4, OverNothing

LEMMA SheetIsFinal ==
    ASSUME NEW votes, DOMAIN votes = Code, \A c \in Code : votes[c] \in Nat,
           NEW rejected \in Nat, NEW s, s = Sheet(votes, rejected)
    PROVE  Extract(s.fields, s.parties) = [fields |-> s.fields, parties |-> s.parties,
                                           sure |-> TRUE, unreadable |-> FALSE]
<1> DEFINE f == s.fields
           valid == Total(votes)
<1>1. valid \in Nat
  BY TotalType
<1>2. /\ s.parties = votes /\ DOMAIN f = Box
      /\ f["spoiledBallotPapers"] = 10 /\ f["invalidVotes"] = rejected /\ f["votesCast"] = valid
      /\ f["usedBallotPapers"] = valid + rejected + 10
  BY SheetHolds
<1> HIDE DEF f, valid
<1>3. /\ "votesCast" \in Box /\ "usedBallotPapers" \in Box /\ "accreditedVoters" \in Box
      /\ "ballotPapersIssued" \in Box /\ "spoiledBallotPapers" \in Box /\ "invalidVotes" \in Box
  BY BoxIs
<1>4. ReconcileExtract(f, votes) = f
  <2>1. OrZero(f, "votesCast") = valid
    BY <1>2, <1>3 DEF OrZero
  <2>2. ~(valid >= 10 /\ valid < 10)
    BY <1>1
  <2> DEFINE sum == Total(votes)
             f1 == Fill(f, "votesCast", /\ votes # Nothing /\ sum >= 10
                                        /\ OrZero(f, "votesCast") < 10, sum)
             f2 == Fill(f1, "usedBallotPapers",
                        "votesCast" \in DOMAIN f1 /\ "usedBallotPapers" \notin DOMAIN f1,
                        OrZero(f1, "spoiledBallotPapers") + OrZero(f1, "invalidVotes")
                           + OrZero(f1, "votesCast"))
             f3 == Fill(f2, "usedBallotPapers",
                        "accreditedVoters" \in DOMAIN f2 /\ "usedBallotPapers" \notin DOMAIN f2,
                        OrZero(f2, "accreditedVoters"))
             f4 == Fill(f3, "ballotPapersIssued",
                        /\ "ballotPapersIssued" \notin DOMAIN f3
                        /\ {"usedBallotPapers", "unusedBallotPapers"} \subseteq DOMAIN f3,
                        OrZero(f3, "usedBallotPapers") + OrZero(f3, "unusedBallotPapers"))
  <2>3. ReconcileExtract(f, votes) = f4
    BY DEF ReconcileExtract
  <2>4. f1 = f
    BY <2>1, <2>2 DEF Fill, valid
  <2> HIDE DEF f1
  <2>5. f2 = f
    BY <1>2, <1>3, <2>4 DEF Fill
  <2> HIDE DEF f2
  <2>6. f3 = f
    BY <1>2, <1>3, <2>5 DEF Fill
  <2> HIDE DEF f3
  <2>7. f4 = f
    BY <1>2, <1>3, <2>6 DEF Fill
  <2> QED BY <2>3, <2>7
<1>5. Cardinality(DOMAIN f) + Cardinality(DOMAIN votes) > 0
  <2>1. Cardinality(Code) = Len(Ballot) /\ Len(Ballot) \in Nat
    BY CodesFinite
  <2>2. Cardinality(Box) = 8
    <3>1. Boxes \in Bijection(1..8, Box)
      <4>1. Boxes \in [1..8 -> Box]
        BY BoxIs DEF Box, Boxes
      <4>2. \A b \in Box : \E k \in 1..8 : Boxes[k] = b
        BY BoxIs DEF Box
      <4>3. IsInjective(Boxes)
        BY BoxIs DEF IsInjective
      <4> QED BY <4>1, <4>2, <4>3 DEF Bijection, Injection, Surjection
    <3>2. 8 \in Nat
      OBVIOUS
    <3>3. IsFiniteSet(1..8) /\ Cardinality(1..8) = 8
      BY <3>2, UpTo
    <3> QED BY <3>1, <3>3, FS_Bijection DEF ExistsBijection
  <2> QED BY <1>2, <2>1, <2>2
<1>6. f["usedBallotPapers"] = f["spoiledBallotPapers"] + f["invalidVotes"] + f["votesCast"]
  BY <1>1, <1>2
<1>7. {"usedBallotPapers", "spoiledBallotPapers", "invalidVotes", "votesCast"} \subseteq DOMAIN f
  BY <1>2, <1>3
<1>8. FinishExtract(f, votes) = [fields |-> f, parties |-> votes, sure |-> TRUE,
                                 unreadable |-> FALSE]
  BY <1>5, <1>6, <1>7 DEF FinishExtract
<1> QED BY <1>2, <1>4, <1>8 DEF Extract, f

-----------------------------------------------------------------------------
(* The party table of a form's text: a row for each party, with its votes  *)
(* where they are legible in figures and unlike a serial.                  *)
LEMMA MinIs ==
    ASSUME NEW S \in SUBSET Int, NEW x \in S, \A y \in S : x <= y
    PROVE  Min(S) = x
<1>1. \A z \in S : (\A y \in S : z <= y) => z = x
  <2> SUFFICES ASSUME NEW z \in S, \A y \in S : z <= y PROVE z = x
    OBVIOUS
  <2>1. z <= x /\ x <= z /\ x \in Int /\ z \in Int
    OBVIOUS
  <2> QED BY <2>1
<1> DEFINE Least(z) == \A y \in S : z <= y
<1>2. Least(x) /\ \A z \in S : Least(z) => z = x
  BY <1>1
<1> HIDE DEF Least
<1>3. (CHOOSE z \in S : Least(z)) = x
  BY <1>2
<1> QED BY <1>3 DEF Min, Least

LEMMA MaxIs ==
    ASSUME NEW S \in SUBSET Int, NEW x \in S, \A y \in S : x >= y
    PROVE  Max(S) = x
<1>1. \A z \in S : (\A y \in S : z >= y) => z = x
  <2> SUFFICES ASSUME NEW z \in S, \A y \in S : z >= y PROVE z = x
    OBVIOUS
  <2>1. z >= x /\ x >= z /\ x \in Int /\ z \in Int
    OBVIOUS
  <2> QED BY <2>1
<1> DEFINE Greatest(z) == \A y \in S : z >= y
<1>2. Greatest(x) /\ \A z \in S : Greatest(z) => z = x
  BY <1>1
<1> HIDE DEF Greatest
<1>3. (CHOOSE z \in S : Greatest(z)) = x
  BY <1>2
<1> QED BY <1>3 DEF Max, Greatest

LEMMA TotalIs ==
    ASSUME NEW ph, NEW page, NEW e, IsA(ph, page, e), NEW from \in 20..22
    PROVE  TotalAfter(page, from) = e[Len(Ballot)] + 1
<1> DEFINE t == e[Len(Ballot)] + 1
           S == {Len(page) + 1} \union
                {i \in (from + 1)..Len(page) : \/ HeadingAt(page, i, "total")
                                              \/ page[i] = Label("votesCast")}
<1>1. t \in Nat /\ t >= 23 /\ Len(page) = t + 2
  BY LastEnd
<1>2. \A i : HeadingAt(page, i, "total") <=> i = t
  BY HeadingsAre
<1>3. ASSUME NEW i \in (from + 1)..Len(page), page[i] = Label("votesCast") PROVE FALSE
  <2>1. i \in 1..Len(page) /\ i > 20
    BY <1>1
  <2>2. page[i].is = "label"
    BY <1>3, KindsAre
  <2>3. PICK k \in 1..8 : i = LabelAt(ph, k)
    BY <2>1, <2>2, LineKinds
  <2>4. LabelAt(ph, k) \in 1..18
    BY SummaryPlaces DEF IsA
  <2> QED BY <2>1, <2>3, <2>4, SMTT(30)
<1> HIDE DEF t
<1>4. S = {t + 3, t}
  <2>1. t \in (from + 1)..Len(page) /\ Len(page) + 1 = t + 3
    BY <1>1
  <2> QED BY <1>2, <1>3, <2>1
<1>5. Min(S) = t
  <2>1. S \in SUBSET Int /\ t \in S /\ \A y \in S : t <= y
    BY <1>1, <1>4
  <2> QED BY <2>1, MinIs
<1>6. TotalAfter(page, from) = Min(S)
  BY DEF TotalAfter
<1> QED BY <1>5, <1>6 DEF t

(* The text up to where the total is. *)
BlockIs(page, block, m) ==
    block \in Seq(Line) /\ DOMAIN block = 1..m /\ Len(block) = m /\ \A i \in 1..m : block[i] = page[i]

LEMMA BlockHolds ==
    ASSUME NEW ph, NEW page, NEW e, IsA(ph, page, e), NEW from \in 20..22
    PROVE  BlockIs(page, SubSeq(page, 1, TotalAfter(page, from) - 1), e[Len(Ballot)])
<1> DEFINE m == e[Len(Ballot)]
           block == SubSeq(page, 1, m)
<1>1. m \in Nat /\ Len(page) = m + 3 /\ page \in Seq(Line)
  BY LastEnd DEF IsA, TextIs
<1>2. TotalAfter(page, from) = m + 1
  BY TotalIs
<1> HIDE DEF m
<1>3. TotalAfter(page, from) - 1 = m
  BY <1>1, <1>2
<1>4. block \in Seq(Line) /\ Len(block) = m /\ \A i \in 1..m : block[i] = page[i]
  <2>1. 1 \in Int /\ m \in Int /\ \A i \in 1..m : page[i] \in Line
    BY <1>1
  <2>2. /\ block \in Seq(Line) /\ Len(block) = (IF 1 <= m THEN m - 1 + 1 ELSE 0)
        /\ \A i \in 1..(m - 1 + 1) : block[i] = page[1 + i - 1]
    BY <2>1, SubSeqProperties
  <2> HIDE DEF block
  <2>3. Len(block) = m
    BY <1>1, <2>2
  <2>4. ASSUME NEW i \in 1..m PROVE block[i] = page[i]
    <3>1. i \in 1..(m - 1 + 1) /\ 1 + i - 1 = i
      BY <1>1
    <3>2. block[i] = page[1 + i - 1]
      BY <2>2, <3>1
    <3> QED BY <3>1, <3>2
  <2> QED BY <2>2, <2>3, <2>4
<1>5. DOMAIN block = 1..m
  BY <1>4
<1> HIDE DEF block
<1>6. BlockIs(page, block, m)
  BY <1>4, <1>5 DEF BlockIs
<1> QED BY <1>3, <1>6 DEF block, m

(* No figure of the form begins a row with its word. *)
RowsPlain(ph) == \A c \in Code : ~SeemsRow(ph, c)

LEMMA RowLines ==
    ASSUME NEW ph, NEW page, NEW e, IsA(ph, page, e), RowsPlain(ph),
           NEW block, BlockIs(page, block, e[Len(Ballot)]), NEW i \in 20..e[Len(Ballot)]
    PROVE  /\ At(block, i, "number") /\ block[i].of \in 1..30
           /\ i + 1 \in DOMAIN block /\ IsPartyCode(block[i + 1])
           <=> \E k \in 1..Len(Ballot) : i = e[k - 1] + 1
<1> DEFINE n == Len(Ballot)
<1>1. /\ n \in Nat /\ e[n] \in Nat /\ Len(page) = e[n] + 3
      /\ \A k \in 1..n : /\ e[k - 1] \in Nat /\ e[k - 1] >= 22 /\ e[k] \in Nat
                         /\ e[k] = e[k - 1] + RowSize(ph, k) /\ e[k] <= e[n]
  BY LastEnd
<1>2. \A k \in 1..n : RowIs(ph, page, e, k)
  BY DEF IsA, TextIs
<1>3. DOMAIN block = 1..e[n] /\ \A j \in 1..e[n] : block[j] = page[j]
  BY DEF BlockIs
<1>4. n <= 20
  BY FormAssumption
<1>7. i \in Nat
  BY <1>1
<1> HIDE DEF n
<1>5. ASSUME At(block, i, "number"), block[i].of \in 1..30,
             i + 1 \in DOMAIN block, IsPartyCode(block[i + 1])
      PROVE  \E k \in 1..n : i = e[k - 1] + 1
  <2>1. i \in 1..e[n] /\ i + 1 \in 1..e[n] /\ page[i].is = "number" /\ page[i].of \in 1..30
        /\ IsPartyCode(page[i + 1])
    BY <1>3, <1>5 DEF At
  <2>2. i + 1 \in 1..Len(page)
    BY <1>1, <1>3, <2>1
  <2>3. CASE page[i + 1].is = "code"
    <3>1. PICK k \in 1..n : i + 1 = e[k - 1] + 2
      BY <2>2, <2>3, LineKinds DEF n
    <3>2. e[k - 1] \in Nat
      BY <1>1
    <3>3. i = e[k - 1] + 1
      BY <1>7, <3>1, <3>2
    <3> QED BY <3>3
  <2>4. CASE page[i + 1].is # "code"
    <3>1. page[i + 1].is = "words"
      BY <2>1, <2>4 DEF IsPartyCode
    <3>2. PICK k \in 1..n : Worded(ph, k) /\ i + 1 = e[k]
      <4>1. i + 1 # e[n] + 3
        BY <1>1, <2>1
      <4> QED BY <2>2, <3>1, <4>1, LineKinds DEF n
    <3>3. /\ page[e[k - 1] + 2] = PartyCode(Ballot[k])
          /\ InFigures(ph, k) => page[e[k - 1] + 3] = Number(VotesIn(ph, k))
          /\ page[i + 1] = InWords(WordsOf(VotesIn(ph, k), TRUE))
      BY <1>2, <3>2 DEF RowIs
    <3>4. e[k - 1] \in Nat /\ e[k] = e[k - 1] + RowSize(ph, k)
      BY <1>1
    <3>5. CASE InFigures(ph, k)
      <4>1. RowSize(ph, k) = 4
        BY <3>2, <3>5 DEF RowSize
      <4>2. i = e[k - 1] + 3
        BY <1>7, <3>2, <3>4, <4>1
      <4>3. page[i].of = VotesIn(ph, k)
        BY <3>3, <3>5, <4>2, KindsAre
      <4>4. Ballot[k] \in Code
        BY CodesFinite DEF Code, n
      <4>5. SeemsRow(ph, Ballot[k])
        BY <2>1, <3>2, <3>3, <3>5, <4>3 DEF SeemsRow, VotesIn, InFigures, Worded
      <4> QED BY <4>4, <4>5 DEF RowsPlain
    <3>6. CASE ~InFigures(ph, k)
      <4>1. RowSize(ph, k) = 3
        BY <3>2, <3>6 DEF RowSize
      <4>2. i = e[k - 1] + 2
        BY <1>7, <3>2, <3>4, <4>1
      <4>3. page[i].is = "code"
        BY <3>3, <4>2, KindsAre
      <4> QED BY <2>1, <4>3
    <3> QED BY <3>5, <3>6
  <2> QED BY <2>3, <2>4
<1>6. ASSUME NEW k \in 1..n, i = e[k - 1] + 1
      PROVE  /\ At(block, i, "number") /\ block[i].of \in 1..30
             /\ i + 1 \in DOMAIN block /\ IsPartyCode(block[i + 1])
  <2>1. page[e[k - 1] + 1] = Number(k) /\ page[e[k - 1] + 2] = PartyCode(Ballot[k])
    BY <1>2 DEF RowIs
  <2>2. RowSize(ph, k) \in 2..4
    BY RowSizes
  <2>3. e[k - 1] + 1 \in 1..e[n] /\ e[k - 1] + 2 \in 1..e[n] /\ i + 1 = e[k - 1] + 2
    <3>1. /\ e[k - 1] \in Nat /\ e[k] \in Nat /\ e[n] \in Nat /\ e[k] <= e[n]
          /\ e[k] = e[k - 1] + RowSize(ph, k)
      BY <1>1
    <3> DEFINE x == e[k - 1]
               y == e[k]
               z == e[n]
               size == RowSize(ph, k)
    <3>2. x \in Nat /\ y \in Nat /\ z \in Nat /\ y <= z /\ y = x + size /\ size \in 2..4
      BY <2>2, <3>1
    <3>3. i = x + 1
      BY <1>6
    <3> HIDE DEF x, y, z, size
    <3>4. x + 1 \in 1..z /\ x + 2 \in 1..z /\ i + 1 = x + 2
      BY <3>2, <3>3
    <3> QED BY <3>4 DEF x, z
  <2>4. block[i] = Number(k) /\ block[i + 1] = PartyCode(Ballot[k])
    BY <1>3, <1>6, <2>1, <2>3
  <2>5. k \in 1..30
    BY <1>1, <1>4
  <2>6. i \in DOMAIN block /\ i + 1 \in DOMAIN block
    BY <1>3, <1>6, <2>3
  <2>7. block[i].is = "number" /\ block[i].of = k /\ block[i + 1].is = "code"
    BY <2>4, KindsAre
  <2> QED BY <2>5, <2>6, <2>7 DEF At, IsPartyCode
<1> QED BY <1>5, <1>6 DEF n

TableVotes(ph, k) ==
    IF InFigures(ph, k) /\ VotesIn(ph, k) \notin {k, k + 1} THEN VotesIn(ph, k) ELSE NoVotes

LEMMA RowVotesAre ==
    ASSUME NEW ph, NEW page, NEW e, IsA(ph, page, e),
           NEW block, BlockIs(page, block, e[Len(Ballot)]), NEW k \in 1..Len(Ballot)
    PROVE  VotesOfRow(block, e[k - 1] + 1) = TableVotes(ph, k)
<1> DEFINE n == Len(Ballot)
           i == e[k - 1] + 1
<1>1. /\ n \in Nat /\ e[n] \in Nat /\ Len(page) = e[n] + 3
      /\ e[k - 1] \in Nat /\ e[k] \in Nat /\ e[k] = e[k - 1] + RowSize(ph, k) /\ e[k] <= e[n]
  BY LastEnd
<1>2. RowIs(ph, page, e, k)
  BY DEF IsA, TextIs
<1>3. DOMAIN block = 1..e[n] /\ \A j \in 1..e[n] : block[j] = page[j]
  BY DEF BlockIs
<1>4. RowSize(ph, k) \in 2..4
  BY RowSizes
<1>5. i \in 1..e[n] /\ i + 2 = e[k - 1] + 3
  BY <1>1, <1>4, SMTT(30)
<1>6. block[i] = Number(k)
  BY <1>2, <1>3, <1>5 DEF RowIs
<1>7. block[i].of = k
  BY <1>6, KindsAre
<1>8. VotesOfRow(block, i) =
          IF At(block, e[k - 1] + 3, "number") /\ block[e[k - 1] + 3].of \notin {k, k + 1}
          THEN block[e[k - 1] + 3].of ELSE NoVotes
  BY <1>5, <1>7 DEF VotesOfRow
<1>9. CASE InFigures(ph, k)
  <2>1. e[k - 1] + 3 \in 1..e[n]
    <3>1. RowSize(ph, k) >= 3
      BY <1>9, RowSizes
    <3> QED BY <1>1, <1>4, <3>1
  <2>2. block[e[k - 1] + 3] = Number(VotesIn(ph, k))
    BY <1>2, <1>3, <1>9, <2>1 DEF RowIs
  <2>3. At(block, e[k - 1] + 3, "number") /\ block[e[k - 1] + 3].of = VotesIn(ph, k)
    BY <1>3, <2>1, <2>2, KindsAre DEF At
  <2> QED BY <1>8, <1>9, <2>3 DEF TableVotes
<1>10. CASE ~InFigures(ph, k)
  <2>1. ASSUME At(block, e[k - 1] + 3, "number") PROVE block[e[k - 1] + 3].of = k + 1
    <3>1. e[k - 1] + 3 \in 1..e[n] /\ page[e[k - 1] + 3].is = "number"
          /\ block[e[k - 1] + 3] = page[e[k - 1] + 3]
      BY <1>3, <2>1 DEF At
    <3>2. CASE Worded(ph, k)
      <4>1. RowSize(ph, k) = 3
        BY <1>10, <3>2 DEF RowSize
      <4>2. page[e[k - 1] + 3] = InWords(WordsOf(VotesIn(ph, k), TRUE))
        BY <1>1, <1>2, <3>2, <4>1 DEF RowIs
      <4>3. page[e[k - 1] + 3].is = "words"
        BY <4>2, KindsAre
      <4> QED BY <3>1, <4>3
    <3>3. CASE ~Worded(ph, k)
      <4>1. RowSize(ph, k) = 2
        BY <1>10, <3>3 DEF RowSize
      <4>2. e[k - 1] + 3 = e[k] + 1
        BY <1>1, <4>1
      <4>3. k # n
        BY <1>1, <3>1, <4>2
      <4>4. k + 1 \in 1..n /\ k + 1 - 1 = k
        BY <1>1, <4>3
      <4>5. RowIs(ph, page, e, k + 1)
        BY <4>4 DEF IsA, TextIs
      <4>6. page[e[k] + 1] = Number(k + 1)
        BY <4>4, <4>5 DEF RowIs
      <4> QED BY <3>1, <4>2, <4>6, KindsAre
    <3> QED BY <3>2, <3>3
  <2> QED BY <1>8, <1>10, <2>1 DEF TableVotes
<1> QED BY <1>9, <1>10

TableOf(ph) == [k \in 1..Len(Ballot) |-> Row(Ballot[k], TableVotes(ph, k))]

LEMMA TableIs ==
    ASSUME NEW ph, NEW page, NEW e, IsA(ph, page, e), RowsPlain(ph)
    PROVE  ExtractPartyTable(page) = TableOf(ph)
<1> DEFINE n == Len(Ballot)
           block == SubSeq(page, 1, TotalAfter(page, 20) - 1)
           S == {i \in 20..(TotalAfter(page, 20) - 1) :
                    /\ At(block, i, "number") /\ block[i].of \in 1..30
                    /\ i + 1 \in DOMAIN block /\ IsPartyCode(block[i + 1])}
           rows == InOrder(S)
           q == [k \in 1..n |-> e[k - 1] + 1]
<1>1. Headings(page, "parties") = {20}
  <2>1. \A i : HeadingAt(page, i, "parties") <=> i = 20
    BY HeadingsAre
  <2>2. 20 \in DOMAIN page
    BY LastEnd
  <2> QED BY <2>1, <2>2 DEF Headings
<1>2. Min(Headings(page, "parties")) = 20
  BY <1>1, MinIs
<1>3. ExtractPartyTable(page)
        = [k \in DOMAIN rows |->
              Row(CodeOf(block[rows[k] + 1]), VotesOfRow(block, rows[k]))]
  <2>1. Headings(page, "parties") # {}
    BY <1>1
  <2> QED BY <1>2, <2>1 DEF ExtractPartyTable
<1>4. BlockIs(page, block, e[n])
  BY BlockHolds
<1>5. /\ n \in Nat /\ e[n] \in Nat
      /\ \A k \in 1..n : /\ e[k - 1] \in Nat /\ e[k - 1] >= 22 /\ e[k] \in Nat
                         /\ e[k] = e[k - 1] + RowSize(ph, k) /\ e[k] <= e[n]
  BY LastEnd
<1>6. TotalAfter(page, 20) - 1 = e[n]
  <2>1. TotalAfter(page, 20) = e[n] + 1
    BY TotalIs
  <2> QED BY <1>5, <2>1
<1> HIDE DEF block
<1>7. S = {i \in 20..e[n] : \E k \in 1..n : i = e[k - 1] + 1}
  <2>1. \A i \in 20..e[n] :
           /\ At(block, i, "number") /\ block[i].of \in 1..30
           /\ i + 1 \in DOMAIN block /\ IsPartyCode(block[i + 1])
           <=> \E k \in 1..n : i = e[k - 1] + 1
    BY <1>4, RowLines
  <2>2. S = {i \in 20..e[n] : /\ At(block, i, "number") /\ block[i].of \in 1..30
                              /\ i + 1 \in DOMAIN block /\ IsPartyCode(block[i + 1])}
    BY <1>6
  <2> HIDE DEF S
  <2> QED BY <2>1, <2>2
<1> HIDE DEF S
<1>8. ASSUME NEW k \in 1..n PROVE e[k - 1] + 1 \in 20..e[n] /\ e[k - 1] + 2 \in 1..e[n]
  <2>1. RowSize(ph, k) \in 2..4
    BY RowSizes
  <2> QED BY <1>5, <2>1
<1>9. S = {q[k] : k \in 1..n}
  BY <1>7, <1>8
<1>10. q \in [1..n -> Nat]
  BY <1>5
<1>11. Increasing(q, n)
  <2> SUFFICES ASSUME NEW j \in 1..n, NEW k \in 1..n, j < k PROVE q[j] < q[k]
    BY DEF Increasing
  <2>1. e[j] <= e[k - 1]
    <3>1. j \in 0..n /\ k - 1 \in 0..n /\ j <= k - 1
      BY <1>5
    <3>2. RowEnds(ph, e)
      BY DEF IsA
    <3> QED BY <3>1, <3>2, EndsType
  <2>2. RowSize(ph, j) \in 2..4
    BY RowSizes
  <2>3. e[j - 1] + 1 < e[k - 1] + 1
    BY <1>5, <2>1, <2>2, SMTT(30)
  <2> QED BY <2>3
<1> HIDE DEF q
<1>12. rows = q
  BY <1>5, <1>9, <1>10, <1>11, InOrderIs
<1> HIDE DEF rows
<1>13. ASSUME NEW k \in 1..n
       PROVE  Row(CodeOf(block[q[k] + 1]), VotesOfRow(block, q[k]))
                = Row(Ballot[k], TableVotes(ph, k))
  <2>1. VotesOfRow(block, e[k - 1] + 1) = TableVotes(ph, k)
    BY <1>4, RowVotesAre
  <2>2. page[e[k - 1] + 2] = PartyCode(Ballot[k])
    BY DEF IsA, TextIs, RowIs
  <2>3. block[e[k - 1] + 2] = page[e[k - 1] + 2]
    BY <1>4, <1>8 DEF BlockIs
  <2>4. q[k] = e[k - 1] + 1 /\ q[k] + 1 = e[k - 1] + 2
    BY <1>5 DEF q
  <2>5. CodeOf(block[q[k] + 1]) = Ballot[k]
    BY <2>2, <2>3, <2>4, KindsAre DEF CodeOf
  <2> QED BY <2>1, <2>4, <2>5
<1>14. DOMAIN rows = 1..n
  BY <1>10, <1>12
<1>15. ExtractPartyTable(page) = [k \in 1..n |-> Row(Ballot[k], TableVotes(ph, k))]
  BY <1>3, <1>12, <1>13, <1>14
<1> QED BY <1>15 DEF TableOf

-----------------------------------------------------------------------------
(* The tokens of a line. *)
Token == {Word(w) : w \in Vocabulary \union {"other"}} \union {Digits(n) : n \in Nat}

Spoken(line) ==
    IF line.is = "words" THEN [k \in DOMAIN line.of |-> Word(line.of[k])]
    ELSE IF line.is = "number" THEN <<Digits(line.of)>> ELSE <<Word("other")>>

LEMMA TokensAre ==
    \A text, from :
        Tokens(text, from) = FlattenSeq([k \in 1..(Len(text) - from + 1) |-> Spoken(text[from + k - 1])])
<1> SUFFICES ASSUME NEW text, NEW from
             PROVE  Tokens(text, from)
                      = FlattenSeq([k \in 1..(Len(text) - from + 1) |-> Spoken(text[from + k - 1])])
  OBVIOUS
<1> DEFINE of(line) == CASE line.is = "words"  -> [k \in DOMAIN line.of |-> Word(line.of[k])]
                         [] line.is = "number" -> <<Digits(line.of)>>
                         [] OTHER              -> <<Word("other")>>
<1>1. \A line : of(line) = Spoken(line)
  BY Zenon DEF Spoken
<1>2. Tokens(text, from) = FlattenSeq([k \in 1..(Len(text) - from + 1) |-> of(text[from + k - 1])])
  BY DEF Tokens
<1> HIDE DEF of
<1> QED BY <1>1, <1>2

LEMMA SpokenIs ==
    ASSUME NEW line \in Line
    PROVE  Spoken(line) \in Seq(Token)
<1>1. "other" \in Vocabulary \union {"other"}
  OBVIOUS
<1>2. CASE \E w \in Seq(Vocabulary) : line = InWords(w)
  <2>1. PICK w \in Seq(Vocabulary) : line = InWords(w)
    BY <1>2
  <2>2. Spoken(line) = [k \in DOMAIN w |-> Word(w[k])]
    BY <2>1, KindsAre DEF Spoken
  <2>3. \A k \in DOMAIN w : Word(w[k]) \in Token
    BY DEF Token
  <2>4. DOMAIN w = 1..Len(w) /\ Len(w) \in Nat
    OBVIOUS
  <2> HIDE DEF Token
  <2> QED BY <2>2, <2>3, <2>4
<1>3. CASE \E n \in Nat : line = Number(n)
  <2>1. PICK n \in Nat : line = Number(n)
    BY <1>3
  <2>2. Spoken(line) = <<Digits(n)>> /\ Digits(n) \in Token
    BY <2>1, KindsAre DEF Spoken, Token
  <2> QED BY <2>2
<1>4. CASE line.is # "words" /\ line.is # "number"
  <2>1. Spoken(line) = <<Word("other")>> /\ Word("other") \in Token
    BY <1>1, <1>4 DEF Spoken, Token
  <2> QED BY <2>1
<1> QED BY <1>2, <1>3, <1>4, KindsAre DEF Line

(* The tokens of line l begin after the first o[l]. *)
Places(tokens, text, from, m, o) ==
    /\ tokens \in Seq(Token) /\ o \in [from..(m + 1) -> Nat] /\ o[from] = 0 /\ o[m + 1] = Len(tokens)
    /\ \A l \in from..m :
          /\ o[l + 1] = o[l] + Len(Spoken(text[l]))
          /\ \A j \in 1..Len(Spoken(text[l])) : tokens[o[l] + j] = Spoken(text[l])[j]

LEMMA EndsExist ==
    ASSUME NEW X, NEW seqs \in Seq(Seq(X)), NEW n, n = Len(seqs)
    PROVE  \E d : EndAt(seqs, n, d)
<1> DEFINE F == [p \in Nat \X Nat |-> IF p[1] \in 1..n THEN p[2] + Len(seqs[p[1]]) ELSE p[2]]
<1>1. n \in Nat /\ \A k \in 1..n : Len(seqs[k]) \in Nat
  <2>1. \A k \in 1..n : seqs[k] \in Seq(X)
    OBVIOUS
  <2> QED BY <2>1
<1>2. F \in [Nat \X Nat -> Nat]
  BY <1>1
<1>3. \A k \in 1..n, m \in Nat : F[<<k, m>>] = m + Len(seqs[k])
  BY <1>1
<1> HIDE DEF F
<1>4. 0 \in Nat
  OBVIOUS
<1>5. PICK d \in [0..n -> Nat] : d[0] = 0 /\ \A k \in 1..n : d[k] = F[<<k, d[k - 1]>>]
  <2>1. \A m \in Nat : \E g \in [0..m -> Nat] : Goes(0, F, m, g)
    BY <1>2, <1>4, LoopRuns
  <2> QED BY <1>1, <2>1 DEF Goes
<1>6. ASSUME NEW k \in 1..n PROVE d[k] = d[k - 1] + Len(seqs[k])
  <2>1. k - 1 \in 0..n
    BY <1>1
  <2>2. d[k - 1] \in Nat
    BY <2>1
  <2> QED BY <1>3, <1>5, <2>2
<1> QED BY <1>5, <1>6 DEF EndAt

LEMMA PlacesExist ==
    ASSUME NEW text \in Seq(Line), NEW m \in Nat, Len(text) = m, NEW from \in 1..m
    PROVE  \E o : Places(Tokens(text, from), text, from, m, o)
<1> DEFINE n == m - from + 1
           seqs == [k \in 1..n |-> Spoken(text[from + k - 1])]
           tokens == Tokens(text, from)
<1>1. n \in Nat /\ \A k \in 1..n : from + k - 1 \in 1..m
  OBVIOUS
<1>2. \A k \in 1..n : Spoken(text[from + k - 1]) \in Seq(Token)
  BY <1>1, SpokenIs
<1>3. seqs \in Seq(Seq(Token)) /\ Len(seqs) = n
  BY <1>1, <1>2
<1>4. tokens = FlattenSeq(seqs)
  BY TokensAre
<1>5. \A l \in from..m : l - from + 1 \in 1..n /\ seqs[l - from + 1] = Spoken(text[l])
  <2> SUFFICES ASSUME NEW l \in from..m
               PROVE  l - from + 1 \in 1..n /\ seqs[l - from + 1] = Spoken(text[l])
    OBVIOUS
  <2>1. l - from + 1 \in 1..n /\ from + (l - from + 1) - 1 = l
    OBVIOUS
  <2> QED BY <2>1
<1> HIDE DEF seqs, tokens
<1>6. PICK d : EndAt(seqs, n, d)
  <2> HIDE DEF n
  <2> QED BY <1>3, EndsExist
<1>7. /\ d \in [0..n -> Nat] /\ d[0] = 0
      /\ \A k \in 1..n : d[k] = d[k - 1] + Len(seqs[k])
  BY <1>6 DEF EndAt
<1>8. /\ tokens \in Seq(Token) /\ Len(tokens) = d[n]
      /\ \A k \in 1..n : \A j \in 1..Len(seqs[k]) : tokens[d[k - 1] + j] = seqs[k][j]
  <2>1. FlattenSeq(seqs) \in Seq(Token) /\ Pieces(FlattenSeq(seqs), seqs, n, d)
    <3> HIDE DEF n
    <3> QED BY <1>3, <1>6, FlattenHolds
  <2> QED BY <1>4, <2>1 DEF Pieces
<1> DEFINE o == [l \in from..(m + 1) |-> d[l - from]]
<1>9. /\ o \in [from..(m + 1) -> Nat] /\ o[from] = 0 /\ o[m + 1] = d[n]
  <2>1. \A l \in from..(m + 1) : l - from \in 0..n
    OBVIOUS
  <2>2. from \in from..(m + 1) /\ m + 1 \in from..(m + 1) /\ from - from = 0 /\ m + 1 - from = n
    OBVIOUS
  <2> HIDE DEF n
  <2>3. \A l \in from..(m + 1) : d[l - from] \in Nat
    BY <1>7, <2>1
  <2>4. o \in [from..(m + 1) -> Nat]
    BY <2>3
  <2>5. o[from] = d[0] /\ o[m + 1] = d[n]
    BY <2>2
  <2> QED BY <1>7, <2>4, <2>5
<1>10. ASSUME NEW l \in from..m
       PROVE  /\ o[l + 1] = o[l] + Len(Spoken(text[l]))
              /\ \A j \in 1..Len(Spoken(text[l])) : tokens[o[l] + j] = Spoken(text[l])[j]
  <2>1. l \in from..(m + 1) /\ l + 1 \in from..(m + 1)
    OBVIOUS
  <2>2. PICK k \in 1..n : k = l - from + 1
    BY <1>5
  <2>3. k - 1 = l - from /\ l + 1 - from = k
    BY <2>2
  <2>4. o[l] = d[k - 1] /\ o[l + 1] = d[k] /\ seqs[k] = Spoken(text[l])
    BY <1>5, <2>1, <2>2, <2>3
  <2> HIDE DEF o, n
  <2> QED BY <1>7, <1>8, <2>4
<1> HIDE DEF o, n
<1>11. Places(tokens, text, from, m, o)
  BY <1>8, <1>9, <1>10 DEF Places
<1> QED BY <1>11 DEF tokens

-----------------------------------------------------------------------------
(* What is read at a token, and the scores from it on. *)
Silent(w) == ~NumberWord(w) /\ w # "zero"

LEMMA SilentRead ==
    ASSUME NEW S, NEW tokens \in Seq(S), NEW i \in 1..(Len(tokens) + 1),
           i <= Len(tokens) => Silent(tokens[i].word)
    PROVE  ParseNumberWords(tokens, i).next = i
<1> DEFINE r == ReadingOf(tokens, i)
           w == IF i \in DOMAIN tokens THEN tokens[i].word ELSE "end"
<1>1. Len(tokens) \in Nat /\ DOMAIN tokens = 1..Len(tokens) /\ i \in Nat /\ i >= 1
  OBVIOUS
<1>2. Rounds(tokens, i, r)
  BY ReadingRounds
<1>3. r[i - 1] = Reader(0, 0, i)
  BY <1>2 DEF Rounds
<1>4. i <= Len(tokens) => ~NumberWord(tokens[i].word)
  BY DEF Silent
<1> HIDE DEF r
<1>5. r[Len(tokens)].next = i
  <2>1. i >= i /\ i <= Len(tokens) + 1
    BY <1>1
  <2> QED BY <1>1, <1>2, <1>3, <1>4, <2>1, ReadingEnds
<1>6. w # "zero" /\ w # "and"
  BY <1>1 DEF Silent, NumberWord
<1>7. ParseNumberWords(tokens, i) = SumWords(tokens, i)
  BY <1>6 DEF ParseNumberWords
<1>8. SumWords(tokens, i).next = r[Len(tokens)].next
  BY SumWordsIs DEF r
<1> QED BY <1>5, <1>7, <1>8

LEMMA ReadWordNext ==
    ASSUME NEW n \in Readers, NEW w
    PROVE  ReadWord(n, w).next = n.next \/ ReadWord(n, w).next = n.next + 1
<1> DEFINE went(total, current) == Reader(total, current, n.next + 1)
<1>1. \A t, c : went(t, c).next = n.next + 1
  BY DEF Reader
<1>2. [n EXCEPT !.open = FALSE].next = n.next
  BY DEF Readers
<1>3. ReadWord(n, w) =
          IF ~n.open THEN n
          ELSE IF w = "and" THEN went(n.total, n.current)
          ELSE IF IsOne(w) /\ n.current \notin 1..19 /\ n.current % 10 = 0
               THEN went(n.total, n.current + OneOf(w))
          ELSE IF IsTen(w) /\ n.current % 100 = 0 THEN went(n.total, n.current + TenOf(w))
          ELSE IF w = "hundred" THEN went(n.total, OrOne(n.current) * 100)
          ELSE IF w = "thousand" THEN went(n.total + OrOne(n.current) * 1000, 0)
          ELSE [n EXCEPT !.open = FALSE]
  BY DEF ReadWord
<1> HIDE DEF went
<1> QED BY <1>1, <1>2, <1>3

LEMMA ParseType ==
    ASSUME NEW S, NEW tokens \in Seq(S), NEW i \in 1..(Len(tokens) + 1)
    PROVE  /\ ParseNumberWords(tokens, i).value \in Nat
           /\ ParseNumberWords(tokens, i).next \in i..(Len(tokens) + 1)
<1> DEFINE m == Len(tokens)
           r == ReadingOf(tokens, i)
           w == IF i \in DOMAIN tokens THEN tokens[i].word ELSE "end"
<1>1. m \in Nat /\ DOMAIN tokens = 1..m /\ i \in Nat /\ i >= 1 /\ i <= m + 1
  OBVIOUS
<1>2. /\ r[i - 1] = Reader(0, 0, i)
      /\ \A k \in i..m : r[k] = ReadWord(r[k - 1], tokens[k].word)
  BY ReadingRounds DEF Rounds
<1>3. SumWords(tokens, i) = [value |-> r[m].total + r[m].current, next |-> r[m].next]
  BY SumWordsIs
<1>4. w = "zero" => i <= m
  BY <1>1
<1>5. ParseNumberWords(tokens, i) = IF w = "zero" THEN [value |-> 0, next |-> i + 1]
                                    ELSE IF w = "and" THEN [value |-> 0, next |-> i]
                                    ELSE SumWords(tokens, i)
  BY DEF ParseNumberWords
<1> HIDE DEF m, r, w
<1> DEFINE G == {d \in 0..(m - i + 1) : /\ r[i - 1 + d] \in Readers
                                        /\ r[i - 1 + d].next \in i..(i + d)}
<1>6. 0 \in G
  <2>1. Reader(0, 0, i) \in Readers /\ Reader(0, 0, i).next = i
    BY <1>1 DEF Reader, Readers
  <2>2. i - 1 + 0 = i - 1 /\ 0 \in 0..(m - i + 1)
    BY <1>1
  <2> QED BY <1>1, <1>2, <2>1, <2>2
<1>7. ASSUME NEW d \in G, d < m - i + 1 PROVE d + 1 \in G
  <2> DEFINE k == i + d
  <2>1. k \in i..m /\ k - 1 = i - 1 + d /\ k = i - 1 + (d + 1) /\ d + 1 \in 0..(m - i + 1)
    BY <1>1, <1>7
  <2>2. r[k] = ReadWord(r[k - 1], tokens[k].word)
    BY <1>2, <2>1
  <2>3. r[k - 1] \in Readers /\ r[k - 1].next \in i..(i + d)
    BY <2>1
  <2>4. r[k] \in Readers
    BY <2>2, <2>3, ReadWordType
  <2>5. r[k].next = r[k - 1].next \/ r[k].next = r[k - 1].next + 1
    BY <2>2, <2>3, ReadWordNext
  <2>6. r[k].next \in i..(i + (d + 1))
    <3> DEFINE x == r[k - 1].next
    <3>1. d \in Nat /\ i \in Nat
      BY <1>1, <1>7 DEF G
    <3>2. x \in Nat /\ x >= i /\ x <= i + d
      BY <2>3, <3>1
    <3>3. r[k].next = x \/ r[k].next = x + 1
      BY <2>5
    <3> HIDE DEF x
    <3> QED BY <3>1, <3>2, <3>3
  <2> HIDE DEF k
  <2> QED BY <2>1, <2>4, <2>6
<1> HIDE DEF G
<1>8. m - i + 1 \in G
  <2>1. m - i + 1 \in Nat
    BY <1>1
  <2>2. G \in SUBSET (0..(m - i + 1))
    BY DEF G
  <2>3. G = 0..(m - i + 1)
    BY <1>6, <1>7, <2>1, <2>2, Climb
  <2> QED BY <2>1, <2>3
<1>9. r[m] \in Readers /\ r[m].next \in i..(m + 1)
  <2>1. i - 1 + (m - i + 1) = m /\ i + (m - i + 1) = m + 1
    BY <1>1
  <2> QED BY <1>8, <2>1 DEF G
<1>10. r[m].total + r[m].current \in Nat
  BY <1>9 DEF Readers
<1>11. i + 1 \in i..(m + 1) \/ w # "zero"
  BY <1>1, <1>4
<1>12. i \in i..(m + 1)
  BY <1>1
<1> QED BY <1>3, <1>5, <1>9, <1>10, <1>11, <1>12 DEF m

(* The scores from token i on, as f gives those of later tokens. *)
Score(tokens, f, i, left) ==
    LET here == ParseNumberWords(tokens, i)
        then == ParseNumberWords(tokens, i + 1)
    IN  IF i > Len(tokens) \/ left = 0 THEN <<>>
        ELSE IF here.next > i THEN <<here.value>> \o f[here.next][left - 1]
        ELSE IF then.next > i + 1 /\ tokens[i].digits = then.value
             THEN <<then.value>> \o f[then.next][left - 1]
        ELSE f[i + 1][left]

IsTable(tokens, most, r) ==
    r = [i \in 1..(Len(tokens) + 2) |-> [left \in 0..most |-> Score(tokens, r, i, left)]]

LEMMA WordScoresAre ==
    ASSUME NEW tokens, NEW most
    PROVE  WordScoresFrom(tokens, most) = (CHOOSE r : IsTable(tokens, most, r))[1][most]
BY DEF WordScoresFrom, IsTable, Score

ScoreLists(tokens, most) == [1..(Len(tokens) + 2) -> [0..most -> Seq(Nat)]]

LEMMA NextOfBoth ==
    ASSUME NEW S, NEW tokens \in Seq(S), NEW i \in 1..Len(tokens)
    PROVE  /\ ParseNumberWords(tokens, i).value \in Nat
           /\ ParseNumberWords(tokens, i).next \in i..(Len(tokens) + 2)
           /\ ParseNumberWords(tokens, i + 1).value \in Nat
           /\ ParseNumberWords(tokens, i + 1).next \in (i + 1)..(Len(tokens) + 2)
<1>1. Len(tokens) \in Nat
  OBVIOUS
<1>2. i \in 1..(Len(tokens) + 1) /\ i + 1 \in 1..(Len(tokens) + 1)
  BY <1>1
<1>3. /\ ParseNumberWords(tokens, i).value \in Nat
      /\ ParseNumberWords(tokens, i).next \in i..(Len(tokens) + 1)
  BY <1>2, ParseType
<1>4. /\ ParseNumberWords(tokens, i + 1).value \in Nat
      /\ ParseNumberWords(tokens, i + 1).next \in (i + 1)..(Len(tokens) + 1)
  BY <1>2, ParseType
<1> QED BY <1>1, <1>3, <1>4

(* A score hangs on later ones only. *)
LEMMA ScoreHangs ==
    ASSUME NEW S, NEW tokens \in Seq(S), NEW most \in Nat,
           NEW i \in 1..(Len(tokens) + 2), NEW f, NEW h,
           \A j \in (i + 1)..(Len(tokens) + 2) : f[j] = h[j]
    PROVE  \A left : Score(tokens, f, i, left) = Score(tokens, h, i, left)
<1> SUFFICES ASSUME NEW left PROVE Score(tokens, f, i, left) = Score(tokens, h, i, left)
  OBVIOUS
<1> DEFINE x == ParseNumberWords(tokens, i)
           y == ParseNumberWords(tokens, i + 1)
<1>1. Len(tokens) \in Nat /\ i \in Nat
  OBVIOUS
<1>2. \A g : Score(tokens, g, i, left) =
          IF i > Len(tokens) \/ left = 0 THEN <<>>
          ELSE IF x.next > i THEN <<x.value>> \o g[x.next][left - 1]
          ELSE IF y.next > i + 1 /\ tokens[i].digits = y.value
               THEN <<y.value>> \o g[y.next][left - 1]
          ELSE g[i + 1][left]
  BY DEF Score
<1>3. i <= Len(tokens) => x.next \in i..(Len(tokens) + 2) /\ y.next \in (i + 1)..(Len(tokens) + 2)
  BY <1>1, NextOfBoth
<1> HIDE DEF x, y
<1>4. i <= Len(tokens) /\ x.next > i => f[x.next] = h[x.next]
  BY <1>1, <1>3
<1>5. i <= Len(tokens) /\ y.next > i + 1 => f[y.next] = h[y.next]
  BY <1>1, <1>3
<1>6. i <= Len(tokens) => f[i + 1] = h[i + 1]
  BY <1>1
<1>7. CASE i > Len(tokens)
  BY <1>2, <1>7
<1>8. CASE i <= Len(tokens)
  <2>1. CASE x.next > i
    <3>1. f[x.next] = h[x.next]
      BY <1>4, <1>8, <2>1
    <3>2. \A g : Score(tokens, g, i, left) = IF left = 0 THEN <<>> ELSE <<x.value>> \o g[x.next][left - 1]
      BY <1>1, <1>2, <1>8, <2>1
    <3> QED BY ONLY <3>1, <3>2
  <2>2. CASE ~(x.next > i) /\ y.next > i + 1 /\ tokens[i].digits = y.value
    <3>1. f[y.next] = h[y.next]
      BY <1>5, <1>8, <2>2
    <3>2. \A g : Score(tokens, g, i, left) = IF left = 0 THEN <<>> ELSE <<y.value>> \o g[y.next][left - 1]
      BY <1>1, <1>2, <1>8, <2>2
    <3> QED BY ONLY <3>1, <3>2
  <2>3. CASE ~(x.next > i) /\ ~(y.next > i + 1 /\ tokens[i].digits = y.value)
    <3>1. \A g : Score(tokens, g, i, left) = IF left = 0 THEN <<>> ELSE g[i + 1][left]
      BY <1>1, <1>2, <1>8, <2>3
    <3> QED BY <1>6, <1>8, <3>1
  <2> QED BY <2>1, <2>2, <2>3
<1> QED BY <1>1, <1>7, <1>8

LEMMA ScoreType ==
    ASSUME NEW S, NEW tokens \in Seq(S), NEW most \in Nat, NEW f \in ScoreLists(tokens, most),
           NEW i \in 1..(Len(tokens) + 2), NEW left \in 0..most
    PROVE  Score(tokens, f, i, left) \in Seq(Nat)
<1> DEFINE x == ParseNumberWords(tokens, i)
           y == ParseNumberWords(tokens, i + 1)
<1>1. Len(tokens) \in Nat /\ i \in Nat /\ left \in Nat /\ left <= most
  OBVIOUS
<1>2. Score(tokens, f, i, left) =
          IF i > Len(tokens) \/ left = 0 THEN <<>>
          ELSE IF x.next > i THEN <<x.value>> \o f[x.next][left - 1]
          ELSE IF y.next > i + 1 /\ tokens[i].digits = y.value
               THEN <<y.value>> \o f[y.next][left - 1]
          ELSE f[i + 1][left]
  BY DEF Score
<1>3. i <= Len(tokens) => /\ x.next \in i..(Len(tokens) + 2) /\ x.value \in Nat
                          /\ y.next \in (i + 1)..(Len(tokens) + 2) /\ y.value \in Nat
  BY <1>1, NextOfBoth
<1> HIDE DEF x, y
<1>4. \A j \in 1..(Len(tokens) + 2), l \in 0..most : f[j][l] \in Seq(Nat)
  BY DEF ScoreLists
<1>5. left # 0 => left - 1 \in 0..most
  BY <1>1
<1>6. i <= Len(tokens) =>
         x.next \in 1..(Len(tokens) + 2) /\ y.next \in 1..(Len(tokens) + 2) /\ i + 1 \in 1..(Len(tokens) + 2)
  BY <1>1, <1>3
<1>7. \A v \in Nat, s \in Seq(Nat) : <<v>> \o s \in Seq(Nat)
  OBVIOUS
<1>8. i <= Len(tokens) /\ left # 0 =>
         /\ <<x.value>> \o f[x.next][left - 1] \in Seq(Nat)
         /\ <<y.value>> \o f[y.next][left - 1] \in Seq(Nat)
         /\ f[i + 1][left] \in Seq(Nat)
  BY <1>3, <1>4, <1>5, <1>6, <1>7
<1>9. <<>> \in Seq(Nat)
  OBVIOUS
<1> QED BY <1>1, <1>2, <1>8, <1>9

LEMMA TableExists ==
    ASSUME NEW S, NEW tokens \in Seq(S), NEW most \in Nat
    PROVE  \E r : IsTable(tokens, most, r)
<1> DEFINE n == Len(tokens) + 2
           L == ScoreLists(tokens, most)
           of(f, i) == [left \in 0..most |-> Score(tokens, f, i, left)]
           step(k, f) == [f EXCEPT ![n + 1 - k] = of(f, n + 1 - k)]
           F == [p \in Nat \X L |-> IF p[1] \in 1..n THEN step(p[1], p[2]) ELSE p[2]]
           a == [i \in 1..n |-> [left \in 0..most |-> <<>>]]
<1>1. n \in Nat /\ n >= 2 /\ \A k \in 1..n : n + 1 - k \in 1..n
  OBVIOUS
<1>2. ASSUME NEW f \in L, NEW i \in 1..n PROVE of(f, i) \in [0..most -> Seq(Nat)]
  <2>1. \A left \in 0..most : Score(tokens, f, i, left) \in Seq(Nat)
    BY ScoreType
  <2> QED BY <2>1
<1>3. a \in L
  BY DEF ScoreLists
<1>4. L = [1..n -> [0..most -> Seq(Nat)]]
  BY DEF ScoreLists
<1> HIDE DEF of, L, n, a
<1>5. ASSUME NEW k \in 1..n, NEW f \in L PROVE step(k, f) \in L
  BY <1>1, <1>2, <1>4
<1> HIDE DEF step
<1>6. F \in [Nat \X L -> L]
  <2>1. \A p \in Nat \X L : (IF p[1] \in 1..n THEN step(p[1], p[2]) ELSE p[2]) \in L
    BY <1>5
  <2> QED BY <2>1
<1>7. ASSUME NEW k \in 1..n, NEW f \in L PROVE F[<<k, f>>] = step(k, f)
  <2>1. <<k, f>> \in Nat \X L
    BY <1>1
  <2> QED BY <2>1
<1> HIDE DEF F
<1>8. PICK g \in [0..n -> L] : g[0] = a /\ \A k \in 1..n : g[k] = F[<<k, g[k - 1]>>]
  <2>1. \A m \in Nat : \E g \in [0..m -> L] : Goes(a, F, m, g)
    BY <1>3, <1>6, LoopRuns
  <2> QED BY <1>1, <2>1 DEF Goes
<1>9. ASSUME NEW k \in 1..n PROVE g[k] = step(k, g[k - 1])
  <2>1. k - 1 \in 0..n
    BY <1>1
  <2>2. g[k - 1] \in L
    BY <2>1
  <2> QED BY <1>7, <1>8, <2>2
<1> DEFINE Fills(f, i) == \A j \in i..n : f[j] = of(f, j)
           G == {k \in 0..n : Fills(g[k], n + 1 - k)}
<1>10. 0 \in G
  <2>1. \A f : Fills(f, n + 1)
    BY <1>1
  <2> QED BY <1>1, <2>1
<1>11. ASSUME NEW k \in G, k < n PROVE k + 1 \in G
  <2>1. PICK p \in 1..n : p = k + 1 /\ p - 1 = k
    BY <1>1, <1>11
  <2> DEFINE i == n + 1 - p
             f == g[k]
             h == g[p]
  <2>2. i \in 1..n /\ i + 1 = n + 1 - k /\ k \in 0..n
    BY <1>1, <2>1
  <2>3. f \in L /\ Fills(f, i + 1)
    BY <2>2
  <2>4. h = [f EXCEPT ![i] = of(f, i)]
    BY <1>9, <2>1 DEF step
  <2> HIDE DEF f, h, i
  <2>5. h[i] = of(f, i) /\ \A j \in 1..n : j # i => h[j] = f[j]
    BY <1>4, <2>2, <2>3, <2>4
  <2>6. ASSUME NEW j \in i..n PROVE of(f, j) = of(h, j)
    <3>1. j \in 1..n /\ i \in Nat /\ j \in Nat
      BY <1>1, <2>2
    <3>2. \A l \in (j + 1)..n : f[l] = h[l]
      <4> SUFFICES ASSUME NEW l \in (j + 1)..n PROVE f[l] = h[l]
        OBVIOUS
      <4>1. l \in 1..n /\ l # i
        BY <1>1, <3>1
      <4> QED BY <2>5, <4>1
    <3>3. \A left : Score(tokens, f, j, left) = Score(tokens, h, j, left)
      <4>1. j \in 1..(Len(tokens) + 2) /\ \A l \in (j + 1)..(Len(tokens) + 2) : f[l] = h[l]
        BY <3>1, <3>2 DEF n
      <4> QED BY <4>1, ScoreHangs, ZenonT(60)
    <3> QED BY <3>3 DEF of
  <2>7. Fills(h, i)
    <3> SUFFICES ASSUME NEW j \in i..n PROVE h[j] = of(h, j)
      OBVIOUS
    <3>1. j = i \/ (j \in (i + 1)..n /\ j \in 1..n /\ j # i)
      BY <1>1, <2>2
    <3>2. CASE j = i
      BY <2>5, <2>6, <3>2
    <3>3. CASE j \in (i + 1)..n /\ j \in 1..n /\ j # i
      <4>1. h[j] = f[j] /\ f[j] = of(f, j)
        BY <2>3, <2>5, <3>3
      <4> QED BY <2>6, <4>1
    <3> QED BY <3>1, <3>2, <3>3
  <2> HIDE DEF Fills
  <2>8. Fills(g[p], n + 1 - p) /\ p \in 0..n
    BY <1>1, <2>7 DEF h, i
  <2> QED BY <2>1, <2>8
<1> HIDE DEF G
<1>12. n \in G
  <2>1. G \in SUBSET (0..n)
    BY DEF G
  <2>2. G = 0..n
    BY <1>1, <1>10, <1>11, <2>1, Climb
  <2> QED BY <1>1, <2>2
<1>13. \A j \in 1..n : g[n][j] = of(g[n], j)
  <2>1. n + 1 - n = 1
    BY <1>1
  <2> QED BY <1>12, <2>1 DEF G
<1>14. g[n] = [i \in 1..n |-> of(g[n], i)]
  <2>1. g[n] \in L
    BY <1>1
  <2> QED BY <1>4, <1>13, <2>1
<1>15. IsTable(tokens, most, g[n])
  BY <1>14 DEF IsTable, of, n
<1> QED BY <1>15

LEMMA ScoresExist ==
    ASSUME NEW S, NEW tokens \in Seq(S), NEW most \in Nat
    PROVE  \E r : /\ WordScoresFrom(tokens, most) = r[1][most]
                  /\ \A i \in 1..(Len(tokens) + 2), left \in 0..most :
                        r[i][left] = Score(tokens, r, i, left)
<1> DEFINE r == CHOOSE r : IsTable(tokens, most, r)
<1>1. IsTable(tokens, most, r)
  BY TableExists
<1>2. WordScoresFrom(tokens, most) = r[1][most]
  BY WordScoresAre
<1> HIDE DEF r
<1>3. \A i \in 1..(Len(tokens) + 2), left \in 0..most : r[i][left] = Score(tokens, r, i, left)
  <2> DEFINE s == [i \in 1..(Len(tokens) + 2) |-> [left \in 0..most |-> Score(tokens, r, i, left)]]
  <2>1. r = s
    BY <1>1 DEF IsTable
  <2>2. \A i \in 1..(Len(tokens) + 2), left \in 0..most : s[i][left] = Score(tokens, r, i, left)
    OBVIOUS
  <2> HIDE DEF s
  <2> QED BY <2>1, <2>2
<1> QED BY <1>2, <1>3

-----------------------------------------------------------------------------
(* From token to token: one that says no number is passed over, a number   *)
(* in words is a score, and one in digits is when words repeat it.         *)
Scored(tokens, most, r) ==
    \A i \in 1..(Len(tokens) + 2), left \in 0..most : r[i][left] = Score(tokens, r, i, left)

(* At i the score v is read, and what follows it from q on. *)
Follows(most, r, i, v, q) == \A left \in 1..most : r[i][left] = <<v>> \o r[q][left - 1]

(* At i nothing is read. *)
Passes(most, r, i, q) == \A left \in 0..most : r[i][left] = r[q][left]

LEMMA PassThrough ==
    ASSUME NEW most \in Nat, NEW r, NEW i, NEW j, Passes(most, r, i, j),
           NEW v, NEW q, Follows(most, r, j, v, q)
    PROVE  Follows(most, r, i, v, q)
<1> SUFFICES ASSUME NEW left \in 1..most PROVE r[i][left] = <<v>> \o r[q][left - 1]
  BY DEF Follows
<1>1. left \in 0..most
  OBVIOUS
<1>2. r[i][left] = r[j][left]
  BY <1>1 DEF Passes
<1>3. r[j][left] = <<v>> \o r[q][left - 1]
  BY DEF Follows
<1> QED BY <1>2, <1>3

LEMMA PassStep ==
    ASSUME NEW S, NEW tokens \in Seq(S), NEW most \in Nat, NEW r, Scored(tokens, most, r),
           NEW i \in 1..Len(tokens), ParseNumberWords(tokens, i).next = i,
           \/ ParseNumberWords(tokens, i + 1).next = i + 1
           \/ tokens[i].digits # ParseNumberWords(tokens, i + 1).value
    PROVE  Passes(most, r, i, i + 1)
<1> SUFFICES ASSUME NEW left \in 0..most PROVE r[i][left] = r[i + 1][left]
  BY DEF Passes
<1> DEFINE y == ParseNumberWords(tokens, i + 1)
<1>1. Len(tokens) \in Nat /\ i \in Nat /\ i \in 1..(Len(tokens) + 2) /\ i + 1 \in 1..(Len(tokens) + 2)
  OBVIOUS
<1>2. r[i][left] = Score(tokens, r, i, left) /\ r[i + 1][left] = Score(tokens, r, i + 1, left)
  BY <1>1 DEF Scored
<1>3. left = 0 => Score(tokens, r, i, left) = <<>> /\ Score(tokens, r, i + 1, left) = <<>>
  BY DEF Score
<1>4. left # 0 => Score(tokens, r, i, left) = r[i + 1][left]
  <2>1. Score(tokens, r, i, left) =
          IF i > Len(tokens) \/ left = 0 THEN <<>>
          ELSE IF i > i THEN <<ParseNumberWords(tokens, i).value>> \o r[i][left - 1]
          ELSE IF y.next > i + 1 /\ tokens[i].digits = y.value
               THEN <<y.value>> \o r[y.next][left - 1]
          ELSE r[i + 1][left]
    BY DEF Score
  <2>2. ~(y.next > i + 1 /\ tokens[i].digits = y.value)
    BY <1>1
  <2> HIDE DEF y
  <2>3. ~(i > i) /\ ~(i > Len(tokens))
    BY <1>1
  <2> QED BY <2>1, <2>2, <2>3
<1> QED BY <1>2, <1>3, <1>4

LEMMA WordsStep ==
    ASSUME NEW S, NEW tokens \in Seq(S), NEW most \in Nat, NEW r, Scored(tokens, most, r),
           NEW i \in 1..Len(tokens), NEW v, NEW q \in Nat, q > i,
           ParseNumberWords(tokens, i) = [value |-> v, next |-> q]
    PROVE  Follows(most, r, i, v, q)
<1> SUFFICES ASSUME NEW left \in 1..most PROVE r[i][left] = <<v>> \o r[q][left - 1]
  BY DEF Follows
<1>1. Len(tokens) \in Nat /\ i \in Nat /\ i \in 1..(Len(tokens) + 2) /\ left \in 0..most /\ left # 0
  OBVIOUS
<1>2. r[i][left] = Score(tokens, r, i, left)
  BY <1>1 DEF Scored
<1>3. ~(i > Len(tokens))
  BY <1>1
<1>4. Score(tokens, r, i, left) = <<v>> \o r[q][left - 1]
  BY <1>1, <1>3 DEF Score
<1> QED BY <1>2, <1>4

LEMMA RepeatStep ==
    ASSUME NEW S, NEW tokens \in Seq(S), NEW most \in Nat, NEW r, Scored(tokens, most, r),
           NEW i \in 1..Len(tokens), NEW v, NEW q \in Nat, q > i + 1,
           ParseNumberWords(tokens, i).next = i, tokens[i].digits = v,
           ParseNumberWords(tokens, i + 1) = [value |-> v, next |-> q]
    PROVE  Follows(most, r, i, v, q)
<1> SUFFICES ASSUME NEW left \in 1..most PROVE r[i][left] = <<v>> \o r[q][left - 1]
  BY DEF Follows
<1>1. Len(tokens) \in Nat /\ i \in Nat /\ i \in 1..(Len(tokens) + 2) /\ left \in 0..most /\ left # 0
  OBVIOUS
<1>2. r[i][left] = Score(tokens, r, i, left)
  BY <1>1 DEF Scored
<1>3. ~(i > Len(tokens)) /\ ~(i > i)
  BY <1>1
<1>4. Score(tokens, r, i, left) = <<v>> \o r[q][left - 1]
  BY <1>1, <1>3 DEF Score
<1> QED BY <1>2, <1>4

LEMMA NoneSaid ==
    ASSUME NEW S, NEW tokens \in Seq(S), NEW most \in Nat,
           \A i \in 1..Len(tokens) : Silent(tokens[i].word)
    PROVE  WordScoresFrom(tokens, most) = <<>>
<1> DEFINE m == Len(tokens)
<1>1. m \in Nat
  OBVIOUS
<1>2. PICK r : WordScoresFrom(tokens, most) = r[1][most] /\ Scored(tokens, most, r)
  BY ScoresExist DEF Scored
<1> DEFINE G == {i \in 0..m : r[i + 1][most] = <<>>}
<1>3. m \in G
  <2>1. r[m + 1][most] = Score(tokens, r, m + 1, most)
    BY <1>1, <1>2 DEF Scored
  <2>2. Score(tokens, r, m + 1, most) = <<>>
    BY <1>1 DEF Score
  <2> QED BY <1>1, <2>1, <2>2
<1>4. ASSUME NEW i \in G, i > 0 PROVE i - 1 \in G
  <2>1. i \in 1..m /\ i - 1 \in 0..m /\ i - 1 + 1 = i
    BY <1>1, <1>4
  <2>2. ParseNumberWords(tokens, i).next = i /\ ParseNumberWords(tokens, i + 1).next = i + 1
    <3>1. i \in 1..(Len(tokens) + 1) /\ i + 1 \in 1..(Len(tokens) + 1)
      BY <1>1, <2>1
    <3>2. /\ i <= Len(tokens) => Silent(tokens[i].word)
          /\ i + 1 <= Len(tokens) => Silent(tokens[i + 1].word)
      BY <1>1, <2>1
    <3> QED BY <3>1, <3>2, SilentRead
  <2>3. Passes(most, r, i, i + 1)
    BY <1>2, <2>1, <2>2, PassStep
  <2>4. r[i][most] = r[i + 1][most]
    BY <2>3 DEF Passes
  <2> QED BY <2>1, <2>4
<1> HIDE DEF G
<1>5. 0 \in G
  <2>1. G \in SUBSET (0..m)
    BY DEF G
  <2>2. G = 0..m
    BY <1>1, <1>3, <1>4, <2>1, Descend
  <2> QED BY <1>1, <2>2
<1>6. r[1][most] = <<>>
  BY <1>5 DEF G
<1> QED BY <1>2, <1>6

Said(v) == WordsOf(v, TRUE)

LEMMA SaidHolds ==
    ASSUME NEW v \in Nat, v <= Largest
    PROVE  Said(v) \in Seq(Vocabulary) /\ Len(Said(v)) \in Nat /\ Len(Said(v)) >= 1
<1> DEFINE words == Said(v)
<1>1. CASE v = 0
  <2>1. words = <<"zero">> /\ "zero" \in Vocabulary
    BY <1>1, InVocabulary DEF Said, WordsOf
  <2> QED BY <2>1
<1>2. CASE v # 0
  <2>1. v >= 1 /\ TRUE \in BOOLEAN
    BY <1>2
  <2>2. Starts(words) /\ words \in Seq(Vocabulary)
    BY <2>1, WordsStart DEF Said
  <2> HIDE DEF words
  <2>3. Len(words) >= 1
    BY <2>2 DEF Starts
  <2>4. Len(words) \in Nat
    BY <2>2
  <2> QED BY <2>2, <2>3, <2>4 DEF words
<1> QED BY <1>1, <1>2

LEMMA SaidRead ==
    ASSUME NEW S, NEW tokens \in Seq(S), NEW i \in Nat, i >= 1, NEW v \in Nat, v <= Largest,
           Holds(tokens, i, Said(v)), NEW q, q = i + Len(Said(v)),
           q <= Len(tokens) => ~NumberWord(tokens[q].word)
    PROVE  ParseNumberWords(tokens, i) = [value |-> v, next |-> q]
<1>1. TRUE \in BOOLEAN
  OBVIOUS
<1>2. Holds(tokens, i, WordsOf(v, TRUE)) /\ q = i + Len(WordsOf(v, TRUE))
  BY DEF Said
<1> QED BY <1>1, <1>2, NumberRead

(* Tokens p, p + 1, ... up to before q are those of a party's row: its      *)
(* serial, its code, its votes v in figures if they are shown, and in words. *)
SaysRow(tokens, p, q, shown, v) ==
    LET w == IF shown THEN p + 3 ELSE p + 2
    IN  /\ p \in Nat /\ p >= 1 /\ w <= Len(tokens)
        /\ tokens[p].word = "digits" /\ tokens[p + 1] = Word("other")
        /\ shown => tokens[p + 2] = Digits(v)
        /\ v \in Nat /\ v <= Largest /\ Holds(tokens, w, Said(v))
        /\ q = w + Len(Said(v))
        /\ q <= Len(tokens) => tokens[q].word = "digits"

LEMMA SilentOnes == Silent("digits") /\ Silent("other")
BY OtherWords DEF Silent

LEMMA RowStep ==
    ASSUME NEW S, NEW tokens \in Seq(S), NEW most \in Nat, NEW r, Scored(tokens, most, r),
           NEW p, NEW q, NEW shown \in BOOLEAN, NEW v, SaysRow(tokens, p, q, shown, v)
    PROVE  Follows(most, r, p, v, q)
<1> DEFINE m == Len(tokens)
           w == IF shown THEN p + 3 ELSE p + 2
<1>0. m \in Nat
  OBVIOUS
<1>1. /\ p \in Nat /\ p >= 1 /\ w <= m
      /\ tokens[p].word = "digits" /\ tokens[p + 1] = Word("other")
      /\ shown => tokens[p + 2] = Digits(v)
      /\ v \in Nat /\ v <= Largest /\ Holds(tokens, w, Said(v))
      /\ q = w + Len(Said(v))
      /\ q <= m => tokens[q].word = "digits"
  BY DEF SaysRow
<1>10. w \in Nat /\ w >= 1 /\ w >= p + 2
  BY <1>1
<1> HIDE DEF w
<1>2. Len(Said(v)) \in Nat /\ Len(Said(v)) >= 1
  BY <1>1, SaidHolds
<1>3. ParseNumberWords(tokens, w) = [value |-> v, next |-> q]
  <2>1. q <= Len(tokens) => ~NumberWord(tokens[q].word)
    BY <1>1, OtherWords DEF m
  <2> QED BY <1>1, <1>10, <2>1, SaidRead
<1>4. tokens[p + 1].word = "other" /\ tokens[p + 1].digits = -1
  BY <1>1 DEF Word
<1>5. /\ p \in 1..m /\ p + 1 \in 1..m /\ w \in 1..m /\ q \in Nat /\ q > w
      /\ p \in 1..(m + 1) /\ p + 1 \in 1..(m + 1)
  <2> DEFINE l == Len(Said(v))
  <2> HIDE DEF m, l
  <2>1. q = w + l /\ l \in Nat /\ l >= 1
    BY <1>1, <1>2 DEF l
  <2> QED BY <1>0, <1>1, <1>10, <2>1
<1>6. ParseNumberWords(tokens, p).next = p /\ ParseNumberWords(tokens, p + 1).next = p + 1
  <2>1. Silent(tokens[p].word) /\ Silent(tokens[p + 1].word)
    BY <1>1, <1>4, SilentOnes
  <2> QED BY <1>5, <2>1, SilentRead
<1>7. Passes(most, r, p, p + 1)
  BY <1>5, <1>6, PassStep
<1>8. CASE shown
  <2>1. w = p + 3 /\ tokens[p + 2] = Digits(v) /\ p + 2 \in 1..m /\ p + 2 \in 1..(m + 1)
    <3>1. w = p + 3
      BY <1>8 DEF w
    <3> HIDE DEF m
    <3> QED BY <1>0, <1>1, <1>8, <3>1
  <2>2. tokens[p + 2].word = "digits" /\ tokens[p + 2].digits = v
    BY <2>1 DEF Digits
  <2>3. ParseNumberWords(tokens, p + 2).next = p + 2
    BY <2>1, <2>2, SilentOnes, SilentRead
  <2>4. p + 1 + 1 = p + 2 /\ p + 2 + 1 = w /\ q > p + 2 + 1
    BY <1>1, <1>5, <2>1
  <2>5. Passes(most, r, p + 1, p + 2)
    <3>1. ParseNumberWords(tokens, p + 1 + 1).next = p + 1 + 1
      BY <2>3, <2>4
    <3>2. Passes(most, r, p + 1, p + 1 + 1)
      BY <1>5, <1>6, <3>1, PassStep
    <3> QED BY <2>4, <3>2
  <2>6. Follows(most, r, p + 2, v, q)
    <3>1. ParseNumberWords(tokens, p + 2 + 1) = [value |-> v, next |-> q]
      BY <1>3, <2>4
    <3> QED BY <1>5, <2>1, <2>2, <2>3, <2>4, <3>1, RepeatStep
  <2>7. Follows(most, r, p + 1, v, q)
    BY <2>5, <2>6, PassThrough
  <2> QED BY <1>7, <2>7, PassThrough
<1>9. CASE ~shown
  <2>1. w = p + 2 /\ p + 1 + 1 = w
    BY <1>1, <1>9 DEF w
  <2>2. tokens[p + 1].digits # ParseNumberWords(tokens, p + 1 + 1).value
    BY <1>1, <1>3, <1>4, <2>1
  <2>3. Passes(most, r, p + 1, w)
    <3>1. Passes(most, r, p + 1, p + 1 + 1)
      BY <1>5, <1>6, <2>2, PassStep
    <3> QED BY <2>1, <3>1
  <2>4. Follows(most, r, w, v, q)
    BY <1>3, <1>5, WordsStep
  <2>5. Follows(most, r, p + 1, v, q)
    BY <2>3, <2>4, PassThrough
  <2> QED BY <1>7, <2>5, PassThrough
<1> QED BY <1>8, <1>9

(* The votes of the rows from the k-th on. *)
VotesFrom(ph, k) == [j \in 1..(Len(Ballot) - k + 1) |-> VotesIn(ph, k + j - 1)]

LEMMA VotesFromNext ==
    ASSUME NEW ph, FormNumber(ph), NEW k \in 1..Len(Ballot)
    PROVE  VotesFrom(ph, k) = <<VotesIn(ph, k)>> \o VotesFrom(ph, k + 1)
<1> DEFINE n == Len(Ballot)
           v == VotesIn(ph, k)
           a == VotesFrom(ph, k)
           b == VotesFrom(ph, k + 1)
           c == <<v>> \o b
<1>1. n \in Nat /\ k \in Nat /\ k <= n /\ k >= 1 /\ \A j \in 1..n : VotesIn(ph, j) \in Nat
  BY CodesFinite DEF FormNumber
<1>2. /\ \A j \in 1..(n - k) : k + 1 + j - 1 \in 1..n
      /\ \A j \in 1..(n - k + 1) : k + j - 1 \in 1..n
      /\ n - (k + 1) + 1 = n - k /\ n - k \in Nat
  BY <1>1
<1>3. b = [j \in 1..(n - k) |-> VotesIn(ph, k + 1 + j - 1)]
  BY <1>2 DEF VotesFrom
<1>4. a = [j \in 1..(n - k + 1) |-> VotesIn(ph, k + j - 1)]
  BY DEF VotesFrom
<1>5. b \in Seq(Nat) /\ Len(b) = n - k /\ <<v>> \in Seq(Nat) /\ Len(<<v>>) = 1 /\ <<v>>[1] = v
  <2>1. \A j \in 1..(n - k) : VotesIn(ph, k + 1 + j - 1) \in Nat
    BY <1>1, <1>2
  <2>2. v \in Nat
    BY <1>1
  <2> HIDE DEF v, b, n
  <2> QED BY <1>2, <1>3, <2>1, <2>2
<1> HIDE DEF n, v, a, b
<1>6. c \in Seq(Nat) /\ Len(c) = n - k + 1 /\ c[1] = v /\ \A j \in 1..(n - k) : c[1 + j] = b[j]
  <2>1. /\ c \in Seq(Nat) /\ Len(c) = Len(<<v>>) + Len(b)
        /\ \A j \in 1..Len(<<v>>) : c[j] = <<v>>[j]
        /\ \A j \in 1..Len(b) : c[Len(<<v>>) + j] = b[j]
    BY <1>5, Concat
  <2>2. Len(c) = n - k + 1
    BY <1>2, <1>5, <2>1
  <2> QED BY <1>5, <2>1, <2>2
<1> HIDE DEF c
<1>7. c = [j \in 1..(n - k + 1) |-> c[j]]
  BY <1>6
<1>8. ASSUME NEW j \in 1..(n - k + 1) PROVE c[j] = VotesIn(ph, k + j - 1)
  <2>1. CASE j = 1
    <3>1. k + j - 1 = k
      BY <1>1, <2>1
    <3> QED BY <1>6, <2>1, <3>1 DEF v
  <2>2. CASE j # 1
    <3>1. PICK i \in 1..(n - k) : j = 1 + i
      <4>1. j - 1 \in 1..(n - k) /\ j = 1 + (j - 1)
        BY <1>2, <2>2
      <4> QED BY <4>1
    <3>2. c[j] = b[i] /\ b[i] = VotesIn(ph, k + 1 + i - 1)
      BY <1>3, <1>6, <3>1
    <3>3. k + 1 + i - 1 = k + j - 1
      BY <1>1, <1>2, <3>1
    <3> QED BY <3>2, <3>3
  <2> QED BY <2>1, <2>2
<1>9. a = c
  BY <1>4, <1>7, <1>8
<1> QED BY <1>9 DEF a, b, c, v

LEMMA AllSaid ==
    ASSUME NEW ph, FormNumber(ph), NEW S, NEW tokens \in Seq(S), NEW most \in Nat,
           NEW r, Scored(tokens, most, r),
           NEW P, P[Len(Ballot) + 1] = Len(tokens) + 1,
           \A k \in 1..Len(Ballot) :
              SaysRow(tokens, P[k], P[k + 1], InFigures(ph, k), VotesIn(ph, k))
    PROVE  \A left \in Len(Ballot)..most : r[P[1]][left] = VotesFrom(ph, 1)
<1> DEFINE n == Len(Ballot)
           m == Len(tokens)
           G == {k \in 0..n : \A left \in (n - k)..most : r[P[k + 1]][left] = VotesFrom(ph, k + 1)}
<1>1. n \in Nat /\ m \in Nat
  BY CodesFinite
<1>2. n \in G
  <2>1. VotesFrom(ph, n + 1) = <<>>
    <3>1. n - (n + 1) + 1 = 0 /\ 1..0 = {}
      BY <1>1
    <3> QED BY <3>1 DEF VotesFrom
  <2>2. ASSUME NEW left \in (n - n)..most PROVE r[m + 1][left] = <<>>
    <3>1. r[m + 1][left] = Score(tokens, r, m + 1, left)
      BY <1>1 DEF Scored
    <3>2. Score(tokens, r, m + 1, left) = <<>>
      BY <1>1 DEF Score
    <3> QED BY <3>1, <3>2
  <2> QED BY <1>1, <2>1, <2>2
<1>3. ASSUME NEW k \in G, k > 0 PROVE k - 1 \in G
  <2>1. k \in 1..n /\ k - 1 \in 0..n /\ k - 1 + 1 = k
    BY <1>1, <1>3
  <2>2. SaysRow(tokens, P[k], P[k + 1], InFigures(ph, k), VotesIn(ph, k))
    BY <2>1
  <2>3. \A left \in 1..most : r[P[k]][left] = <<VotesIn(ph, k)>> \o r[P[k + 1]][left - 1]
    <3>1. InFigures(ph, k) \in BOOLEAN
      BY DEF InFigures
    <3>2. PICK shown \in BOOLEAN : shown = InFigures(ph, k)
      BY <3>1
    <3>3. SaysRow(tokens, P[k], P[k + 1], shown, VotesIn(ph, k))
      BY <2>2, <3>2
    <3>4. Follows(most, r, P[k], VotesIn(ph, k), P[k + 1])
      BY <3>3, RowStep
    <3> QED BY <3>4 DEF Follows
  <2>4. \A left \in (n - k)..most : r[P[k + 1]][left] = VotesFrom(ph, k + 1)
    BY DEF G
  <2>5. ASSUME NEW left \in (n - (k - 1))..most PROVE r[P[k]][left] = VotesFrom(ph, k)
    <3>1. left \in 1..most /\ left - 1 \in (n - k)..most
      BY <1>1, <2>1
    <3>2. r[P[k]][left] = <<VotesIn(ph, k)>> \o r[P[k + 1]][left - 1]
      BY <2>3, <3>1
    <3>3. r[P[k + 1]][left - 1] = VotesFrom(ph, k + 1)
      BY <2>4, <3>1
    <3> QED BY <2>1, <3>2, <3>3, VotesFromNext
  <2> QED BY <2>1, <2>5
<1> HIDE DEF G
<1>4. 0 \in G
  <2>1. G \in SUBSET (0..n)
    BY DEF G
  <2>2. G = 0..n
    BY <1>1, <1>2, <1>3, <2>1, Descend
  <2> QED BY <1>1, <2>2
<1>5. n - 0 = n /\ 0 + 1 = 1
  BY <1>1
<1>6. \A left \in (n - 0)..most : r[P[0 + 1]][left] = VotesFrom(ph, 0 + 1)
  BY <1>4 DEF G
<1> QED BY <1>5, <1>6

-----------------------------------------------------------------------------
(* The tokens of the lines of a text. *)
LEMMA SpokenLines ==
    /\ \A n : Spoken(Number(n)) = <<Digits(n)>>
    /\ \A c : Spoken(PartyCode(c)) = <<Word("other")>>
    /\ \A h : Spoken(Heading(h)) = <<Word("other")>>
    /\ \A w : Spoken(InWords(w)) = [k \in DOMAIN w |-> Word(w[k])]
BY KindsAre DEF Spoken

LEMMA PlacesGrow ==
    ASSUME NEW tokens, NEW text, NEW from \in Nat, NEW m \in Nat, from <= m, NEW o,
           Places(tokens, text, from, m, o),
           \A l \in from..m : Len(Spoken(text[l])) \in Nat
    PROVE  /\ \A l \in from..(m + 1) : o[l] \in Nat /\ o[l] <= Len(tokens)
           /\ \A t \in 1..Len(tokens) : \E l \in from..m :
                 /\ o[l] < t /\ t <= o[l + 1]
<1> DEFINE n == m + 1 - from
           d == [k \in 0..n |-> o[from + k]]
<1>1. /\ n \in Nat /\ \A k \in 0..n : from + k \in from..(m + 1)
      /\ \A l \in from..(m + 1) : l - from \in 0..n /\ from + (l - from) = l
      /\ \A k \in 1..n : /\ from + k - 1 \in from..m /\ k - 1 \in 0..n
                         /\ from + (k - 1) = from + k - 1 /\ from + k - 1 + 1 = from + k
      /\ from + n = m + 1
  OBVIOUS
<1>2. /\ o \in [from..(m + 1) -> Nat] /\ o[from] = 0 /\ o[m + 1] = Len(tokens)
      /\ \A l \in from..m : o[l + 1] = o[l] + Len(Spoken(text[l]))
  BY DEF Places
<1> HIDE DEF n
<1>3. d \in [0..n -> Nat]
  <2>1. \A k \in 0..n : o[from + k] \in Nat
    BY <1>1, <1>2
  <2> QED BY <2>1
<1>4. \A l \in from..(m + 1) : d[l - from] = o[l]
  BY <1>1
<1>5. \A k \in 1..n : d[k - 1] = o[from + k - 1] /\ d[k] = o[from + k - 1 + 1]
  BY <1>1
<1>6. d[0] = 0 /\ d[n] = Len(tokens)
  BY <1>1, <1>2
<1> HIDE DEF d
<1>7. \A k \in 1..n : d[k - 1] <= d[k]
  <2> SUFFICES ASSUME NEW k \in 1..n PROVE d[k - 1] <= d[k]
    OBVIOUS
  <2>1. PICK l \in from..m : l = from + k - 1
    BY <1>1
  <2>2. o[l + 1] = o[l] + Len(Spoken(text[l])) /\ d[k - 1] = o[l] /\ d[k] = o[l + 1]
    BY <1>2, <1>5, <2>1
  <2>3. l \in from..(m + 1)
    OBVIOUS
  <2>4. o[l] \in Nat /\ Len(Spoken(text[l])) \in Nat
    BY <1>2, <2>3
  <2> QED BY <2>2, <2>4
<1>8. \A l \in from..(m + 1) : o[l] \in Nat /\ o[l] <= Len(tokens)
  <2> SUFFICES ASSUME NEW l \in from..(m + 1) PROVE o[l] \in Nat /\ o[l] <= Len(tokens)
    OBVIOUS
  <2>1. PICK k \in 0..n : k = l - from
    BY <1>1
  <2>2. k <= n /\ n \in 0..n
    BY <1>1
  <2>3. d[k] <= d[n]
    BY <1>1, <1>3, <1>7, <2>2, EndsGrow
  <2>4. d[k] = o[l]
    BY <1>4, <2>1
  <2> QED BY <1>2, <1>6, <2>3, <2>4
<1>9. ASSUME NEW t \in 1..Len(tokens) PROVE \E l \in from..m : o[l] < t /\ t <= o[l + 1]
  <2>1. Len(tokens) \in Nat
    BY <1>1, <1>3, <1>6
  <2>2. t \in Nat /\ d[0] < t /\ t <= d[n]
    BY <1>6, <2>1
  <2>3. PICK k \in 1..n : d[k - 1] < t /\ t <= d[k]
    BY <1>1, <1>3, <2>2, InAPiece
  <2>4. from + k - 1 \in from..m /\ d[k - 1] = o[from + k - 1] /\ d[k] = o[from + k - 1 + 1]
    BY <1>1, <1>5
  <2> QED BY <2>3, <2>4
<1> QED BY <1>8, <1>9

(* A line that is one token, and one that is a number in words. *)
LEMMA OneToken ==
    ASSUME NEW tokens, NEW text, NEW from, NEW m, NEW o,
           Places(tokens, text, from, m, o), NEW l \in from..m,
           NEW x, Spoken(text[l]) = <<x>>
    PROVE  o[l + 1] = o[l] + 1 /\ tokens[o[l] + 1] = x
<1>1. /\ o[l + 1] = o[l] + Len(Spoken(text[l]))
      /\ \A j \in 1..Len(Spoken(text[l])) : tokens[o[l] + j] = Spoken(text[l])[j]
  BY DEF Places
<1>2. Len(Spoken(text[l])) = 1 /\ Spoken(text[l])[1] = x /\ 1 \in 1..1
  OBVIOUS
<1> QED BY <1>1, <1>2

LEMMA WordTokens ==
    ASSUME NEW tokens, NEW text, NEW from, NEW m, NEW o,
           Places(tokens, text, from, m, o), NEW l \in from..m,
           NEW w \in Seq(Vocabulary), text[l] = InWords(w)
    PROVE  o[l + 1] = o[l] + Len(w) /\ \A j \in 1..Len(w) : tokens[o[l] + j].word = w[j]
<1>1. /\ o[l + 1] = o[l] + Len(Spoken(text[l]))
      /\ \A j \in 1..Len(Spoken(text[l])) : tokens[o[l] + j] = Spoken(text[l])[j]
  BY DEF Places
<1> DEFINE s == [k \in 1..Len(w) |-> Word(w[k])]
<1>2. DOMAIN w = 1..Len(w) /\ Len(w) \in Nat
  OBVIOUS
<1>3. Spoken(text[l]) = s
  BY <1>2, SpokenLines
<1>4. Len(s) = Len(w)
  BY <1>2
<1>5. \A j \in 1..Len(w) : s[j].word = w[j]
  BY DEF Word
<1> HIDE DEF s
<1> QED BY <1>1, <1>3, <1>4, <1>5

(* The tokens after line `from` of the text up to its total. *)
SaidAfter(page, block, e, from, tokens, o) ==
    /\ BlockIs(page, block, e[Len(Ballot)]) /\ tokens = Tokens(block, from)
    /\ Places(tokens, block, from, e[Len(Ballot)], o)

LEMMA SaidExists ==
    ASSUME NEW ph, NEW page, NEW e, IsA(ph, page, e), NEW from \in 21..22,
           NEW block, BlockIs(page, block, e[Len(Ballot)]), NEW tokens, tokens = Tokens(block, from)
    PROVE  \E o : SaidAfter(page, block, e, from, tokens, o)
<1>1. e[Len(Ballot)] \in Nat /\ e[Len(Ballot)] >= 22
  BY LastEnd
<1>2. block \in Seq(Line) /\ Len(block) = e[Len(Ballot)] /\ from \in 1..e[Len(Ballot)]
  BY <1>1 DEF BlockIs
<1>3. \E o : Places(Tokens(block, from), block, from, e[Len(Ballot)], o)
  BY <1>1, <1>2, PlacesExist
<1> QED BY <1>3 DEF SaidAfter

LEMMA SaidIs ==
    ASSUME NEW ph, NEW page, NEW e, IsA(ph, page, e), NEW from \in 21..22,
           NEW block, NEW tokens, NEW o, SaidAfter(page, block, e, from, tokens, o)
    PROVE  /\ tokens \in Seq(Token) /\ Len(tokens) \in Nat
           /\ o[from] = 0 /\ o[e[Len(Ballot)] + 1] = Len(tokens)
           /\ \A l \in from..(e[Len(Ballot)] + 1) : o[l] \in Nat /\ o[l] <= Len(tokens)
           /\ \A t \in 1..Len(tokens) : \E l \in from..e[Len(Ballot)] : o[l] < t /\ t <= o[l + 1]
           /\ \A l \in from..e[Len(Ballot)] : block[l] = page[l] /\ l \in 1..Len(page)
<1> DEFINE m == e[Len(Ballot)]
<1>1. m \in Nat /\ m >= 22 /\ Len(page) = m + 3
  BY LastEnd
<1>2. Places(tokens, block, from, m, o) /\ BlockIs(page, block, m)
  BY DEF SaidAfter
<1>3. /\ tokens \in Seq(Token) /\ o[from] = 0 /\ o[m + 1] = Len(tokens)
  BY <1>2 DEF Places
<1>4. /\ block \in Seq(Line) /\ Len(block) = m /\ \A l \in 1..m : block[l] = page[l]
  BY <1>2 DEF BlockIs
<1> HIDE DEF m
<1>5. from \in Nat /\ from <= m /\ \A l \in from..m : l \in 1..m /\ l \in 1..Len(page)
  BY <1>1
<1>6. \A l \in from..m : Spoken(block[l]) \in Seq(Token)
  BY <1>4, <1>5, SpokenIs
<1>7. \A l \in from..m : Len(Spoken(block[l])) \in Nat
  BY <1>6
<1>8. /\ \A l \in from..(m + 1) : o[l] \in Nat /\ o[l] <= Len(tokens)
      /\ \A t \in 1..Len(tokens) : \E l \in from..m : o[l] < t /\ t <= o[l + 1]
  BY <1>1, <1>2, <1>5, <1>7, PlacesGrow
<1>9. Len(tokens) \in Nat
  BY <1>3
<1> QED BY <1>3, <1>4, <1>5, <1>8, <1>9 DEF m

(* Without a number in words no score is read. *)
LEMMA NoneRead ==
    ASSUME NEW ph, NEW page, NEW e, IsA(ph, page, e), NEW from \in 21..22, ph.words = {},
           NEW block, BlockIs(page, block, e[Len(Ballot)]), NEW most \in Nat
    PROVE  WordScoresFrom(Tokens(block, from), most) = <<>>
<1> DEFINE tokens == Tokens(block, from)
           m == e[Len(Ballot)]
<1>1. PICK o : SaidAfter(page, block, e, from, tokens, o)
  BY SaidExists
<1> HIDE DEF tokens
<1>2. /\ tokens \in Seq(Token) /\ Len(tokens) \in Nat
      /\ \A l \in from..(m + 1) : o[l] \in Nat
      /\ \A t \in 1..Len(tokens) : \E l \in from..m : o[l] < t /\ t <= o[l + 1]
      /\ \A l \in from..m : block[l] = page[l] /\ l \in 1..Len(page)
  BY <1>1, SaidIs
<1>3. m \in Nat /\ m >= 22 /\ Len(page) = m + 3 /\ page \in Seq(Line)
  BY LastEnd DEF IsA, TextIs
<1>4. Places(tokens, block, from, m, o)
  BY <1>1 DEF SaidAfter
<1>5. ASSUME NEW t \in 1..Len(tokens) PROVE Silent(tokens[t].word)
  <2>1. PICK l \in from..m : o[l] < t /\ t <= o[l + 1]
    BY <1>2
  <2>2. page[l] \in Line /\ block[l] = page[l] /\ l \in 1..Len(page)
    BY <1>2, <1>3
  <2>3. page[l].is # "words"
    <3>1. \A k \in 1..Len(Ballot) : ~Worded(ph, k)
      BY DEF Worded
    <3>2. l # m + 3
      BY <1>3
    <3> QED BY <2>2, <3>1, <3>2, LineKinds
  <2>4. \/ Spoken(block[l]) = <<Word("other")>>
        \/ \E n : Spoken(block[l]) = <<Digits(n)>>
    BY <2>2, <2>3 DEF Spoken
  <2>5. o[l] \in Nat /\ o[l + 1] = o[l] + 1 /\ tokens[o[l] + 1] = Spoken(block[l])[1]
    <3>1. /\ o[l + 1] = o[l] + Len(Spoken(block[l]))
          /\ \A j \in 1..Len(Spoken(block[l])) : tokens[o[l] + j] = Spoken(block[l])[j]
      BY <1>4 DEF Places
    <3>2. Len(Spoken(block[l])) = 1 /\ 1 \in 1..1
      BY <2>4
    <3>3. l \in from..(m + 1)
      BY <1>3
    <3> QED BY <1>2, <3>1, <3>2, <3>3
  <2>6. t = o[l] + 1
    BY <2>1, <2>5
  <2>7. tokens[t] = Word("other") \/ \E n : tokens[t] = Digits(n)
    BY <2>4, <2>5, <2>6
  <2>9. Word("other").word = "other" /\ \A n : Digits(n).word = "digits"
    BY DEF Word, Digits
  <2>8. tokens[t].word = "other" \/ tokens[t].word = "digits"
    BY <2>7, <2>9
  <2> QED BY <2>8, SilentOnes
<1>6. WordScoresFrom(tokens, most) = <<>>
  BY <1>2, <1>5, NoneSaid
<1> QED BY <1>6 DEF tokens

LEMMA RowIsSaid ==
    ASSUME NEW ph, NEW page, NEW e, IsA(ph, page, e), NEW from \in 21..22, ph.words = Code,
           NEW block, NEW tokens, NEW o, SaidAfter(page, block, e, from, tokens, o),
           NEW k \in 1..Len(Ballot)
    PROVE  SaysRow(tokens, o[e[k - 1] + 1] + 1, o[e[k] + 1] + 1, InFigures(ph, k), VotesIn(ph, k))
<1> DEFINE n == Len(Ballot)
           m == e[n]
           l == e[k - 1] + 1
           v == VotesIn(ph, k)
           p == o[l] + 1
           z == o[e[k] + 1] + 1
           words == Said(v)
           w == IF InFigures(ph, k) THEN p + 3 ELSE p + 2
<1>1. /\ n \in Nat /\ m \in Nat /\ m >= 22 /\ Len(page) = m + 3
      /\ e[k - 1] \in Nat /\ e[k - 1] >= 22 /\ e[k] \in Nat
      /\ e[k] = e[k - 1] + RowSize(ph, k) /\ e[k] <= m
  BY LastEnd
<1>2. /\ tokens \in Seq(Token) /\ Len(tokens) \in Nat /\ o[m + 1] = Len(tokens)
      /\ \A i \in from..(m + 1) : o[i] \in Nat /\ o[i] <= Len(tokens)
      /\ \A i \in from..m : block[i] = page[i]
  BY SaidIs
<1>3. Places(tokens, block, from, m, o)
  BY DEF SaidAfter
<1>4. v \in Nat /\ v <= Largest
  <2>1. v \in Nat /\ v <= MostInBox
    BY DEF IsA, FormNumber
  <2>2. Largest \in Nat
    BY SMT DEF Largest
  <2> HIDE DEF v
  <2> QED BY <2>1, <2>2, MostIsRead
<1>5. words \in Seq(Vocabulary) /\ Len(words) \in Nat /\ Len(words) >= 1
  BY <1>4, SaidHolds
<1>6. Worded(ph, k) /\ (InFigures(ph, k) => RowSize(ph, k) = 4) /\ (~InFigures(ph, k) => RowSize(ph, k) = 3)
  <2>1. Worded(ph, k)
    BY CodesFinite DEF Worded, Code
  <2> QED BY <2>1 DEF RowSize
<1>7. /\ page[l] = Number(k) /\ page[e[k - 1] + 2] = PartyCode(Ballot[k])
      /\ InFigures(ph, k) => page[e[k - 1] + 3] = Number(v)
      /\ page[e[k]] = InWords(words)
  <2>1. RowIs(ph, page, e, k)
    BY DEF IsA, TextIs
  <2> QED BY <1>6, <2>1 DEF RowIs, Said
<1> HIDE DEF n, m, v, words, p, z, w
<1>21. /\ from \in Nat /\ from <= 22 /\ l \in Nat /\ l >= 23
       /\ e[k] = (IF InFigures(ph, k) THEN l + 3 ELSE l + 2)
       /\ l + 1 = e[k - 1] + 2 /\ l + 2 = e[k - 1] + 3
  <2> DEFINE x == e[k - 1]
             c == RowSize(ph, k)
  <2>1. /\ x \in Nat /\ x >= 22 /\ e[k] = x + c /\ c = (IF InFigures(ph, k) THEN 4 ELSE 3)
        /\ l = x + 1
    BY <1>1, <1>6
  <2> HIDE DEF x, c, l
  <2>2. /\ l \in Nat /\ l >= 23 /\ e[k] = (IF InFigures(ph, k) THEN l + 3 ELSE l + 2)
        /\ l + 1 = x + 2 /\ l + 2 = x + 3
    BY <2>1
  <2>3. from \in Nat /\ from <= 22
    OBVIOUS
  <2> QED BY <2>2, <2>3 DEF x
<1> HIDE DEF l
<1>22. e[k] \in Nat /\ e[k] <= m /\ m \in Nat
  BY <1>1
<1> DEFINE y == e[k]
<1> HIDE DEF y
<1>8. /\ l + 1 = e[k - 1] + 2 /\ l + 2 = e[k - 1] + 3 /\ l \in from..m /\ l + 1 \in from..m
      /\ l + 2 \in from..m /\ e[k] \in from..m /\ l \in from..(m + 1)
      /\ e[k] \in from..(m + 1) /\ e[k] + 1 \in from..(m + 1)
  <2>1. /\ y = (IF InFigures(ph, k) THEN l + 3 ELSE l + 2)
        /\ y \in Nat /\ y <= m /\ l + 1 = e[k - 1] + 2 /\ l + 2 = e[k - 1] + 3
    BY <1>21, <1>22 DEF y
  <2>2. /\ l \in from..m /\ l + 1 \in from..m /\ l + 2 \in from..m /\ y \in from..m
        /\ l \in from..(m + 1) /\ y \in from..(m + 1) /\ y + 1 \in from..(m + 1)
    BY <1>21, <1>22, <2>1
  <2> QED BY <2>1, <2>2 DEF y
<1>23. /\ Spoken(block[l]) = <<Digits(k)>> /\ Spoken(block[l + 1]) = <<Word("other")>>
       /\ InFigures(ph, k) => Spoken(block[l + 2]) = <<Digits(v)>>
       /\ block[e[k]] = InWords(words)
  BY <1>2, <1>7, <1>8, SpokenLines
<1>9. o[l + 1] = o[l] + 1 /\ tokens[o[l] + 1] = Digits(k) /\ o[l] \in Nat
  <2>1. o[l + 1] = o[l] + 1 /\ tokens[o[l] + 1] = Digits(k)
    BY <1>3, <1>8, <1>23, OneToken
  <2> QED BY <1>2, <1>8, <2>1
<1>10. o[l + 1 + 1] = o[l + 1] + 1 /\ tokens[o[l + 1] + 1] = Word("other")
  BY <1>3, <1>8, <1>23, OneToken
<1>11. /\ o[e[k] + 1] = o[e[k]] + Len(words) /\ o[e[k]] \in Nat
       /\ \A j \in 1..Len(words) : tokens[o[e[k]] + j].word = words[j]
       /\ o[e[k] + 1] <= Len(tokens)
  <2>1. /\ o[e[k] + 1] = o[e[k]] + Len(words)
        /\ \A j \in 1..Len(words) : tokens[o[e[k]] + j].word = words[j]
    BY <1>3, <1>5, <1>8, <1>23, WordTokens
  <2> QED BY <1>2, <1>8, <2>1
<1>12. l + 1 + 1 = l + 2 /\ l \in Nat
  BY <1>21
<1>13. p \in Nat /\ p >= 1 /\ tokens[p].word = "digits" /\ tokens[p + 1] = Word("other")
  BY <1>9, <1>10 DEF Digits, p
<1>14. o[l + 2] = p + 1
  BY <1>9, <1>10, <1>12 DEF p
<1>15. /\ InFigures(ph, k) => tokens[p + 2] = Digits(v)
       /\ o[e[k]] + 1 = w
  <2>1. CASE InFigures(ph, k)
    <3>1. o[l + 2 + 1] = o[l + 2] + 1 /\ tokens[o[l + 2] + 1] = Digits(v)
      BY <1>3, <1>8, <1>23, <2>1, OneToken
    <3>2. p + 1 + 1 = p + 2 /\ l + 2 + 1 = e[k]
      BY <1>13, <1>21, <2>1
    <3>3. o[e[k]] = p + 1 + 1
      BY <1>14, <3>1, <3>2
    <3> QED BY <1>13, <1>14, <2>1, <3>1, <3>2, <3>3 DEF w
  <2>2. CASE ~InFigures(ph, k)
    <3>1. l + 2 = e[k]
      BY <1>21, <2>2
    <3> QED BY <1>13, <1>14, <2>2, <3>1 DEF w
  <2> QED BY <2>1, <2>2
<1>16. w \in Nat /\ w >= 1 /\ w <= Len(tokens) /\ z = w + Len(words)
  <2> DEFINE x == o[e[k]]
             y2 == o[e[k] + 1]
             c == Len(words)
             t == Len(tokens)
  <2>1. x \in Nat /\ y2 = x + c /\ y2 <= t /\ x + 1 = w /\ c \in Nat /\ c >= 1 /\ t \in Nat
    BY <1>2, <1>5, <1>11, <1>15
  <2>2. z = y2 + 1
    BY DEF z
  <2> HIDE DEF x, y2, c, t
  <2>3. w \in Nat /\ w >= 1 /\ w <= t /\ z = w + c
    BY <2>1, <2>2
  <2> QED BY <2>3 DEF c, t
<1>17. Holds(tokens, w, words)
  <2> SUFFICES ASSUME NEW j \in 1..Len(words)
               PROVE  w + j - 1 \in 1..Len(tokens) /\ tokens[w + j - 1].word = words[j]
    BY DEF Holds
  <2> DEFINE x == o[e[k]]
             y2 == o[e[k] + 1]
             c == Len(words)
             t == Len(tokens)
  <2>3. /\ x \in Nat /\ y2 = x + c /\ y2 <= t /\ x + 1 = w /\ c \in Nat /\ t \in Nat
        /\ j \in 1..c
    BY <1>2, <1>5, <1>11, <1>15
  <2> HIDE DEF x, y2, c, t
  <2>4. w + j - 1 = x + j /\ w + j - 1 \in 1..t
    BY <2>3
  <2>1. w + j - 1 = o[e[k]] + j
    BY <2>4 DEF x
  <2>2. w + j - 1 \in 1..Len(tokens)
    BY <2>4 DEF t
  <2> QED BY <1>11, <2>1, <2>2
<1>18. z <= Len(tokens) => tokens[z].word = "digits"
  <2> SUFFICES ASSUME z <= Len(tokens) PROVE tokens[z].word = "digits"
    OBVIOUS
  <2>1. k # n
    <3>1. ASSUME k = n PROVE FALSE
      <4>1. z = Len(tokens) + 1
        BY <1>2, <3>1 DEF m, z
      <4> QED BY <1>2, <4>1
    <3> QED BY <3>1
  <2>2. PICK i \in 1..Len(Ballot) : i = k + 1 /\ i - 1 = k
    BY <1>1, <2>1 DEF n
  <2>3. RowIs(ph, page, e, i) /\ e[i] \in Nat /\ e[i] = e[i - 1] + RowSize(ph, i) /\ e[i] <= m
    BY LastEnd DEF IsA, TextIs, m, n
  <2>4. page[e[k] + 1] = Number(i)
    BY <2>2, <2>3 DEF RowIs
  <2>5. RowSize(ph, i) \in 2..4
    BY RowSizes
  <2>6. e[k] + 1 \in from..m
    <3>1. e[i] = y + RowSize(ph, i) /\ y \in Nat /\ y >= from
      BY <1>8, <1>21, <1>22, <2>2, <2>3 DEF y
    <3>2. y + 1 \in from..m
      BY <1>21, <1>22, <2>3, <2>5, <3>1
    <3> QED BY <3>2 DEF y
  <2>7. tokens[o[e[k] + 1] + 1] = Digits(i)
    <3>1. Spoken(block[e[k] + 1]) = <<Digits(i)>>
      BY <1>2, <2>4, <2>6, SpokenLines
    <3> QED BY <1>3, <2>6, <3>1, OneToken
  <2> QED BY <2>7 DEF Digits, z
<1>19. w = IF InFigures(ph, k) THEN p + 3 ELSE p + 2
  BY DEF w
<1>20. SaysRow(tokens, p, z, InFigures(ph, k), v)
  BY <1>4, <1>13, <1>15, <1>16, <1>17, <1>18, <1>19 DEF SaysRow, words
<1> QED BY <1>20 DEF p, z, v, l

(* With every number in words the votes of all parties are read. *)
LEMMA AllRead ==
    ASSUME NEW ph, NEW page, NEW e, IsA(ph, page, e), NEW from \in 21..22, ph.words = Code,
           NEW block, BlockIs(page, block, e[Len(Ballot)]),
           NEW most \in Nat, most >= Len(Ballot)
    PROVE  WordScoresFrom(Tokens(block, from), most) = VotesFrom(ph, 1)
<1> DEFINE n == Len(Ballot)
           tokens == Tokens(block, from)
           m == e[n]
<1>1. PICK o : SaidAfter(page, block, e, from, tokens, o)
  BY SaidExists
<1> DEFINE P == [k \in 1..(n + 1) |-> o[e[k - 1] + 1] + 1]
<1> HIDE DEF tokens
<1>2. /\ tokens \in Seq(Token) /\ Len(tokens) \in Nat /\ o[from] = 0 /\ o[m + 1] = Len(tokens)
      /\ \A l \in from..m : block[l] = page[l]
  BY <1>1, SaidIs
<1>3. Places(tokens, block, from, m, o)
  BY <1>1 DEF SaidAfter
<1>4. m \in Nat /\ m >= 22 /\ n \in Nat /\ n >= 1 /\ e[0] = 22
  <2>1. m \in Nat /\ m >= 22 /\ n \in Nat
    BY LastEnd
  <2>2. n >= 1
    BY ReadingAssumption, FormAssumption
  <2> QED BY <2>1, <2>2 DEF IsA, RowEnds
<1>5. page[21] = Heading("inWords") /\ page[22] = Heading("agents")
  BY DEF IsA, TextIs
<1>6. PICK r : WordScoresFrom(tokens, most) = r[1][most] /\ Scored(tokens, most, r)
  BY <1>2, ScoresExist DEF Scored
<1>7. ASSUME NEW k \in 1..n
      PROVE  SaysRow(tokens, P[k], P[k + 1], InFigures(ph, k), VotesIn(ph, k))
  <2>1. k \in 1..(n + 1) /\ k + 1 \in 1..(n + 1) /\ k + 1 - 1 = k
    BY <1>4
  <2>2. P[k] = o[e[k - 1] + 1] + 1 /\ P[k + 1] = o[e[k] + 1] + 1
    BY <2>1
  <2>3. SaysRow(tokens, o[e[k - 1] + 1] + 1, o[e[k] + 1] + 1, InFigures(ph, k), VotesIn(ph, k))
    BY <1>1, RowIsSaid
  <2> QED BY <2>2, <2>3
<1>8. P[n + 1] = Len(tokens) + 1
  <2>1. n + 1 \in 1..(n + 1) /\ n + 1 - 1 = n
    BY <1>4
  <2> QED BY <1>2, <2>1
<1>9. P[1] = o[23] + 1
  <2>1. 1 \in 1..(n + 1) /\ 1 - 1 = 0 /\ 22 + 1 = 23
    BY <1>4
  <2> QED BY <1>4, <2>1
<1> HIDE DEF P
<1>10. r[P[1]][most] = VotesFrom(ph, 1)
  <2>1. FormNumber(ph) /\ most \in Len(Ballot)..most
    BY <1>4 DEF IsA
  <2> QED BY <1>2, <1>6, <1>7, <1>8, <2>1, AllSaid
<1>11. tokens[P[1]].word = "digits" /\ P[1] <= Len(tokens) /\ P[1] \in Nat
  <2>1. 1 \in 1..n
    BY <1>4
  <2>2. SaysRow(tokens, P[1], P[1 + 1], InFigures(ph, 1), VotesIn(ph, 1))
    BY <1>7, <2>1
  <2>3. /\ P[1] \in Nat /\ tokens[P[1]].word = "digits"
        /\ (IF InFigures(ph, 1) THEN P[1] + 3 ELSE P[1] + 2) <= Len(tokens)
    BY <2>2 DEF SaysRow
  <2> QED BY <1>2, <2>3
<1>12. Silent(tokens[P[1]].word)
  BY <1>11, SilentOnes
<1>13. ASSUME NEW i \in 1..Len(tokens), i < Len(tokens),
              Silent(tokens[i].word), Silent(tokens[i + 1].word)
       PROVE  Passes(most, r, i, i + 1)
  <2>1. i \in 1..(Len(tokens) + 1) /\ i + 1 \in 1..(Len(tokens) + 1)
    BY <1>2, <1>13
  <2>2. ParseNumberWords(tokens, i).next = i /\ ParseNumberWords(tokens, i + 1).next = i + 1
    BY <1>2, <1>13, <2>1, SilentRead
  <2> QED BY <1>2, <1>6, <2>2, PassStep
<1>14. Word("other").word = "other"
  BY DEF Word
<1>15. ASSUME NEW l \in from..m, NEW h, page[l] = Heading(h)
       PROVE  o[l + 1] = o[l] + 1 /\ Silent(tokens[o[l] + 1].word)
  <2>1. Spoken(block[l]) = <<Word("other")>>
    BY <1>2, <1>15, SpokenLines
  <2>2. o[l + 1] = o[l] + 1 /\ tokens[o[l] + 1] = Word("other")
    BY <1>3, <2>1, OneToken
  <2> QED BY <1>14, <2>2, SilentOnes
<1>16. CASE from = 22
  <2>1. from \in from..m
    BY <1>4, <1>16
  <2>2. o[23] = 1 /\ Silent(tokens[1].word)
    BY <1>2, <1>5, <1>15, <1>16, <2>1
  <2>3. P[1] = 2
    BY <1>9, <2>2
  <2>4. Passes(most, r, 1, 1 + 1)
    BY <1>2, <1>11, <1>12, <1>13, <2>2, <2>3
  <2>5. r[1][most] = r[2][most]
    BY <2>4 DEF Passes
  <2> QED BY <1>6, <1>10, <2>3, <2>5 DEF tokens
<1>17. CASE from = 21
  <2>1. 21 \in from..m /\ 22 \in from..m
    BY <1>4, <1>17
  <2>2. o[22] = 1 /\ Silent(tokens[1].word)
    BY <1>2, <1>5, <1>15, <1>17, <2>1
  <2>3. o[23] = 2 /\ Silent(tokens[2].word)
    BY <1>5, <1>15, <2>1, <2>2
  <2>4. P[1] = 3
    BY <1>9, <2>3
  <2>5. Passes(most, r, 1, 1 + 1) /\ Passes(most, r, 2, 2 + 1)
    BY <1>2, <1>11, <1>12, <1>13, <2>2, <2>3, <2>4
  <2>6. r[1][most] = r[2][most] /\ r[2][most] = r[3][most]
    BY <2>5 DEF Passes
  <2> QED BY <1>6, <1>10, <2>4, <2>6 DEF tokens
<1> QED BY <1>16, <1>17

(* What extractWordScores gives. *)
LEMMA ScoresAre ==
    ASSUME NEW ph, NEW page, NEW e, IsA(ph, page, e), NEW from \in 21..22
    PROVE  /\ ph.words = {} => ScoresFrom(page, from, Len(Ballot)) = <<>>
           /\ ph.words = Code => ScoresFrom(page, from, Len(Ballot)) = VotesFrom(ph, 1)
<1> DEFINE n == Len(Ballot)
           block == SubSeq(page, 1, TotalAfter(page, from) - 1)
           w == WordScoresFrom(Tokens(block, from), n + 2)
<1>1. n \in Nat /\ n + 2 \in Nat /\ n + 2 >= n
  BY CodesFinite
<1>2. BlockIs(page, block, e[n])
  BY BlockHolds
<1>3. ScoresFrom(page, from, n) = SubSeq(w, 1, Min({Len(w), n}))
  BY DEF ScoresFrom
<1> HIDE DEF block
<1>4. CASE ph.words = {}
  <2>1. w = <<>>
    BY <1>1, <1>2, <1>4, NoneRead
  <2>2. Len(w) = 0
    BY <2>1
  <2> HIDE DEF w
  <2>3. Min({Len(w), n}) = 0
    BY <1>1, <2>2, MinIs
  <2>4. ScoresFrom(page, from, n) = <<>>
    BY <1>3, <2>3, SubSeqEmpty
  <2>5. ph.words # Code
    <3>1. Ballot[1] \in Code
      BY ReadingAssumption, FormAssumption
    <3> QED BY <1>4, <3>1
  <2> QED BY <2>4, <2>5
<1>5. CASE ph.words = Code
  <2>1. w = VotesFrom(ph, 1)
    BY <1>1, <1>2, <1>5, AllRead
  <2>2. \A k \in 1..n : VotesIn(ph, k) \in Nat
    BY DEF IsA, FormNumber
  <2> HIDE DEF w, n
  <2>3. w \in Seq(Nat) /\ Len(w) = n
    <3>1. VotesFrom(ph, 1) = [j \in 1..n |-> VotesIn(ph, 1 + j - 1)]
      <4>1. n - 1 + 1 = n
        BY <1>1
      <4> QED BY <4>1 DEF VotesFrom, n
    <3>2. \A j \in 1..n : 1 + j - 1 \in 1..n
      BY <1>1
    <3> QED BY <1>1, <2>1, <2>2, <3>1, <3>2
  <2>4. Min({Len(w), n}) = Len(w)
    <3>1. {Len(w), n} = {n} /\ {n} \in SUBSET Int
      BY <1>1, <2>3
    <3>2. Min({n}) = n
      BY <1>1, <3>1, MinIs
    <3> QED BY <2>3, <3>1, <3>2
  <2>5. SubSeq(w, 1, Len(w)) = w
    BY <2>3, SubSeqFull
  <2>6. ScoresFrom(page, from, n) = VotesFrom(ph, 1)
    BY <1>3, <2>1, <2>4, <2>5
  <2>7. ph.words # {}
    <3>1. Ballot[1] \in Code
      BY ReadingAssumption, FormAssumption
    <3> QED BY <1>5, <3>1
  <2> QED BY <2>6, <2>7 DEF n
<1> QED BY <1>4, <1>5

LEMMA WordScoresOfText ==
    ASSUME NEW ph, NEW page, NEW e, IsA(ph, page, e)
    PROVE  /\ ph.words = {} => ExtractWordScores(page, Len(Ballot)) = <<>>
           /\ ph.words = Code => ExtractWordScores(page, Len(Ballot)) = VotesFrom(ph, 1)
<1> DEFINE n == Len(Ballot)
           inWords == Headings(page, "inWords")
           agents == {h \in Headings(page, "agents") : h = Min(Headings(page, "agents"))}
                     \union {l \in Labels(page) : page[l].of = "usedBallotPapers"}
           a == ScoresFrom(page, Min(inWords), n)
           b == ScoresFrom(page, Max(agents), n)
<1>1. inWords = {21} /\ Headings(page, "agents") = {22}
  <2>1. 21 \in DOMAIN page /\ 22 \in DOMAIN page
    <3>1. DOMAIN page = 1..(e[n] + 3) /\ e[n] \in Nat /\ e[n] >= 22
      BY LastEnd
    <3> QED BY <3>1
  <2>2. \A i : (HeadingAt(page, i, "inWords") <=> i = 21) /\ (HeadingAt(page, i, "agents") <=> i = 22)
    BY HeadingsAre
  <2> QED BY <2>1, <2>2 DEF Headings
<1>2. Min(inWords) = 21 /\ Min(Headings(page, "agents")) = 22
  <2>1. {21} \in SUBSET Int /\ {22} \in SUBSET Int
    OBVIOUS
  <2>2. Min({21}) = 21
    BY <2>1, MinIs
  <2>3. Min({22}) = 22
    BY <2>1, MinIs
  <2> QED BY <1>1, <2>2, <2>3
<1>3. \A l \in Labels(page) : l \in 1..18
  <2>1. Labels(page) = {LabelAt(ph, k) : k \in 1..8}
    BY LabelsOfText
  <2>2. \A k \in 1..8 : LabelAt(ph, k) \in 1..18
    BY SummaryPlaces DEF IsA
  <2> QED BY <2>1, <2>2
<1>4. agents \in SUBSET Int /\ 22 \in agents /\ \A x \in agents : 22 >= x
  BY <1>1, <1>2, <1>3
<1>5. Max(agents) = 22
  <2> HIDE DEF agents
  <2> QED BY <1>4, MaxIs
<1>6. ExtractWordScores(page, n) = CASE inWords = {} /\ agents = {} -> <<>>
          [] inWords = {} /\ agents # {} -> b
          [] inWords # {} /\ agents = {} -> a
          [] OTHER -> Better(a, b, n)
  BY DEF ExtractWordScores
<1>7. inWords # {} /\ agents # {}
  BY <1>1, <1>4
<1>8. a = ScoresFrom(page, 21, n) /\ b = ScoresFrom(page, 22, n)
  BY <1>2, <1>5
<1> HIDE DEF inWords, agents, a, b, n
<1>9. ExtractWordScores(page, n) = Better(a, b, n)
  BY <1>6, <1>7, Zenon
<1>10. Better(a, b, n) = a \/ Better(a, b, n) = b
  BY DEF Better
<1>11. /\ ph.words = {} => a = <<>> /\ b = <<>>
       /\ ph.words = Code => a = VotesFrom(ph, 1) /\ b = VotesFrom(ph, 1)
  <2>1. 21 \in 21..22 /\ 22 \in 21..22
    OBVIOUS
  <2> QED BY <1>8, <2>1, ScoresAre DEF n
<1> QED BY <1>9, <1>10, <1>11 DEF n

-----------------------------------------------------------------------------
(* What is read of a form's text. *)
LEMMA BallotIs ==
    /\ Len(Ballot) \in Nat /\ Len(Ballot) >= 1 /\ Len(Ballot) >= Enough
    /\ Enough \in Nat /\ Enough >= 1 /\ Len(Ballot) <= 20
    /\ \A k \in 1..Len(Ballot) : Ballot[k] \in Code
    /\ \A c \in Code : \E k \in 1..Len(Ballot) : c = Ballot[k]
    /\ \A j, k \in 1..Len(Ballot) : Ballot[j] = Ballot[k] => j = k
<1>1. Enough \in Nat /\ Enough >= 1
  BY ReadingAssumption
<1>2. Len(Ballot) \in Nat /\ DOMAIN Ballot = 1..Len(Ballot)
  BY CodesFinite
<1>3. Len(Ballot) \in Enough..20
  BY FormAssumption
<1>4. /\ \A k \in 1..Len(Ballot) : Ballot[k] \in Code
      /\ \A c \in Code : \E k \in 1..Len(Ballot) : c = Ballot[k]
  BY <1>2 DEF Code
<1>5. \A j, k \in 1..Len(Ballot) : Ballot[j] = Ballot[k] => j = k
  BY <1>2, ReadingAssumption
<1> QED BY <1>1, <1>2, <1>3, <1>4, <1>5

(* A party for each row that has votes, with the votes of its row. *)
Gives(parties, V) ==
    parties = [c \in {Ballot[k] : k \in {j \in 1..Len(Ballot) : V[j] # NoVotes}} |->
                  V[CHOOSE k \in 1..Len(Ballot) : Ballot[k] = c]]

LEMMA RowOfCode ==
    ASSUME NEW k \in 1..Len(Ballot)
    PROVE  (CHOOSE j \in 1..Len(Ballot) : Ballot[j] = Ballot[k]) = k
BY BallotIs

LEMMA VotesOfTableAre ==
    ASSUME NEW ph, NEW words, NEW V,
           \A k \in 1..Len(Ballot) :
              V[k] = IF Len(words) >= Lesser(Enough, Len(Ballot)) /\ k \in DOMAIN words
                     THEN words[k] ELSE TableVotes(ph, k)
    PROVE  Gives(VotesOfTable(TableOf(ph), words), V)
<1> DEFINE n == Len(Ballot)
           table == TableOf(ph)
           enough == Len(words) >= Lesser(Enough, Len(table))
           votes(k) == IF enough /\ k \in DOMAIN words THEN words[k] ELSE table[k].votes
           read == {k \in DOMAIN table : votes(k) # NoVotes}
           result == [c \in {table[k].code : k \in read} |->
                         votes(Max({k \in read : table[k].code = c}))]
<1>1. n \in Nat
  BY BallotIs
<1>2. /\ DOMAIN table = 1..n /\ Len(table) = n
      /\ \A k \in 1..n : table[k].code = Ballot[k] /\ table[k].votes = TableVotes(ph, k)
  BY <1>1 DEF TableOf, Row
<1>3. VotesOfTable(table, words) = result
  BY DEF VotesOfTable
<1> HIDE DEF table, n
<1>4. \A k \in 1..n : votes(k) = V[k]
  BY <1>2 DEF n
<1> HIDE DEF votes
<1>5. read = {j \in 1..n : V[j] # NoVotes}
  BY <1>2, <1>4
<1>6. {table[k].code : k \in read} = {Ballot[k] : k \in {j \in 1..n : V[j] # NoVotes}}
  <2>1. \A k \in read : table[k].code = Ballot[k]
    BY <1>2, <1>5
  <2> HIDE DEF read
  <2> QED BY <1>5, <2>1
<1>7. ASSUME NEW k \in read PROVE Max({j \in read : table[j].code = Ballot[k]}) = k
  <2>1. read \subseteq 1..n /\ \A j \in read : table[j].code = Ballot[j]
    BY <1>2, <1>5
  <2>2. \A j \in read : Ballot[j] = Ballot[k] => j = k
    BY <2>1, BallotIs DEF n
  <2> HIDE DEF read
  <2>3. {j \in read : table[j].code = Ballot[k]} = {k}
    BY <2>1, <2>2
  <2>4. {k} \in SUBSET Int
    BY <1>1, <2>1
  <2>5. Max({k}) = k
    BY <1>1, <2>1, <2>4, MaxIs
  <2> QED BY <2>3, <2>5
<1>8. ASSUME NEW c \in {Ballot[k] : k \in {j \in 1..n : V[j] # NoVotes}}
      PROVE  votes(Max({k \in read : table[k].code = c}))
                = V[CHOOSE k \in 1..n : Ballot[k] = c]
  <2>1. PICK k \in read : c = Ballot[k]
    BY <1>5, <1>8
  <2>2. k \in 1..n
    BY <1>5
  <2>3. (CHOOSE j \in 1..n : Ballot[j] = c) = k
    BY <2>1, <2>2, RowOfCode DEF n
  <2>4. Max({j \in read : table[j].code = c}) = k
    BY <1>7, <2>1
  <2> QED BY <1>4, <2>2, <2>3, <2>4
<1> HIDE DEF read
<1>9. result = [c \in {Ballot[k] : k \in {j \in 1..n : V[j] # NoVotes}} |->
                   V[CHOOSE k \in 1..n : Ballot[k] = c]]
  BY <1>6, <1>8
<1> QED BY <1>3, <1>9 DEF Gives, table, n

LEMMA VotesAreFunction ==
    \A table, words :
       VotesOfTable(table, words)
          = [c \in DOMAIN VotesOfTable(table, words) |-> VotesOfTable(table, words)[c]]
<1> SUFFICES ASSUME NEW table, NEW words
             PROVE  VotesOfTable(table, words)
                       = [c \in DOMAIN VotesOfTable(table, words) |-> VotesOfTable(table, words)[c]]
  OBVIOUS
<1> DEFINE enough == Len(words) >= Lesser(Enough, Len(table))
           votes(k) == IF enough /\ k \in DOMAIN words THEN words[k] ELSE table[k].votes
           read == {k \in DOMAIN table : votes(k) # NoVotes}
           S == {table[k].code : k \in read}
           of(c) == votes(Max({k \in read : table[k].code = c}))
<1>1. VotesOfTable(table, words) = [c \in S |-> of(c)]
  BY DEF VotesOfTable
<1> HIDE DEF S, of
<1> QED BY <1>1

LEMMA GivesAll ==
    ASSUME NEW votes \in [Code -> Nat], NEW V, NEW parties, Gives(parties, V),
           \A k \in 1..Len(Ballot) : V[k] = votes[Ballot[k]]
    PROVE  parties = votes
<1> DEFINE n == Len(Ballot)
           S == {Ballot[k] : k \in {j \in 1..n : V[j] # NoVotes}}
<1>1. \A k \in 1..n : V[k] # NoVotes
  BY BallotIs DEF NoVotes
<1>2. S = Code
  BY <1>1, BallotIs
<1>3. ASSUME NEW c \in Code PROVE V[CHOOSE k \in 1..n : Ballot[k] = c] = votes[c]
  <2>1. PICK k \in 1..n : c = Ballot[k]
    BY BallotIs
  <2> QED BY <2>1, RowOfCode
<1>4. parties = [c \in S |-> V[CHOOSE k \in 1..n : Ballot[k] = c]]
  BY DEF Gives
<1> HIDE DEF S
<1> QED BY <1>2, <1>3, <1>4

LEMMA GivesSome ==
    ASSUME NEW votes \in [Code -> Nat], NEW V, NEW parties, Gives(parties, V),
           \A k \in 1..Len(Ballot) : V[k] = votes[Ballot[k]] \/ V[k] = NoVotes
    PROVE  \A c \in DOMAIN parties : parties[c] = votes[c]
<1> DEFINE n == Len(Ballot)
           S == {Ballot[k] : k \in {j \in 1..n : V[j] # NoVotes}}
<1>1. parties = [c \in S |-> V[CHOOSE k \in 1..n : Ballot[k] = c]]
  BY DEF Gives
<1>2. ASSUME NEW c \in S PROVE V[CHOOSE k \in 1..n : Ballot[k] = c] = votes[c]
  <2>1. PICK k \in 1..n : c = Ballot[k] /\ V[k] # NoVotes
    OBVIOUS
  <2>2. (CHOOSE j \in 1..n : Ballot[j] = c) = k
    BY <2>1, RowOfCode
  <2>3. V[k] = votes[Ballot[k]]
    BY <2>1
  <2> QED BY <2>1, <2>2, <2>3
<1> HIDE DEF S
<1> QED BY <1>1, <1>2

LEMMA PartiesOfText ==
    ASSUME NEW ph, NEW page, NEW e, IsA(ph, page, e), RowsPlain(ph), NEW parties,
           parties = ExtractPartiesFromWordsAndTable(page)
    PROVE  /\ ph.words = Code => parties = ph.sheet.parties
           /\ ph.words = {} /\ (\A k \in 1..Len(Ballot) : TableVotes(ph, k) # NoVotes) =>
                 parties = ph.sheet.parties
           /\ ph.words = {} => \A c \in DOMAIN parties : parties[c] = ph.sheet.parties[c]
<1> DEFINE n == Len(Ballot)
           table == TableOf(ph)
           words == ExtractWordScores(page, n)
           wordsFor(t) == ExtractWordScores(page, IF t = <<>> THEN 18 ELSE Len(t))
           read(t) == VotesOfTable(t, wordsFor(t))
           votes == ph.sheet.parties
<1>1. ExtractPartyTable(page) = table
  BY TableIs
<1>2. n \in Nat /\ n >= 1
  BY BallotIs
<1>3. table # <<>> /\ Len(table) = n
  <2>1. DOMAIN table = 1..n /\ Len(table) = n
    BY <1>2 DEF TableOf
  <2>2. Len(<<>>) = 0
    OBVIOUS
  <2> QED BY <1>2, <2>1, <2>2
<1>4. parties = read(ExtractPartyTable(page))
  BY DEF ExtractPartiesFromWordsAndTable
<1> HIDE DEF table, n
<1>5. parties = VotesOfTable(table, words)
  BY <1>1, <1>3, <1>4
<1> HIDE DEF words
<1>6. votes \in [Code -> Nat] /\ \A k \in 1..n : votes[Ballot[k]] = VotesIn(ph, k)
  BY DEF IsA, FormNumber, VotesIn
<1> HIDE DEF votes
<1>7. Lesser(Enough, n) \in Nat /\ Lesser(Enough, n) >= 1 /\ Lesser(Enough, n) <= n
  BY BallotIs DEF Lesser, n
<1>8. CASE ph.words = Code
  <2> DEFINE V == [k \in 1..n |-> VotesIn(ph, k)]
  <2>1. words = VotesFrom(ph, 1)
    BY <1>8, WordScoresOfText DEF words, n
  <2>2. words = V
    <3>1. n - 1 + 1 = n /\ \A j \in 1..n : 1 + j - 1 = j
      BY <1>2
    <3> QED BY <2>1, <3>1 DEF VotesFrom, n
  <2>3. Len(words) = n /\ DOMAIN words = 1..n
    BY <1>2, <2>2
  <2>4. \A k \in 1..n : V[k] = words[k]
    BY <2>2
  <2> HIDE DEF V
  <2>5. \A k \in 1..n : V[k] = IF Len(words) >= Lesser(Enough, n) /\ k \in DOMAIN words
                               THEN words[k] ELSE TableVotes(ph, k)
    BY <1>7, <2>3, <2>4
  <2>6. Gives(parties, V)
    BY <1>5, <2>5, VotesOfTableAre DEF table, n
  <2>7. \A k \in 1..n : V[k] = votes[Ballot[k]]
    BY <1>6 DEF V
  <2>8. parties = votes
    BY <1>6, <2>6, <2>7, GivesAll DEF n
  <2>9. ph.words # {}
    BY <1>8, BallotIs
  <2> QED BY <2>8, <2>9 DEF votes
<1>9. CASE ph.words = {}
  <2> DEFINE V == [k \in 1..n |-> TableVotes(ph, k)]
  <2>1. words = <<>>
    BY <1>9, WordScoresOfText DEF words, n
  <2>2. ~(Len(words) >= Lesser(Enough, n))
    BY <1>7, <2>1
  <2>3. \A k \in 1..n : V[k] = TableVotes(ph, k)
    OBVIOUS
  <2> HIDE DEF V
  <2>4. \A k \in 1..n : V[k] = IF Len(words) >= Lesser(Enough, n) /\ k \in DOMAIN words
                               THEN words[k] ELSE TableVotes(ph, k)
    BY <2>2, <2>3
  <2>5. Gives(parties, V)
    BY <1>5, <2>4, VotesOfTableAre DEF table, n
  <2>6. \A k \in 1..n : V[k] = votes[Ballot[k]] \/ V[k] = NoVotes
    BY <1>6, <2>3 DEF TableVotes
  <2>7. \A c \in DOMAIN parties : parties[c] = votes[c]
    BY <1>6, <2>5, <2>6, GivesSome DEF n
  <2>8. (\A k \in 1..n : TableVotes(ph, k) # NoVotes) => parties = votes
    <3> SUFFICES ASSUME \A k \in 1..n : TableVotes(ph, k) # NoVotes PROVE parties = votes
      OBVIOUS
    <3>1. \A k \in 1..n : V[k] = votes[Ballot[k]]
      BY <2>3, <2>6
    <3> QED BY <1>6, <2>5, <3>1, GivesAll DEF n
  <2>9. ph.words # Code
    BY <1>9, BallotIs
  <2> QED BY <2>7, <2>8, <2>9 DEF votes, n
<1> QED BY <1>8, <1>9

LEMMA TextRead ==
    ASSUME NEW ph, NEW page, NEW e, IsA(ph, page, e), RowsPlain(ph)
    PROVE  ParseEc8aOcrText(page) = Extract(ph.sheet.fields, ExtractPartiesFromWordsAndTable(page))
<1> DEFINE n == Len(Ballot)
           byCode == IF Len(ExtractPartyTable(page)) < Enough
                     THEN ExtractPartiesByCode(page) ELSE Nothing
           parties == ExtractPartiesFromWordsAndTable(page)
           fields == ApplyPatternFields(page, AssignClusteredFields(page))
<1>1. Len(ExtractPartyTable(page)) = n
  <2>1. ExtractPartyTable(page) = TableOf(ph)
    BY TableIs
  <2>2. n \in Nat
    BY BallotIs
  <2> QED BY <2>1, <2>2 DEF TableOf
<1>2. byCode = Nothing
  BY <1>1, BallotIs
<1>3. Over(parties, Nothing) = parties
  <2>1. parties = [c \in DOMAIN parties |-> parties[c]]
    BY VotesAreFunction DEF ExtractPartiesFromWordsAndTable
  <2> HIDE DEF parties
  <2> QED BY <2>1 DEF Over, Nothing
<1>4. fields = ph.sheet.fields
  <2>1. AssignClusteredFields(page) = ph.sheet.fields
    BY BoxesRead
  <2>2. ph.sheet.fields \in [Box -> Nat]
    BY DEF IsA, FormNumber
  <2> QED BY <2>1, <2>2, PatternsKeep
<1>5. ParseEc8aOcrText(page) = Extract(fields, Over(parties, byCode))
  BY DEF ParseEc8aOcrText
<1> QED BY <1>2, <1>3, <1>4, <1>5

-----------------------------------------------------------------------------
(* A filled form's numbers are ones a box holds. *)
LEMMA EachWithin ==
    ASSUME NEW votes \in [Code -> Nat]
    PROVE  /\ Total(votes) \in Nat
           /\ \A c \in Code : votes[c] <= Total(votes)
<1>1. Total(votes) = SumFunctionOnSet(votes, Code)
  BY DEF Total, SumFunction
<1>2. ASSUME NEW c \in Code PROVE votes[c] <= SumFunctionOnSet(votes, Code)
  <2>1. IsFiniteSet(Code) /\ IsFiniteSet(Code \ {c}) /\ \A x \in Code : votes[x] \in Nat
    BY CodesFinite, FS_Subset
  <2>2. SumFunctionOnSet(votes, Code) = votes[c] + SumFunctionOnSet(votes, Code \ {c})
    BY <2>1, SumRemove
  <2>3. SumFunctionOnSet(votes, Code \ {c}) \in Nat
    BY <2>1, SumType
  <2> QED BY <2>1, <2>2, <2>3
<1>3. SumFunctionOnSet(votes, Code) \in Nat
  BY CodesFinite, SumType
<1> QED BY <1>1, <1>2, <1>3

LEMMA FilledHolds ==
    ASSUME NEW ph, FilledForm(ph)
    PROVE  FormNumber(ph) /\ ph.apart \in BOOLEAN
<1>1. PICK votes \in [Code -> Votes], rejected \in Lost :
          ph.sheet = Sheet(votes, rejected) /\ Total(votes) + rejected + 50 <= MostInBox
  BY DEF FilledForm
<1>2. votes \in [Code -> Nat] /\ rejected \in Nat
  BY VotesNat
<1> DEFINE t == Total(votes)
           s == Sheet(votes, rejected)
           f == s.fields
<1>3. t \in Nat /\ (\A c \in Code : votes[c] <= t) /\ MostInBox \in Nat
  BY <1>2, EachWithin, MostIsRead
<1>4. /\ s.parties = votes /\ DOMAIN f = Box
      /\ f["registeredVoters"] = t + rejected + 10 + 40
      /\ f["accreditedVoters"] = t + rejected + 10
      /\ f["ballotPapersIssued"] = t + rejected + 10 + 7
      /\ f["unusedBallotPapers"] = 7
      /\ f["spoiledBallotPapers"] = 10
      /\ f["invalidVotes"] = rejected
      /\ f["votesCast"] = t
      /\ f["usedBallotPapers"] = t + rejected + 10
  BY SheetHolds
<1>5. f = [b \in Box |-> f[b]]
  <2> DEFINE used == t + rejected + 10
             of(b) == CASE b = "registeredVoters" -> used + 40
                        [] b = "ballotPapersIssued" -> used + 7
                        [] b = "unusedBallotPapers" -> 7
                        [] b = "spoiledBallotPapers" -> 10
                        [] b = "invalidVotes" -> rejected
                        [] b = "votesCast" -> t
                        [] b \in {"accreditedVoters", "usedBallotPapers"} -> used
  <2>1. s = [parties |-> votes, fields |-> [b \in Box |-> of(b)]]
    BY DEF Sheet
  <2> HIDE DEF of, s
  <2>2. s.fields = [b \in Box |-> of(b)]
    BY <2>1
  <2> QED BY <2>2
<1>6. ph.sheet.fields = f /\ ph.sheet.parties = votes
  BY <1>1, <1>4
<1>7. t + rejected + 50 <= MostInBox
  BY <1>1
<1> HIDE DEF t, f, s
<1>8. ASSUME NEW b \in Box
      PROVE  f[b] \in Nat /\ f[b] <= MostInBox /\ ~TooSmallForField(b, f[b])
  <2>1. f[b] \in Nat /\ f[b] <= MostInBox
    BY <1>2, <1>3, <1>4, <1>7, BoxIs
  <2>2. b \in {"registeredVoters", "accreditedVoters", "ballotPapersIssued", "usedBallotPapers"}
           => f[b] >= 10
    BY <1>2, <1>3, <1>4
  <2> QED BY <2>1, <2>2 DEF TooSmallForField
<1>9. f \in [Box -> Nat]
  BY <1>5, <1>8
<1>10. \A k \in 1..8 : Boxes[k] \in Box
  BY BoxIs DEF Box
<1>11. \A k \in 1..Len(Ballot) : votes[Ballot[k]] \in Nat /\ votes[Ballot[k]] <= MostInBox
  <2>1. \A c \in Code : votes[c] \in Nat /\ votes[c] <= MostInBox
    BY <1>2, <1>3, <1>7
  <2> QED BY <2>1, BallotIs
<1>12. "votesCast" \in Box
  BY BoxIs
<1>13. FormNumber(ph)
  BY <1>2, <1>6, <1>8, <1>9, <1>10, <1>11, <1>12 DEF FormNumber, ValueOf, VotesIn, Valid
<1>14. ph.apart \in BOOLEAN
  BY DEF FilledForm
<1> QED BY <1>13, <1>14

LEMMA FormText ==
    ASSUME NEW ph, FilledForm(ph)
    PROVE  \E e : IsA(ph, TextOf(ph), e)
<1>1. FormNumber(ph) /\ ph.apart \in BOOLEAN
  BY FilledHolds
<1>2. PICK e : RowEnds(ph, e)
  BY RowsEnd
<1>3. TextIs(ph, TextOf(ph), e)
  BY <1>1, <1>2, TextHolds
<1> QED BY <1>1, <1>2, <1>3 DEF IsA

-----------------------------------------------------------------------------
(* The places of a form's words: a row for each box, and one for each party. *)
BoxPlace(ph, k) == [x \in {"hash", "value"} |-> IF x = "hash" THEN 0 ELSE ValueOf(ph, k)]

Legible(ph, k) == (IF InFigures(ph, k) THEN {"figure"} ELSE {})
                     \union (IF Worded(ph, k) THEN {"words"} ELSE {})
                     \union (IF ph.agents THEN {"agent"} ELSE {})

RowPlace(ph, k) ==
    [x \in {"serial", "code"} \union Legible(ph, k) |->
        CASE x = "serial" -> k
          [] x = "code"   -> Ballot[k]
          [] x = "figure" -> VotesIn(ph, k)
          [] x = "words"  -> Said(VotesIn(ph, k))
          [] x = "agent"  -> AgentName[Ballot[k]]]

PlacesAre(ph, rows) ==
    /\ DOMAIN rows = 1..(8 + Len(Ballot))
    /\ \A k \in 1..8 : rows[k] = BoxPlace(ph, k)
    /\ \A k \in 1..Len(Ballot) : rows[8 + k] = RowPlace(ph, k)

LEMMA BoxPlaceHolds ==
    \A ph, k : /\ DOMAIN BoxPlace(ph, k) = {"hash", "value"}
               /\ BoxPlace(ph, k)["value"] = ValueOf(ph, k)
BY DEF BoxPlace

LEMMA RowPlaceHolds ==
    ASSUME NEW ph, NEW k
    PROVE  /\ DOMAIN RowPlace(ph, k) = {"serial", "code"} \union Legible(ph, k)
           /\ RowPlace(ph, k)["serial"] = k /\ RowPlace(ph, k)["code"] = Ballot[k]
           /\ "hash" \notin DOMAIN RowPlace(ph, k)
           /\ "figure" \in DOMAIN RowPlace(ph, k) <=> InFigures(ph, k)
           /\ "words" \in DOMAIN RowPlace(ph, k) <=> Worded(ph, k)
           /\ InFigures(ph, k) => RowPlace(ph, k)["figure"] = VotesIn(ph, k)
           /\ Worded(ph, k) => RowPlace(ph, k)["words"] = Said(VotesIn(ph, k))
           /\ "agent" \in DOMAIN RowPlace(ph, k) <=> ph.agents
           /\ ph.agents => RowPlace(ph, k)["agent"] = AgentName[Ballot[k]]
<1> DEFINE S == {"serial", "code"} \union Legible(ph, k)
           of(x) == CASE x = "serial" -> k
                      [] x = "code"   -> Ballot[k]
                      [] x = "figure" -> VotesIn(ph, k)
                      [] x = "words"  -> Said(VotesIn(ph, k))
                      [] x = "agent"  -> AgentName[Ballot[k]]
<1>1. RowPlace(ph, k) = [x \in S |-> of(x)]
  BY DEF RowPlace
<1>2. /\ of("serial") = k /\ of("code") = Ballot[k] /\ of("figure") = VotesIn(ph, k)
      /\ of("words") = Said(VotesIn(ph, k)) /\ of("agent") = AgentName[Ballot[k]]
  OBVIOUS
<1>3. /\ "serial" \in S /\ "code" \in S /\ "hash" \notin S
      /\ "figure" \in S <=> InFigures(ph, k)
      /\ "words" \in S <=> Worded(ph, k)
      /\ "agent" \in S <=> ph.agents
  BY DEF Legible
<1>4. S = {"serial", "code"} \union Legible(ph, k)
  OBVIOUS
<1> HIDE DEF S, of
<1> QED BY <1>1, <1>2, <1>3, <1>4

(* One cell of a row. *)
Cell(ph, k, x) ==
    CASE x = "serial" -> k
      [] x = "code"   -> Ballot[k]
      [] x = "figure" -> VotesIn(ph, k)
      [] x = "words"  -> Said(VotesIn(ph, k))
      [] x = "agent"  -> AgentName[Ballot[k]]

LEMMA RowPlaceCell ==
    ASSUME NEW ph, NEW k, NEW x \in {"serial", "code"} \union Legible(ph, k)
    PROVE  RowPlace(ph, k)[x] = Cell(ph, k, x)
<1> DEFINE S == {"serial", "code"} \union Legible(ph, k)
<1>1. RowPlace(ph, k) = [y \in S |-> Cell(ph, k, y)]
  BY DEF RowPlace, Cell
<1> HIDE DEF S
<1>2. x \in S
  BY DEF S
<1> QED BY <1>1, <1>2

LEMMA RowPlaceNamed ==
    ASSUME NEW ph, NEW k
    PROVE  RowPlace(ph, k)["serial"] = k /\ RowPlace(ph, k)["code"] = Ballot[k]
<1>1. Cell(ph, k, "serial") = k /\ Cell(ph, k, "code") = Ballot[k]
  BY DEF Cell
<1>2. /\ RowPlace(ph, k)["serial"] = Cell(ph, k, "serial")
      /\ RowPlace(ph, k)["code"] = Cell(ph, k, "code")
  BY RowPlaceCell
<1> QED BY <1>1, <1>2

LEMMA RowPlaceColumns ==
    ASSUME NEW ph, NEW k
    PROVE  /\ DOMAIN RowPlace(ph, k) = {"serial", "code"} \union Legible(ph, k)
           /\ "figure" \in DOMAIN RowPlace(ph, k) <=> InFigures(ph, k)
           /\ "agent" \in DOMAIN RowPlace(ph, k) <=> ph.agents
BY RowPlaceHolds

LEMMA RowPlaceFigure ==
    ASSUME NEW ph, NEW k, InFigures(ph, k)
    PROVE  RowPlace(ph, k)["figure"] = VotesIn(ph, k)
<1>1. "figure" \in Legible(ph, k)
  BY DEF Legible
<1>2. RowPlace(ph, k)["figure"] = Cell(ph, k, "figure")
  BY <1>1, RowPlaceCell
<1>3. Cell(ph, k, "figure") = VotesIn(ph, k)
  BY DEF Cell
<1> QED BY <1>2, <1>3

LEMMA RowPlaceAgent ==
    ASSUME NEW ph, NEW k, ph.agents
    PROVE  RowPlace(ph, k)["agent"] = AgentName[Ballot[k]]
<1>1. "agent" \in Legible(ph, k)
  BY DEF Legible
<1>2. RowPlace(ph, k)["agent"] = Cell(ph, k, "agent")
  BY <1>1, RowPlaceCell
<1>3. Cell(ph, k, "agent") = AgentName[Ballot[k]]
  BY DEF Cell
<1> QED BY <1>2, <1>3

LEMMA PlacesHold ==
    ASSUME NEW ph, ph.places
    PROVE  PlacesAre(ph, PlacesOf(ph))
<1> DEFINE n == Len(Ballot)
           a == [k \in DOMAIN Boxes |-> BoxPlace(ph, k)]
           b == [k \in DOMAIN Ballot |-> RowPlace(ph, k)]
           S == {BoxPlace(ph, k) : k \in 1..8} \union {RowPlace(ph, k) : k \in 1..n}
<1>1. PlacesOf(ph) = a \o b
  BY DEF PlacesOf, BoxPlace, RowPlace, Legible, InFigures, Worded, ValueOf, VotesIn, Said
<1>2. DOMAIN Boxes = 1..8 /\ DOMAIN Ballot = 1..n /\ n \in Nat
  BY BoxIs, CodesFinite
<1>3. /\ DOMAIN a = 1..8 /\ \A k \in 1..8 : a[k] = BoxPlace(ph, k)
      /\ DOMAIN b = 1..n /\ \A k \in 1..n : b[k] = RowPlace(ph, k)
  BY <1>2
<1>4. a \in [1..8 -> S] /\ b \in [1..n -> S]
  BY <1>2
<1> HIDE DEF a, b, S, n
<1>5. a \in Seq(S) /\ Len(a) = 8 /\ b \in Seq(S) /\ Len(b) = n
  <2>1. \A m \in Nat : \A c \in [1..m -> S] : c \in Seq(S) /\ Len(c) = m
    OBVIOUS
  <2>2. 8 \in Nat
    OBVIOUS
  <2>3. a \in Seq(S) /\ Len(a) = 8
    BY <1>4, <2>1, <2>2
  <2>4. b \in Seq(S) /\ Len(b) = n
    BY <1>2, <1>4, <2>1 DEF n
  <2> QED BY <2>3, <2>4
<1>6. /\ Len(a \o b) = 8 + n /\ (a \o b) \in Seq(S)
      /\ \A k \in 1..8 : (a \o b)[k] = a[k]
      /\ \A k \in 1..n : (a \o b)[8 + k] = b[k]
  <2> DEFINE c == a \o b
  <2>1. a \in Seq(S) /\ b \in Seq(S) /\ c = a \o b
    BY <1>5
  <2> HIDE DEF c
  <2>2. /\ c \in Seq(S) /\ Len(c) = Len(a) + Len(b)
        /\ \A k \in 1..Len(a) : c[k] = a[k]
        /\ \A k \in 1..Len(b) : c[Len(a) + k] = b[k]
    BY <2>1, Concat
  <2> QED BY <1>5, <2>2 DEF c
<1>7. DOMAIN (a \o b) = 1..(8 + n)
  BY <1>6
<1> QED BY <1>1, <1>3, <1>6, <1>7 DEF PlacesAre, n

(* Their boxes are the form's. *)
LEMMA SummaryOfPlaces ==
    ASSUME NEW ph, FormNumber(ph), NEW rows, PlacesAre(ph, rows)
    PROVE  LayoutSummary(rows) = ph.sheet.fields
<1> DEFINE n == Len(Ballot)
           f == ph.sheet.fields
           S == {r \in DOMAIN rows : "hash" \in DOMAIN rows[r]}
           hashes == InOrder(S)
           read == {k \in DOMAIN hashes \cap DOMAIN Boxes : "value" \in DOMAIN rows[hashes[k]]}
           of(b) == rows[hashes[CHOOSE j \in read : Boxes[j] = b]]["value"]
           q == [k \in 1..8 |-> k]
<1>1. n \in Nat /\ DOMAIN Boxes = 1..8
  BY BallotIs, BoxIs
<1>2. ~(Len(hashes) < 7) => LayoutSummary(rows) = [b \in {Boxes[k] : k \in read} |-> of(b)]
  BY DEF LayoutSummary
<1>3. S = 1..8
  <2>1. ASSUME NEW r \in 1..8 PROVE r \in S
    <3>1. rows[r] = BoxPlace(ph, r) /\ r \in DOMAIN rows
      BY <1>1 DEF PlacesAre
    <3>2. "hash" \in DOMAIN BoxPlace(ph, r)
      BY BoxPlaceHolds
    <3> QED BY <3>1, <3>2
  <2>2. ASSUME NEW r \in S PROVE r \in 1..8
    <3>1. r \in 1..(8 + n) /\ "hash" \in DOMAIN rows[r]
      BY DEF PlacesAre
    <3>2. CASE r > 8
      <4>1. r - 8 \in 1..n /\ 8 + (r - 8) = r
        BY <1>1, <3>1, <3>2
      <4>2. rows[r] = RowPlace(ph, r - 8)
        BY <4>1 DEF PlacesAre
      <4> DEFINE k == r - 8
      <4>3. "hash" \notin DOMAIN RowPlace(ph, k)
        BY RowPlaceHolds
      <4> QED BY <3>1, <4>2, <4>3
    <3> QED BY <1>1, <3>1, <3>2
  <2> HIDE DEF S
  <2> QED BY <2>1, <2>2
<1> HIDE DEF S
<1>4. hashes = q
  <2>1. Increasing(q, 8)
    BY DEF Increasing
  <2>2. S = {q[k] : k \in 1..8}
    BY <1>3
  <2>3. q \in [1..8 -> Nat] /\ 8 \in Nat
    OBVIOUS
  <2> HIDE DEF q
  <2> QED BY <2>1, <2>2, <2>3, InOrderIs
<1>5. DOMAIN hashes = 1..8 /\ Len(hashes) = 8 /\ \A k \in 1..8 : hashes[k] = k
  <2>1. 8 \in Nat
    OBVIOUS
  <2> QED BY <1>4, <2>1
<1> HIDE DEF hashes
<1>6. ASSUME NEW k \in 1..8
      PROVE  /\ "value" \in DOMAIN rows[hashes[k]]
             /\ rows[hashes[k]]["value"] = ValueOf(ph, k)
  <2>1. rows[hashes[k]] = BoxPlace(ph, k)
    BY <1>5 DEF PlacesAre
  <2>2. "value" \in DOMAIN BoxPlace(ph, k) /\ BoxPlace(ph, k)["value"] = ValueOf(ph, k)
    BY BoxPlaceHolds
  <2> QED BY <2>1, <2>2
<1>7. read = 1..8
  BY <1>1, <1>5, <1>6
<1> HIDE DEF read
<1>8. Box = {Boxes[k] : k \in read}
  BY <1>1, <1>7 DEF Box
<1>9. ASSUME NEW b \in Box
      PROVE  of(b) = f[b]
  <2>1. PICK k \in 1..8 : Boxes[k] = b
    BY <1>7, <1>8
  <2>2. (CHOOSE j \in read : Boxes[j] = b) = k
    BY <1>7, <2>1, BoxIs
  <2>3. rows[hashes[k]]["value"] = ValueOf(ph, k)
    BY <1>6
  <2> QED BY <2>1, <2>2, <2>3 DEF ValueOf
<1>10. f = [b \in Box |-> f[b]]
  BY DEF FormNumber
<1> HIDE DEF f, of
<1>11. LayoutSummary(rows) = [b \in Box |-> f[b]]
  BY <1>2, <1>5, <1>8, <1>9
<1> QED BY <1>10, <1>11 DEF f

(* The votes a party's row of places gives. *)
PlaceVotes(ph, k) ==
    IF Worded(ph, k) THEN VotesIn(ph, k)
    ELSE IF InFigures(ph, k) /\ VotesIn(ph, k) # k THEN VotesIn(ph, k) ELSE NoVotes

LEMMA RowInWordsOfPlace ==
    ASSUME NEW ph, FormNumber(ph), NEW k \in 1..Len(Ballot)
    PROVE  /\ Worded(ph, k) => /\ RowInWords(RowPlace(ph, k)).next > 1
                               /\ RowInWords(RowPlace(ph, k)).next # 1
                               /\ RowInWords(RowPlace(ph, k)).value = VotesIn(ph, k)
           /\ ~Worded(ph, k) => RowInWords(RowPlace(ph, k)).next = 1
<1> DEFINE place == RowPlace(ph, k)
           v == VotesIn(ph, k)
           said == Said(v)
           words == IF "words" \in DOMAIN place
                    THEN [j \in DOMAIN place["words"] |-> Word(place["words"][j])] ELSE <<>>
           parsed == ParseNumberWords(words, 1)
<1>1. RowInWords(place) = parsed
  BY DEF RowInWords
<1>2. v \in Nat /\ v <= Largest
  <2>1. v \in Nat /\ v <= MostInBox
    BY DEF FormNumber
  <2> QED BY <2>1, MostIsRead DEF Largest
<1>3. /\ "words" \in DOMAIN place <=> Worded(ph, k)
      /\ Worded(ph, k) => place["words"] = said
  BY RowPlaceHolds
<1> HIDE DEF place, v
<1>4. CASE Worded(ph, k)
  <2> DEFINE T == {Word(w) : w \in Vocabulary}
             m == Len(said)
  <2>1. said \in Seq(Vocabulary) /\ m \in Nat /\ m >= 1
    BY <1>2, SaidHolds
  <2>2. words = [j \in DOMAIN said |-> Word(said[j])]
    BY <1>3, <1>4
  <2> HIDE DEF said
  <2>3. DOMAIN said = 1..m /\ \A j \in 1..m : said[j] \in Vocabulary
    BY <2>1
  <2> HIDE DEF words, m
  <2>4. words \in [1..m -> T] /\ \A j \in 1..m : words[j] = Word(said[j])
    BY <2>2, <2>3
  <2> HIDE DEF T
  <2>5. words \in Seq(T) /\ Len(words) = m
    BY <2>1, <2>4
  <2>6. Holds(words, 1, said)
    <3>1. \A j \in 1..m : words[1 + j - 1].word = said[j]
      BY <2>1, <2>4 DEF Word
    <3> QED BY <2>1, <2>5, <3>1 DEF Holds, m
  <2>7. parsed = [value |-> v, next |-> 1 + m]
    <3> DEFINE e == 1 + m
    <3>1. e = 1 + Len(said) /\ ~(e <= Len(words)) /\ 1 \in Nat /\ 1 >= 1
      BY <2>1, <2>5 DEF m
    <3> HIDE DEF e
    <3>2. ParseNumberWords(words, 1) = [value |-> v, next |-> e]
      BY <1>2, <2>5, <2>6, <3>1, SaidRead DEF said
    <3> QED BY <3>2 DEF e
  <2>8. parsed.value = v /\ parsed.next > 1 /\ parsed.next # 1
    BY <2>1, <2>7
  <2> HIDE DEF parsed
  <2> QED BY <1>1, <1>4, <2>8 DEF place, v
<1>5. CASE ~Worded(ph, k)
  <2>1. words = <<>>
    BY <1>3, <1>5
  <2> HIDE DEF words
  <2>2. words \in Seq(Nat) /\ 1 \in 1..(Len(words) + 1) /\ ~(1 <= Len(words))
    BY <2>1
  <2>3. parsed.next = 1
    BY <2>2, SilentRead
  <2> HIDE DEF parsed
  <2> QED BY <1>1, <1>5, <2>3 DEF place
<1> QED BY <1>4, <1>5

LEMMA RowVotesOfPlace ==
    ASSUME NEW ph, FormNumber(ph), NEW k \in 1..Len(Ballot)
    PROVE  RowVotes(RowPlace(ph, k)) = PlaceVotes(ph, k)
<1> DEFINE place == RowPlace(ph, k)
           parsed == RowInWords(place)
<1>1. RowVotes(place) = IF parsed.next > 1 THEN parsed.value
                      ELSE IF "figure" \in DOMAIN place /\ place["figure"] # place["serial"]
                           THEN place["figure"] ELSE NoVotes
  BY DEF RowVotes
<1>2. /\ place["serial"] = k
      /\ "figure" \in DOMAIN place <=> InFigures(ph, k)
      /\ InFigures(ph, k) => place["figure"] = VotesIn(ph, k)
  BY RowPlaceNamed, RowPlaceColumns, RowPlaceFigure
<1>3. /\ Worded(ph, k) => parsed.next > 1 /\ parsed.value = VotesIn(ph, k)
      /\ ~Worded(ph, k) => parsed.next = 1
  BY RowInWordsOfPlace
<1> HIDE DEF parsed
<1>4. CASE Worded(ph, k)
  BY <1>1, <1>3, <1>4 DEF PlaceVotes
<1>5. CASE ~Worded(ph, k)
  <2>1. ~(parsed.next > 1)
    BY <1>3, <1>5
  <2> HIDE DEF place
  <2>2. RowVotes(place) = IF InFigures(ph, k) /\ VotesIn(ph, k) # k THEN VotesIn(ph, k)
                          ELSE NoVotes
    BY <1>1, <1>2, <2>1
  <2>3. PlaceVotes(ph, k) = IF InFigures(ph, k) /\ VotesIn(ph, k) # k THEN VotesIn(ph, k)
                            ELSE NoVotes
    BY <1>5 DEF PlaceVotes
  <2> QED BY <2>2, <2>3 DEF place
<1> QED BY <1>4, <1>5

(* A row is taken for its code, and besides only for words and agents.     *)
LEMMA TakenOfPlace ==
    ASSUME NEW ph, FormNumber(ph), NEW k \in 1..Len(Ballot)
    PROVE  /\ Ballot[k] \in TakenIn(RowPlace(ph, k))
           /\ \A c \in TakenIn(RowPlace(ph, k)) : c = Ballot[k] \/ c \in TakenForCodes
                                                 \/ c \in AgentsOn(ph)
           /\ ph.places /\ Plain(ph) => TakenIn(RowPlace(ph, k)) = {Ballot[k]}
<1> DEFINE place == RowPlace(ph, k)
           words == TakenForCodes \cap {place["words"][j] : j \in DOMAIN place["words"]}
           agent == IF "agent" \in DOMAIN place THEN {place["agent"]} ELSE {}
<1>1. TakenIn(place) = {place["code"]} \union
                       (IF RowInWords(place).next = 1 THEN {} ELSE words \union agent)
  BY DEF TakenIn
<1>2. place["code"] = Ballot[k]
  BY RowPlaceNamed
<1>3. agent \subseteq AgentsOn(ph)
  <2>1. "agent" \in DOMAIN place <=> ph.agents
    BY RowPlaceColumns
  <2>2. ph.agents => place["agent"] = AgentName[Ballot[k]]
    BY RowPlaceAgent
  <2>3. Ballot[k] \in Code
    BY BallotIs
  <2>4. CASE ph.agents
    <3>1. agent = {AgentName[Ballot[k]]}
      BY <2>1, <2>2, <2>4
    <3>2. AgentsOn(ph) = {AgentName[c] : c \in Code}
      BY <2>4 DEF AgentsOn
    <3> QED BY <2>3, <3>1, <3>2
  <2>5. CASE ~ph.agents
    <3>1. agent = {}
      BY <2>1, <2>5
    <3> QED BY <3>1
  <2> QED BY <2>4, <2>5
<1>4. words \subseteq TakenForCodes
  OBVIOUS
<1>5. ASSUME ph.places, Plain(ph), RowInWords(place).next # 1 PROVE words = {} /\ agent = {}
  <2>1. Worded(ph, k)
    BY <1>5, RowInWordsOfPlace
  <2>2. place["words"] = WordsOf(VotesIn(ph, k), TRUE)
    BY <2>1, RowPlaceHolds DEF Said
  <2>3. Ballot[k] \in Code /\ ~SeemsParty(ph, Ballot[k])
    BY <1>5, BallotIs DEF Plain
  <2>4. \A j \in DOMAIN place["words"] : place["words"][j] \notin TakenForCodes
    BY <2>1, <2>2, <2>3 DEF SeemsParty, Worded, VotesIn
  <2>5. ~ph.agents
    BY <1>5 DEF Plain
  <2>6. "agent" \notin DOMAIN place
    BY <2>5, RowPlaceColumns
  <2> HIDE DEF place
  <2> QED BY <2>4, <2>6
<1> HIDE DEF place, words, agent
<1>6. Ballot[k] \in TakenIn(place)
  BY <1>1, <1>2
<1>7. \A c \in TakenIn(place) : c = Ballot[k] \/ c \in TakenForCodes \/ c \in AgentsOn(ph)
  BY <1>1, <1>2, <1>3, <1>4
<1>8. ph.places /\ Plain(ph) => TakenIn(place) = {Ballot[k]}
  BY <1>1, <1>2, <1>5
<1> QED BY <1>6, <1>7, <1>8 DEF place

(* The rows of places whose votes are told. *)
ToldRows(rows) ==
    {r \in DOMAIN rows : /\ {"code", "serial"} \subseteq DOMAIN rows[r]
                         /\ rows[r]["serial"] \in 1..20
                         /\ RowVotes(rows[r]) # NoVotes}

LEMMA ToldOfPlaces ==
    ASSUME NEW ph, FormNumber(ph), NEW rows, PlacesAre(ph, rows)
    PROVE  /\ ToldRows(rows) = {8 + k : k \in {j \in 1..Len(Ballot) : PlaceVotes(ph, j) # NoVotes}}
           /\ \A k \in 1..Len(Ballot) : /\ RowVotes(rows[8 + k]) = PlaceVotes(ph, k)
                                        /\ rows[8 + k] = RowPlace(ph, k)
<1> DEFINE n == Len(Ballot)
           told == ToldRows(rows)
           R == {j \in 1..n : PlaceVotes(ph, j) # NoVotes}
<1>1. n \in Nat /\ n <= 20 /\ DOMAIN rows = 1..(8 + n)
  BY BallotIs DEF PlacesAre
<1>2. ASSUME NEW k \in 1..n
      PROVE  /\ 8 + k \in DOMAIN rows /\ {"code", "serial"} \subseteq DOMAIN rows[8 + k]
             /\ rows[8 + k]["serial"] = k /\ rows[8 + k] = RowPlace(ph, k)
             /\ RowVotes(rows[8 + k]) = PlaceVotes(ph, k)
  <2>1. rows[8 + k] = RowPlace(ph, k) /\ 8 + k \in DOMAIN rows
    BY <1>1 DEF PlacesAre
  <2>2. RowVotes(RowPlace(ph, k)) = PlaceVotes(ph, k)
    BY RowVotesOfPlace
  <2>3. /\ DOMAIN RowPlace(ph, k) = {"serial", "code"} \union Legible(ph, k)
        /\ RowPlace(ph, k)["serial"] = k
    BY RowPlaceNamed, RowPlaceColumns
  <2>4. {"code", "serial"} \subseteq DOMAIN RowPlace(ph, k)
    BY <2>3
  <2> QED BY <2>1, <2>2, <2>3, <2>4
<1>3. ASSUME NEW r \in 1..8 PROVE ~({"code", "serial"} \subseteq DOMAIN rows[r])
  <2>1. rows[r] = BoxPlace(ph, r)
    BY DEF PlacesAre
  <2>2. DOMAIN BoxPlace(ph, r) = {"hash", "value"}
    BY BoxPlaceHolds
  <2> QED BY <2>1, <2>2
<1>4. ASSUME NEW k \in R PROVE 8 + k \in told
  <2>1. k \in 1..20 /\ k \in 1..n /\ PlaceVotes(ph, k) # NoVotes
    BY <1>1
  <2> QED BY <1>2, <2>1 DEF ToldRows
<1>5. ASSUME NEW r \in told PROVE \E k \in R : r = 8 + k
  <2>1. r \in 1..(8 + n) /\ {"code", "serial"} \subseteq DOMAIN rows[r] /\ RowVotes(rows[r]) # NoVotes
    BY <1>1 DEF ToldRows
  <2> HIDE DEF told
  <2>2. ~(r \in 1..8)
    BY <1>3, <2>1
  <2> DEFINE k == r - 8
  <2>3. k \in 1..n /\ r = 8 + k
    BY <1>1, <2>1, <2>2
  <2> HIDE DEF k
  <2>4. PlaceVotes(ph, k) # NoVotes
    BY <1>2, <2>1, <2>3
  <2> QED BY <2>3, <2>4
<1> HIDE DEF told, R
<1>6. told = {8 + k : k \in R}
  BY <1>4, <1>5
<1> QED BY <1>2, <1>6 DEF told, R, n

LEMMA LayoutIs ==
    ASSUME NEW rows
    PROVE  /\ DOMAIN LayoutParties(rows) = UNION {TakenIn(rows[r]) : r \in ToldRows(rows)}
           /\ \A c \in DOMAIN LayoutParties(rows) :
                 LayoutParties(rows)[c] =
                    RowVotes(rows[Max({r \in ToldRows(rows) : c \in TakenIn(rows[r])})])
           /\ LayoutParties(rows)
                 = [c \in DOMAIN LayoutParties(rows) |-> LayoutParties(rows)[c]]
BY DEF LayoutParties, ToldRows

(* A party of the form has the votes of its row, unless an agent is called *)
(* by its code.                                                            *)
LEMMA PartyOfPlaces ==
    ASSUME NEW ph, FormNumber(ph), NEW rows, PlacesAre(ph, rows),
           NEW k \in 1..Len(Ballot), Ballot[k] \notin AgentsOn(ph)
    PROVE  /\ Ballot[k] \in DOMAIN LayoutParties(rows) <=> PlaceVotes(ph, k) # NoVotes
           /\ Ballot[k] \in DOMAIN LayoutParties(rows) =>
                 LayoutParties(rows)[Ballot[k]] = PlaceVotes(ph, k)
<1> DEFINE n == Len(Ballot)
           parties == LayoutParties(rows)
           told == ToldRows(rows)
           R == {j \in 1..n : PlaceVotes(ph, j) # NoVotes}
           c == Ballot[k]
           S == {r \in told : c \in TakenIn(rows[r])}
<1>1. n \in Nat /\ c \in Code /\ c \notin TakenForCodes
  BY BallotIs, ReadingAssumption
<1>2. told = {8 + j : j \in R}
  BY ToldOfPlaces
<1>3. ASSUME NEW j \in 1..n PROVE c \in TakenIn(rows[8 + j]) <=> j = k
  <2>1. rows[8 + j] = RowPlace(ph, j)
    BY ToldOfPlaces
  <2>2. Ballot[j] \in TakenIn(rows[8 + j])
    BY <2>1, TakenOfPlace
  <2>3. c \in TakenIn(rows[8 + j]) => c = Ballot[j]
    <3>1. \A x \in TakenIn(RowPlace(ph, j)) :
             x = Ballot[j] \/ x \in TakenForCodes \/ x \in AgentsOn(ph)
      BY TakenOfPlace
    <3> QED BY <1>1, <2>1, <3>1
  <2>4. c = Ballot[j] => j = k
    BY BallotIs
  <2> QED BY <2>2, <2>3, <2>4
<1>4. DOMAIN parties = UNION {TakenIn(rows[r]) : r \in told}
  BY LayoutIs
<1>5. c \in DOMAIN parties <=> k \in R
  <2> HIDE DEF parties, c, told
  <2>1. c \in DOMAIN parties <=> \E r \in told : c \in TakenIn(rows[r])
    BY <1>4
  <2>2. (\E r \in told : c \in TakenIn(rows[r])) <=> \E j \in R : c \in TakenIn(rows[8 + j])
    BY <1>2
  <2>3. (\E j \in R : c \in TakenIn(rows[8 + j])) <=> k \in R
    BY <1>3
  <2> QED BY <2>1, <2>2, <2>3
<1>6. ASSUME c \in DOMAIN parties PROVE parties[c] = PlaceVotes(ph, k)
  <2>1. k \in R
    BY <1>5, <1>6
  <2> DEFINE m == 8 + k
  <2>2. m \in Int /\ m \in told
    BY <1>1, <1>2, <2>1
  <2>3. \A r \in S : r = m
    BY <1>2, <1>3
  <2>4. m \in S
    BY <1>3, <2>2
  <2> HIDE DEF m, S
  <2>5. S = {m}
    BY <2>3, <2>4
  <2>6. {m} \in SUBSET Int /\ m \in {m} /\ \A y \in {m} : m >= y
    BY <2>2
  <2>7. Max({m}) = m
    BY <2>6, MaxIs
  <2>8. Max(S) = m
    BY <2>5, <2>7
  <2>9. parties[c] = RowVotes(rows[Max(S)])
    BY <1>6, LayoutIs DEF S
  <2>10. RowVotes(rows[m]) = PlaceVotes(ph, k)
    BY ToldOfPlaces DEF m
  <2> QED BY <2>8, <2>9, <2>10
<1> QED BY <1>5, <1>6

(* Whatever is taken for a party, there are finitely many. *)
LEMMA TakenFinite == IsFiniteSet(TakenForCodes)
<1>1. /\ IsFiniteSet({"eleven"}) /\ IsFiniteSet({"twelve"}) /\ IsFiniteSet({"twenty"})
      /\ IsFiniteSet({"thirty"}) /\ IsFiniteSet({"sixty"}) /\ IsFiniteSet({"eighty"})
      /\ IsFiniteSet({"ninety"})
  BY FS_Singleton
<1> DEFINE A == {"eleven"} \union {"twelve"}
           B == A \union {"twenty"}
           C == B \union {"thirty"}
           D == C \union {"sixty"}
           E == D \union {"eighty"}
<1>2. TakenForCodes = E \union {"ninety"}
  BY DEF TakenForCodes
<1>3. IsFiniteSet(A)
  BY <1>1, FS_Union
<1> HIDE DEF A
<1>4. IsFiniteSet(B)
  BY <1>1, <1>3, FS_Union
<1> HIDE DEF B
<1>5. IsFiniteSet(C)
  BY <1>1, <1>4, FS_Union
<1> HIDE DEF C
<1>6. IsFiniteSet(D)
  BY <1>1, <1>5, FS_Union
<1> HIDE DEF D
<1>7. IsFiniteSet(E)
  BY <1>1, <1>6, FS_Union
<1> HIDE DEF E
<1> QED BY <1>1, <1>2, <1>7, FS_Union

LEMMA PlacedPartiesFinite ==
    ASSUME NEW ph, FormNumber(ph), NEW rows, PlacesAre(ph, rows)
    PROVE  /\ Cardinality(DOMAIN LayoutParties(rows)) \in Nat
           /\ ph.places /\ Plain(ph) => DOMAIN LayoutParties(rows) \subseteq Code
<1> DEFINE n == Len(Ballot)
           D == DOMAIN LayoutParties(rows)
           told == ToldRows(rows)
           agents == {AgentName[c] : c \in Code}
<1>1. D = UNION {TakenIn(rows[r]) : r \in told}
  BY LayoutIs
<1>2. ASSUME NEW r \in told
      PROVE  /\ TakenIn(rows[r]) \subseteq (Code \union TakenForCodes) \union agents
             /\ ph.places /\ Plain(ph) => TakenIn(rows[r]) \subseteq Code
  <2>1. PICK k \in 1..n : r = 8 + k
    BY ToldOfPlaces
  <2>2. rows[r] = RowPlace(ph, k) /\ Ballot[k] \in Code
    BY <2>1, ToldOfPlaces, BallotIs
  <2>3. AgentsOn(ph) \subseteq agents
    BY DEF AgentsOn
  <2>4. \A c \in TakenIn(RowPlace(ph, k)) : c = Ballot[k] \/ c \in TakenForCodes
                                           \/ c \in AgentsOn(ph)
    BY TakenOfPlace
  <2>5. ph.places /\ Plain(ph) => TakenIn(RowPlace(ph, k)) = {Ballot[k]}
    BY TakenOfPlace
  <2> HIDE DEF agents
  <2>6. TakenIn(rows[r]) \subseteq (Code \union TakenForCodes) \union agents
    BY <2>2, <2>3, <2>4
  <2>7. ph.places /\ Plain(ph) => TakenIn(rows[r]) \subseteq Code
    BY <2>2, <2>5
  <2> QED BY <2>6, <2>7
<1>3. IsFiniteSet(agents)
  <2> DEFINE f == [c \in Code |-> AgentName[c]]
  <2>1. f \in [Code -> agents] /\ \A x \in agents : \E c \in Code : f[c] = x
    OBVIOUS
  <2> HIDE DEF f, agents
  <2>2. f \in Surjection(Code, agents)
    BY <2>1 DEF Surjection
  <2> QED BY <2>2, CodesFinite, FS_Surjection
<1>4. IsFiniteSet((Code \union TakenForCodes) \union agents)
  <2> HIDE DEF agents
  <2>1. IsFiniteSet(Code \union TakenForCodes)
    BY CodesFinite, TakenFinite, FS_Union
  <2> QED BY <1>3, <2>1, FS_Union
<1> HIDE DEF D, told, agents
<1>5. D \subseteq (Code \union TakenForCodes) \union agents
  BY <1>1, <1>2
<1>6. IsFiniteSet(D)
  BY <1>4, <1>5, FS_Subset
<1>7. ph.places /\ Plain(ph) => D \subseteq Code
  BY <1>1, <1>2
<1> QED BY <1>6, <1>7, FS_CardinalityType DEF D

(* They are enough to be looked at. *)
LEMMA TwoOf == \A x, y : x # y => IsFiniteSet({x, y}) /\ Cardinality({x, y}) = 2
<1> SUFFICES ASSUME NEW x, NEW y, x # y PROVE IsFiniteSet({x, y}) /\ Cardinality({x, y}) = 2
  OBVIOUS
<1>1. IsFiniteSet({x}) /\ Cardinality({x}) = 1
  BY FS_Singleton
<1>2. {x, y} = {x} \union {y} /\ y \notin {x}
  OBVIOUS
<1>3. IsFiniteSet({x} \union {y}) /\ Cardinality({x} \union {y}) = Cardinality({x}) + 1
  BY <1>1, <1>2, FS_AddElement
<1> QED BY <1>1, <1>2, <1>3

LEMMA EnoughPlaced ==
    ASSUME NEW ph, NEW rows, PlacesAre(ph, rows)
    PROVE  ~(Placed(rows) < Boxed)
<1> DEFINE n == Len(Ballot)
           m == 8 + n
           W == UNION {{r} \X DOMAIN rows[r] : r \in DOMAIN rows}
           A == (1..8) \X {"hash", "value"}
           B == (9..m) \X {"serial", "code"}
           Every == (1..m) \X Column
<1>1. n \in Nat /\ DOMAIN rows = 1..m /\ m \in Nat /\ m >= 8
  BY BallotIs DEF PlacesAre
<1>2. \A r \in 1..8 : DOMAIN rows[r] = {"hash", "value"}
  BY BoxPlaceHolds DEF PlacesAre
<1>3. ASSUME NEW r \in 9..m
      PROVE  {"serial", "code"} \subseteq DOMAIN rows[r] /\ DOMAIN rows[r] \subseteq Column
  <2> DEFINE k == r - 8
  <2>1. k \in 1..n /\ r = 8 + k
    BY <1>1
  <2> HIDE DEF k
  <2>2. rows[r] = RowPlace(ph, k)
    BY <2>1 DEF PlacesAre
  <2>3. DOMAIN RowPlace(ph, k) = {"serial", "code"} \union Legible(ph, k)
    BY RowPlaceHolds
  <2>4. Legible(ph, k) \subseteq Column
    BY DEF Legible, Column
  <2>5. {"serial", "code"} \subseteq Column
    BY DEF Column
  <2> QED BY <2>2, <2>3, <2>4, <2>5
<1>4. A \union B \subseteq W
  <2>1. A \subseteq W
    BY <1>1, <1>2
  <2>2. B \subseteq W
    BY <1>1, <1>3
  <2> QED BY <2>1, <2>2
<1>5. W \subseteq Every
  <2>1. \A r \in 1..m : DOMAIN rows[r] \subseteq Column
    <3>1. \A r \in 1..m : r \in 1..8 \/ r \in 9..m
      BY <1>1
    <3>2. {"hash", "value"} \subseteq Column
      BY DEF Column
    <3> QED BY <1>2, <1>3, <3>1, <3>2
  <2> QED BY <1>1, <2>1
<1>6. IsFiniteSet(Every)
  <2>1. IsFiniteSet(1..m)
    BY <1>1, UpTo
  <2>2. IsFiniteSet(Column)
    <3>1. IsFiniteSet({"hash", "value"}) /\ IsFiniteSet({"serial", "code"})
          /\ IsFiniteSet({"figure", "words"}) /\ IsFiniteSet({"agent"})
      BY TwoOf, FS_Singleton
    <3>2. Column = (({"hash", "value"} \union {"serial", "code"}) \union {"figure", "words"})
                   \union {"agent"}
      BY DEF Column
    <3>3. IsFiniteSet({"hash", "value"} \union {"serial", "code"})
      BY <3>1, FS_Union
    <3>4. IsFiniteSet(({"hash", "value"} \union {"serial", "code"}) \union {"figure", "words"})
      BY <3>1, <3>3, FS_Union
    <3> QED BY <3>1, <3>2, <3>4, FS_Union
  <2> QED BY <2>1, <2>2, FS_Product
<1>7. IsFiniteSet(A) /\ Cardinality(A) = 16
  <2>1. IsFiniteSet(1..8) /\ Cardinality(1..8) = 8
    <3>1. 8 \in Nat
      OBVIOUS
    <3> QED BY <3>1, UpTo
  <2>2. IsFiniteSet({"hash", "value"}) /\ Cardinality({"hash", "value"}) = 2
    BY TwoOf
  <2>3. IsFiniteSet(A) /\ Cardinality(A) = Cardinality(1..8) * Cardinality({"hash", "value"})
    BY <2>1, <2>2, FS_Product
  <2> QED BY <2>1, <2>2, <2>3
<1>8. IsFiniteSet(B) /\ Cardinality(B) = 2 * n
  <2>1. IsFiniteSet(9..m) /\ Cardinality(9..m) = IF 9 > m THEN 0 ELSE m - 9 + 1
    <3>1. 9 \in Int /\ m \in Int
      BY <1>1
    <3> HIDE DEF m
    <3> QED BY <3>1, FS_Interval
  <2>2. Cardinality(9..m) = n
    BY <1>1, <2>1
  <2>3. IsFiniteSet({"serial", "code"}) /\ Cardinality({"serial", "code"}) = 2
    BY TwoOf
  <2>4. IsFiniteSet(B) /\ Cardinality(B) = Cardinality(9..m) * Cardinality({"serial", "code"})
    BY <2>1, <2>3, FS_Product
  <2> QED BY <1>1, <2>2, <2>3, <2>4
<1>9. A \cap B = {}
  <2>1. (1..8) \cap (9..m) = {}
    BY <1>1
  <2> QED BY <2>1
<1>10. Placed(rows) = Cardinality(W)
  BY DEF Placed
<1> HIDE DEF A, B, W, Every, m, n
<1>11. IsFiniteSet(W) /\ IsFiniteSet(A \union B) /\ Cardinality(A \union B) <= Cardinality(W)
  <2>1. IsFiniteSet(W)
    BY <1>5, <1>6, FS_Subset
  <2>2. IsFiniteSet(A \union B) /\ Cardinality(A \union B) <= Cardinality(W)
    BY <1>4, <2>1, FS_Subset
  <2> QED BY <2>1, <2>2
<1>12. Cardinality(A \union B) = 16 + 2 * n
  <2>1. Cardinality(A \union B)
           = Cardinality(A) + Cardinality(B) - Cardinality(A \cap B)
    BY <1>7, <1>8, FS_Union
  <2>2. Cardinality(A \cap B) = 0
    BY <1>9, FS_EmptySet
  <2> QED BY <1>1, <1>7, <1>8, <2>1, <2>2
<1>13. Boxed <= 16 + 2 * n /\ Boxed \in Nat
  BY ReadingAssumption, FormAssumption DEF n
<1>14. Cardinality(W) \in Nat
  BY <1>11, FS_CardinalityType
<1> QED BY <1>1, <1>10, <1>11, <1>12, <1>13, <1>14

-----------------------------------------------------------------------------
(* What the reading makes of a form, with the places of its words or        *)
(* without.                                                                *)
LEMMA FilledText ==
    ASSUME NEW ph, FilledForm(ph), RowsPlain(ph)
    PROVE  \E parties :
              /\ ParseEc8aOcrText(TextOf(ph)) = Extract(ph.sheet.fields, parties)
              /\ ph.words = Code => parties = ph.sheet.parties
              /\ ph.words = {} /\ (\A k \in 1..Len(Ballot) : TableVotes(ph, k) # NoVotes) =>
                    parties = ph.sheet.parties
              /\ ph.words = {} => \A c \in DOMAIN parties : parties[c] = ph.sheet.parties[c]
<1> DEFINE page == TextOf(ph)
           parties == ExtractPartiesFromWordsAndTable(page)
<1>1. PICK e : IsA(ph, page, e)
  BY FormText
<1>2. ParseEc8aOcrText(page) = Extract(ph.sheet.fields, parties)
  BY <1>1, TextRead
<1> HIDE DEF page
<1>3. parties = ExtractPartiesFromWordsAndTable(page)
  OBVIOUS
<1> HIDE DEF parties
<1>4. /\ ph.words = Code => parties = ph.sheet.parties
      /\ ph.words = {} /\ (\A k \in 1..Len(Ballot) : TableVotes(ph, k) # NoVotes) =>
            parties = ph.sheet.parties
      /\ ph.words = {} => \A c \in DOMAIN parties : parties[c] = ph.sheet.parties[c]
  BY <1>1, <1>3, PartiesOfText
<1> QED BY <1>2, <1>4 DEF page

LEMMA NoPlaces ==
    /\ Placed(<<>>) < Boxed
    /\ Cardinality(DOMAIN LayoutParties(<<>>)) = 0
<1>1. DOMAIN <<>> = {}
  OBVIOUS
<1> DEFINE rows == <<>>
           W == UNION {{r} \X DOMAIN rows[r] : r \in DOMAIN rows}
           read == {r \in DOMAIN rows : /\ {"code", "serial"} \subseteq DOMAIN rows[r]
                                        /\ rows[r]["serial"] \in 1..20
                                        /\ RowVotes(rows[r]) # NoVotes}
<1>2. W = {} /\ read = {}
  BY <1>1
<1>3. DOMAIN LayoutParties(<<>>) = UNION {TakenIn(rows[r]) : r \in read}
  BY DEF LayoutParties
<1>4. Placed(<<>>) = Cardinality(W)
  BY DEF Placed
<1> HIDE DEF W, read
<1>5. DOMAIN LayoutParties(<<>>) = {}
  BY <1>2, <1>3
<1>6. Cardinality({}) = 0
  BY FS_EmptySet
<1>7. Boxed \in Nat \ {0}
  BY ReadingAssumption
<1> QED BY <1>2, <1>4, <1>5, <1>6, <1>7

LEMMA WithoutPlaces ==
    ASSUME NEW ph, ~ph.places
    PROVE  /\ PlacesOf(ph) = <<>>
           /\ ParseEc8aOcr(TextOf(ph), PlacesOf(ph)) = ParseEc8aOcrText(TextOf(ph))
<1>1. PlacesOf(ph) = <<>>
  BY DEF PlacesOf
<1> QED BY <1>1, NoPlaces DEF ParseEc8aOcr

(* What two forms of the same boxes give is one of them. *)
LEMMA OverSame ==
    ASSUME NEW D, NEW R, NEW f \in [D -> R]
    PROVE  Over(f, f) = f
BY DEF Over

LEMMA ExtractGives ==
    ASSUME NEW fields, NEW parties
    PROVE  Extract(fields, parties).parties = parties
BY DEF Extract, FinishExtract

(* With places, the parties are theirs when they show enough of them, and  *)
(* else those of the text as well.                                         *)
LEMMA WithPlaces ==
    ASSUME NEW ph, FilledForm(ph), ph.places,
           NEW rows, rows = PlacesOf(ph), NEW text, text = ParseEc8aOcrText(TextOf(ph))
    PROVE  /\ Cardinality(DOMAIN LayoutParties(rows)) >= Enough =>
                 ParseEc8aOcr(TextOf(ph), rows)
                    = Extract(Over(ph.sheet.fields, text.fields), LayoutParties(rows))
           /\ \/ ParseEc8aOcr(TextOf(ph), rows)
                    = Extract(Over(ph.sheet.fields, text.fields), LayoutParties(rows))
              \/ ParseEc8aOcr(TextOf(ph), rows)
                    = Extract(Over(ph.sheet.fields, text.fields),
                              Over(LayoutParties(rows), text.parties))
<1>1. PlacesAre(ph, rows) /\ FormNumber(ph)
  BY PlacesHold, FilledHolds
<1>2. LayoutSummary(rows) = ph.sheet.fields
  BY <1>1, SummaryOfPlaces
<1>3. ~(Placed(rows) < Boxed)
  BY <1>1, EnoughPlaced
<1> DEFINE few == Cardinality(DOMAIN LayoutParties(rows)) < Enough
           parties == IF few THEN Over(LayoutParties(rows), text.parties) ELSE LayoutParties(rows)
<1>4. ParseEc8aOcr(TextOf(ph), rows) = Extract(Over(ph.sheet.fields, text.fields), parties)
  BY <1>2, <1>3 DEF ParseEc8aOcr
<1>5. Cardinality(DOMAIN LayoutParties(rows)) >= Enough => ~few
  <2>2. Cardinality(DOMAIN LayoutParties(rows)) \in Nat
    BY <1>1, PlacedPartiesFinite
  <2> QED BY <2>2, BallotIs
<1> HIDE DEF few
<1> QED BY <1>4, <1>5

(* Of a clear form every party's row gives its votes. *)
LEMMA ClearVotes ==
    ASSUME NEW ph, FilledForm(ph), Clear(ph), NEW k \in 1..Len(Ballot)
    PROVE  /\ ph.words = {} => TableVotes(ph, k) # NoVotes
           /\ PlaceVotes(ph, k) = ph.sheet.parties[Ballot[k]]
           /\ PlaceVotes(ph, k) # NoVotes
<1>1. VotesIn(ph, k) = ph.sheet.parties[Ballot[k]] /\ VotesIn(ph, k) \in Nat
  BY FilledHolds DEF VotesIn, FormNumber
<1>2. NoVotes \notin Nat /\ Ballot[k] \in Code /\ DOMAIN Ballot = 1..Len(Ballot)
  BY BallotIs, CodesFinite DEF NoVotes
<1>3. CASE ph.words = Code
  <2>1. Worded(ph, k) /\ ph.words # {}
    BY <1>2, <1>3 DEF Worded
  <2> QED BY <1>1, <1>2, <2>1 DEF PlaceVotes
<1>4. CASE ph.words # Code
  <2>1. ph.words = {} /\ ph.figures = Code /\ ~LikeSerial(ph, k)
    BY <1>2, <1>4 DEF Clear
  <2>2. ~Worded(ph, k) /\ InFigures(ph, k) /\ VotesIn(ph, k) \notin {k, k + 1}
    BY <1>2, <2>1 DEF Worded, InFigures, LikeSerial, VotesIn
  <2> QED BY <1>1, <1>2, <2>2 DEF PlaceVotes, TableVotes
<1> QED BY <1>3, <1>4

(* A clear form on which nothing else is taken for a party. *)
LEMMA ClearRead ==
    ASSUME NEW ph, FilledForm(ph), Clear(ph), Plain(ph)
    PROVE  ParseEc8aOcr(TextOf(ph), PlacesOf(ph))
              = [fields |-> ph.sheet.fields, parties |-> ph.sheet.parties,
                 sure |-> TRUE, unreadable |-> FALSE]
<1> DEFINE s == ph.sheet
           exact == [fields |-> s.fields, parties |-> s.parties,
                     sure |-> TRUE, unreadable |-> FALSE]
           text == ParseEc8aOcrText(TextOf(ph))
           rows == PlacesOf(ph)
<1>1. PICK votes \in [Code -> Votes], rejected \in Lost : s = Sheet(votes, rejected)
  BY DEF FilledForm
<1>2. votes \in [Code -> Nat] /\ rejected \in Nat /\ s.parties = votes
  BY <1>1, VotesNat, SheetHolds
<1>3. Extract(s.fields, s.parties) = exact
  BY <1>1, <1>2, SheetIsFinal
<1>4. FormNumber(ph) /\ s.fields \in [Box -> Nat]
  BY FilledHolds DEF FormNumber
<1>5. \A k \in 1..Len(Ballot) : ph.words = {} => TableVotes(ph, k) # NoVotes
  BY ClearVotes
<1>9. RowsPlain(ph)
  BY DEF RowsPlain, Plain
<1>6. text = exact
  <2>1. PICK parties :
              /\ ParseEc8aOcrText(TextOf(ph)) = Extract(ph.sheet.fields, parties)
              /\ ph.words = Code => parties = ph.sheet.parties
              /\ ph.words = {} /\ (\A k \in 1..Len(Ballot) : TableVotes(ph, k) # NoVotes) =>
                    parties = ph.sheet.parties
    BY <1>9, FilledText
  <2>2. parties = s.parties
    BY <1>5, <2>1 DEF Clear
  <2> QED BY <1>3, <2>1, <2>2
<1>7. CASE ~ph.places
  BY <1>6, <1>7, WithoutPlaces
<1>8. CASE ph.places
  <2> DEFINE fields == Over(s.fields, text.fields)
             parties == LayoutParties(rows)
  <2>1. PlacesAre(ph, rows)
    BY <1>8, PlacesHold
  <2>2. ASSUME NEW c \in Code PROVE c \in DOMAIN parties /\ parties[c] = s.parties[c]
    <3>1. PICK k \in 1..Len(Ballot) : c = Ballot[k]
      BY BallotIs
    <3>2. c \notin AgentsOn(ph)
      BY DEF AgentsOn, Plain
    <3>3. PlaceVotes(ph, k) = s.parties[c] /\ PlaceVotes(ph, k) # NoVotes
      BY <3>1, ClearVotes
    <3> QED BY <1>4, <2>1, <3>1, <3>2, <3>3, PartyOfPlaces
  <2>3. DOMAIN parties \subseteq Code
    BY <1>4, <1>8, <2>1, PlacedPartiesFinite
  <2>4. parties = s.parties
    <3>1. parties = [c \in DOMAIN parties |-> parties[c]]
      BY LayoutIs
    <3>2. s.parties = [c \in Code |-> s.parties[c]]
      BY <1>2
    <3> HIDE DEF parties, s
    <3>3. DOMAIN parties = Code
      BY <2>2, <2>3
    <3> QED BY <2>2, <3>1, <3>2, <3>3
  <2>5. fields = s.fields
    BY <1>4, <1>6, OverSame, SMTT(30)
  <2>6. Over(parties, text.parties) = s.parties
    BY <1>2, <1>6, <2>4, OverSame
  <2>7. \/ ParseEc8aOcr(TextOf(ph), rows) = Extract(fields, parties)
        \/ ParseEc8aOcr(TextOf(ph), rows) = Extract(fields, Over(parties, text.parties))
    BY <1>8, WithPlaces
  <2> HIDE DEF fields, parties, text
  <2> QED BY <1>3, <2>4, <2>5, <2>6, <2>7
<1> QED BY <1>7, <1>8

(* By its places every party of a clear form is read exactly, whatever     *)
(* else is taken for one.                                                  *)
LEMMA ClearPlacesRead ==
    ASSUME NEW ph, FilledForm(ph), Clear(ph), ph.places,
           NEW c \in Code, c \notin AgentsOn(ph),
           NEW parties, parties = ParseEc8aOcr(TextOf(ph), PlacesOf(ph)).parties
    PROVE  c \in DOMAIN parties /\ parties[c] = ph.sheet.parties[c]
<1> DEFINE rows == PlacesOf(ph)
           text == ParseEc8aOcrText(TextOf(ph))
           placed == LayoutParties(rows)
<1>1. FormNumber(ph) /\ PlacesAre(ph, rows)
  BY FilledHolds, PlacesHold
<1>2. PICK k \in 1..Len(Ballot) : c = Ballot[k]
  BY BallotIs
<1>3. PlaceVotes(ph, k) = ph.sheet.parties[c] /\ PlaceVotes(ph, k) # NoVotes
  BY <1>2, ClearVotes
<1>4. c \in DOMAIN placed /\ placed[c] = ph.sheet.parties[c]
  BY <1>1, <1>2, <1>3, PartyOfPlaces
<1>5. \/ ParseEc8aOcr(TextOf(ph), rows) = Extract(Over(ph.sheet.fields, text.fields), placed)
      \/ ParseEc8aOcr(TextOf(ph), rows)
            = Extract(Over(ph.sheet.fields, text.fields), Over(placed, text.parties))
  BY WithPlaces
<1> HIDE DEF rows, placed, text
<1>6. parties = placed \/ parties = Over(placed, text.parties)
  BY <1>5, ExtractGives DEF rows
<1> QED BY <1>4, <1>6 DEF Over

LEMMA GapsOf ==
    ASSUME NEW ph, FilledForm(ph),
           \/ Cardinality(DOMAIN LayoutParties(PlacesOf(ph))) >= Enough
           \/ ~ph.places /\ ph.words = {},
           NEW parties, parties = ParseEc8aOcr(TextOf(ph), PlacesOf(ph)).parties,
           NEW c \in DOMAIN parties, c \in Code, c \notin AgentsOn(ph)
    PROVE  parties[c] = ph.sheet.parties[c]
<1> DEFINE rows == PlacesOf(ph)
           text == ParseEc8aOcrText(TextOf(ph))
<1>1. FormNumber(ph) /\ ph.sheet.parties \in [Code -> Nat]
  BY FilledHolds DEF FormNumber
<1>2. CASE ph.places
  <2>1. Cardinality(DOMAIN LayoutParties(rows)) >= Enough
    BY <1>2
  <2>2. ParseEc8aOcr(TextOf(ph), rows)
           = Extract(Over(ph.sheet.fields, text.fields), LayoutParties(rows))
    BY <1>2, <2>1, WithPlaces
  <2>3. parties = LayoutParties(rows)
    BY <2>2, ExtractGives
  <2>4. PlacesAre(ph, rows)
    BY <1>2, PlacesHold
  <2>5. PICK k \in 1..Len(Ballot) : c = Ballot[k]
    BY BallotIs
  <2>6. PlaceVotes(ph, k) = ph.sheet.parties[Ballot[k]] \/ PlaceVotes(ph, k) = NoVotes
    BY DEF PlaceVotes, VotesIn
  <2>7. PlaceVotes(ph, k) # NoVotes /\ parties[c] = PlaceVotes(ph, k)
    BY <1>1, <2>3, <2>4, <2>5, PartyOfPlaces
  <2> QED BY <2>5, <2>6, <2>7
<1>3. CASE ~ph.places
  <2>1. PlacesOf(ph) = <<>> /\ ParseEc8aOcr(TextOf(ph), PlacesOf(ph)) = text
    BY <1>3, WithoutPlaces
  <2>2. ph.words = {}
    <3>1. ~(Cardinality(DOMAIN LayoutParties(rows)) >= Enough)
      <4> DEFINE d == DOMAIN LayoutParties(<<>>)
      <4>1. Cardinality(d) = 0
        BY NoPlaces
      <4>2. Enough \in Nat /\ Enough >= 1
        BY BallotIs
      <4> QED BY <2>1, <4>1, <4>2
    <3> QED BY <3>1
  <2>3. PICK p : /\ text = Extract(ph.sheet.fields, p)
                 /\ ph.words = {} => \A x \in DOMAIN p : p[x] = ph.sheet.parties[x]
    <3>1. RowsPlain(ph)
      BY <2>2 DEF RowsPlain, SeemsRow
    <3> QED BY <3>1, FilledText
  <2>4. parties = p
    BY <2>1, <2>3, ExtractGives
  <2> QED BY <2>2, <2>3, <2>4
<1> QED BY <1>2, <1>3

(* A clear form is read exactly, for every form of its shape, with its     *)
(* values apart from their labels or beside them: every box and party,     *)
(* where nothing else is taken for a party, and with places every party of *)
(* the form whatever is.                                                   *)
THEOREM ClearFormsAreReadExactly == PhotosSpec => []ClearFormReadExactly
<1>1. PhotosInv => ClearFormReadExactly
  <2> SUFFICES ASSUME PhotosInv, extract # Unseen, Clear(photo)
               PROVE  /\ Plain(photo) => /\ extract.fields = photo.sheet.fields
                                         /\ extract.parties = photo.sheet.parties
                                         /\ extract.sure /\ ~extract.unreadable
                      /\ photo.places => \A c \in Code \ AgentsOn(photo) :
                                            /\ c \in DOMAIN extract.parties
                                            /\ extract.parties[c] = photo.sheet.parties[c]
    BY DEF ClearFormReadExactly
  <2>1. FilledForm(photo) /\ extract = ParseEc8aOcr(TextOf(photo), PlacesOf(photo))
    BY DEF PhotosInv
  <2>2. Plain(photo) => /\ extract.fields = photo.sheet.fields
                        /\ extract.parties = photo.sheet.parties
                        /\ extract.sure /\ ~extract.unreadable
    BY <2>1, ClearRead
  <2>3. ASSUME photo.places, NEW c \in Code \ AgentsOn(photo)
        PROVE  c \in DOMAIN extract.parties /\ extract.parties[c] = photo.sheet.parties[c]
    <3>1. extract.parties = ParseEc8aOcr(TextOf(photo), PlacesOf(photo)).parties
      BY <2>1
    <3> QED BY <2>1, <2>3, <3>1, ClearPlacesRead
  <2> QED BY <2>2, <2>3
<1>2. PhotosSpec => []PhotosInv
  BY PhotosAreForms
<1> QED BY <1>1, <1>2, PTL

(* No votes are made up where they cannot be read.                         *)
THEOREM GapsAreLeft == PhotosSpec => []GapsStayGaps
<1>1. PhotosInv => GapsStayGaps
  <2> SUFFICES ASSUME PhotosInv, extract # Unseen,
                      \/ Cardinality(DOMAIN LayoutParties(PlacesOf(photo))) >= Enough
                      \/ ~photo.places /\ photo.words = {},
                      NEW c \in DOMAIN extract.parties \cap (Code \ AgentsOn(photo))
               PROVE  extract.parties[c] = photo.sheet.parties[c]
    BY DEF GapsStayGaps
  <2>1. FilledForm(photo) /\ extract = ParseEc8aOcr(TextOf(photo), PlacesOf(photo))
    BY DEF PhotosInv
  <2>2. extract.parties = ParseEc8aOcr(TextOf(photo), PlacesOf(photo)).parties
    BY <2>1
  <2> QED BY <2>1, <2>2, GapsOf
<1>2. PhotosSpec => []PhotosInv
  BY PhotosAreForms
<1> QED BY <1>1, <1>2, PTL

(* Of a clear photo the officer is advised to approve exactly what is      *)
(* typed as it is on the form, and told of the value that is not.          *)
THEOREM AdviceIsRight == PhotosSpec => []AdviceFollowsForm
<1>1. PhotosInv /\ ClearFormReadExactly => AdviceFollowsForm
  BY AdviceFollowsReading
<1>2. PhotosSpec => []PhotosInv
  BY PhotosAreForms
<1>3. PhotosSpec => []ClearFormReadExactly
  BY ClearFormsAreReadExactly
<1> QED BY <1>1, <1>2, <1>3, PTL
=============================================================================
