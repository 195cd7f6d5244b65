--------------------------- MODULE OcrVerification ---------------------------
(***************************************************************************)
(* The check of a polling unit's typed figures against its EC8A photo:     *)
(* the verdict kept on the result row (ocr-verification.ts,                *)
(* ocr-ec8a-parse.ts), the job that computes it after a submission         *)
(* (ocr-queue.service.ts) and the worker that runs the job                 *)
(* (ocr-verify.worker.ts), through RabbitMQ or inside the process.         *)
(*                                                                         *)
(* Officers act on a row one request at a time.  The jobs, RabbitMQ and    *)
(* the process itself go on beside them: a job reads the row, waits up to  *)
(* 25 s for Google Vision, and writes its verdict by row id.               *)
(***************************************************************************)
EXTENDS Naturals, Sequences

CONSTANTS
    Result,     \* polling units' results
    Field,      \* the EC8A boxes and party scores
    Value,      \* what may be typed into one
    None,       \* nothing typed
    Obeys(_),   \* whether figures obey the EC8A identities between fields
    Photo,      \* uploaded photos
    Local,      \* bound: slots for jobs that run inside the process
    MaxJobs,    \* bound: jobs on the way through RabbitMQ
    MaxCrashes  \* bound: how often the process dies

Figures == [Field -> Value \union {None}]
Blank == [f \in Field |-> None]

ASSUME OcrAssumption ==
    /\ None \notin Value
    /\ "rabbit" \notin Local
    /\ MaxJobs \in Nat
    /\ MaxCrashes \in Nat
    /\ \A fig \in Figures : Obeys(fig) \in BOOLEAN
    /\ Obeys(Blank)

VARIABLES
    row,        \* per result, its status, figures and photos
    verdict,    \* per result, the ocrVerification column
    publishing, \* the results whose submission is written and not published
    channel,    \* whether the process has a channel to RabbitMQ
    outbox,     \* messages on their way to RabbitMQ
    queue,      \* the durable queue ocr.verify
    job,        \* per slot, the worker.handle call that runs in it
    crashes,    \* how often the process died
    lost        \* the results a job of which was dropped since they were submitted

ocrVars == <<row, verdict, publishing, channel, outbox, queue, job, crashes, lost>>

(* The consumer handles one message at a time (prefetch 1).  While it does, *)
(* the message is unacknowledged.                                           *)
Slot == Local \union {"rabbit"}

Editable == {"DRAFT", "REJECTED"}

-----------------------------------------------------------------------------
(***************************************************************************)
(* A verdict.  `read` is what Vision's digits said of the typed figures:   *)
(* "agrees" when no field it could read contradicts them.  `about` is what *)
(* the verdict was computed from; the column does not hold it.             *)
(***************************************************************************)
Content == [figures : Figures, photos : SUBSET Photo]

Verdict ==
    [status : {"MATCH", "MISMATCH", "UNREADABLE", "PENDING"},
     recommendation : {"APPROVE", "RETURN", "CHECK_PHOTO"},
     engine : {"ARITHMETIC", "OCR"},
     awaiting : BOOLEAN,
     read : {"nothing", "unreadable", "agrees", "differs"},
     about : Content]

NoVerdict == [status |-> "NONE", about |-> [figures |-> Blank, photos |-> {}]]

(* arithmeticVerification *)
Arithmetic(content) ==
    LET is(status, recommendation) ==
          [status |-> status, recommendation |-> recommendation,
           engine |-> "ARITHMETIC", awaiting |-> FALSE, read |-> "nothing",
           about |-> content]
    IN  IF content.figures = Blank THEN is("PENDING", "CHECK_PHOTO")
        ELSE IF Obeys(content.figures) THEN is("MATCH", "APPROVE")
             ELSE is("MISMATCH", "RETURN")

(* ocrVerificationWrite with awaitingOcr *)
AwaitingOcr(content) ==
    LET v == Arithmetic(content)
    IN  IF content.photos # {} /\ v.recommendation # "RETURN"
        THEN [v EXCEPT !.status = "PENDING", !.recommendation = "CHECK_PHOTO",
                       !.awaiting = TRUE]
        ELSE v

(* What extractEc8a may read: a field can differ only if one was typed. *)
Readings(content) ==
    {"unreadable", "agrees"} \union (IF content.figures = Blank THEN {} ELSE {"differs"})

(* Slip: an unreadable photo counts as one that agrees. *)
MergeTrusting(v, read) ==
    LET return == v.recommendation = "RETURN" \/ read = "differs"
    IN  [v EXCEPT !.engine = "OCR", !.read = read, !.awaiting = FALSE,
                  !.status = IF return THEN "MISMATCH" ELSE "MATCH",
                  !.recommendation = IF return THEN "RETURN" ELSE "APPROVE"]

(* mergeVisionWithArithmetic *)
Merge(v, read) ==
    LET return == v.recommendation = "RETURN" \/ read = "differs"
    IN  [v EXCEPT !.engine = "OCR", !.read = read, !.awaiting = FALSE,
                  !.status = IF return THEN "MISMATCH"
                             ELSE IF read = "unreadable" THEN "UNREADABLE" ELSE "MATCH",
                  !.recommendation = IF return THEN "RETURN"
                                     ELSE IF read = "unreadable" THEN "CHECK_PHOTO"
                                          ELSE "APPROVE"]

-----------------------------------------------------------------------------
ContentOf(r) == [figures |-> row[r].figures, photos |-> row[r].photos]

Idle == [at |-> "idle"]
Reading(r) == [at |-> "read", result |-> r]

Job == {Idle}
       \union [at : {"read"}, result : Result]
       \union [at : {"vision", "write"}, result : Result, verdict : Verdict]

OcrTypeOK ==
    /\ row \in [Result -> [status : {"NONE", "DRAFT", "SUBMITTED", "APPROVED", "REJECTED"},
                           figures : Figures, photos : SUBSET Photo]]
    /\ verdict \in [Result -> Verdict \union {NoVerdict}]
    /\ publishing \subseteq Result
    /\ channel \in BOOLEAN
    /\ outbox \in Seq(Result)
    /\ queue \in Seq(Result)
    /\ job \in [Slot -> Job]
    /\ crashes \in 0..MaxCrashes
    /\ lost \subseteq Result

OcrInit ==
    /\ row = [r \in Result |-> [status |-> "NONE", figures |-> Blank, photos |-> {}]]
    /\ verdict = [r \in Result |-> NoVerdict]
    /\ publishing = {}
    /\ channel = TRUE
    /\ outbox = <<>>
    /\ queue = <<>>
    /\ job = [s \in Slot |-> Idle]
    /\ crashes = 0
    /\ lost = {}

-----------------------------------------------------------------------------
(* upsertResult: a field the request leaves out keeps what the row has, but *)
(* the verdict is that of the request's figures alone (896-908).            *)
Upsert(r, fig, photos) ==
    /\ r \notin publishing
    /\ row[r].status \in Editable \union {"NONE"}
    /\ row' = [row EXCEPT ![r] =
                 [status  |-> "DRAFT",
                  figures |-> [f \in Field |-> IF fig[f] = None THEN row[r].figures[f]
                                               ELSE fig[f]],
                  photos  |-> photos]]
    /\ verdict' = [verdict EXCEPT ![r] = Arithmetic([figures |-> fig, photos |-> photos])]
    /\ UNCHANGED <<publishing, channel, outbox, queue, job, crashes, lost>>

(* attachEc8aPhoto *)
Attach(r, photo) ==
    LET content == [figures |-> row[r].figures, photos |-> row[r].photos \union {photo}]
    IN  /\ r \notin publishing
        /\ row[r].status \in Editable
        /\ row' = [row EXCEPT ![r].photos = content.photos]
        /\ verdict' = [verdict EXCEPT ![r] = Arithmetic(content)]
        /\ UNCHANGED <<publishing, channel, outbox, queue, job, crashes, lost>>

(* submitResult up to the row's update; the action log is written before   *)
(* the job is published.                                                   *)
Submit(r) ==
    /\ r \notin publishing
    /\ row[r].status \in Editable
    /\ row[r].photos # {}
    /\ Len(outbox) + Len(queue) < MaxJobs
    /\ row' = [row EXCEPT ![r].status = "SUBMITTED"]
    /\ verdict' = [verdict EXCEPT ![r] = AwaitingOcr(ContentOf(r))]
    /\ publishing' = publishing \union {r}
    /\ lost' = lost \ {r}
    /\ UNCHANGED <<channel, outbox, queue, job, crashes>>

(* The ward officer's decision, as far as the agent's result sees it. *)
Approve(r) ==
    /\ row[r].status = "SUBMITTED"
    /\ row' = [row EXCEPT ![r].status = "APPROVED"]
    /\ UNCHANGED <<verdict, publishing, channel, outbox, queue, job, crashes, lost>>

Return(r) ==
    /\ row[r].status \in {"SUBMITTED", "APPROVED"}
    /\ row' = [row EXCEPT ![r].status = "REJECTED"]
    /\ UNCHANGED <<verdict, publishing, channel, outbox, queue, job, crashes, lost>>

-----------------------------------------------------------------------------
(* publish: to RabbitMQ, or without a channel to a job in the process. *)
Publish(r) ==
    /\ r \in publishing
    /\ publishing' = publishing \ {r}
    /\ IF channel THEN /\ outbox' = Append(outbox, r)
                       /\ UNCHANGED job
       ELSE /\ \E s \in Local : /\ job[s] = Idle
                                /\ job' = [job EXCEPT ![s] = Reading(r)]
            /\ UNCHANGED outbox
    /\ UNCHANGED <<row, verdict, channel, queue, crashes, lost>>

(* RabbitMQ receives and keeps a message. *)
Accept ==
    /\ channel
    /\ outbox # <<>>
    /\ queue' = Append(queue, Head(outbox))
    /\ outbox' = Tail(outbox)
    /\ UNCHANGED <<row, verdict, publishing, channel, job, crashes, lost>>

(* RabbitMQ delivers the next message to the consumer. *)
Deliver ==
    /\ channel
    /\ queue # <<>>
    /\ job["rabbit"] = Idle
    /\ job' = [job EXCEPT !["rabbit"] = Reading(Head(queue))]
    /\ queue' = Tail(queue)
    /\ UNCHANGED <<row, verdict, publishing, channel, outbox, crashes, lost>>

(* worker.handle reads the row; without a photo it has its verdict. *)
ReadRow(s) ==
    LET r == job[s].result
        v == Arithmetic(ContentOf(r))
    IN  /\ job[s].at = "read"
        /\ job' = [job EXCEPT ![s] =
                     [at |-> IF row[r].photos = {} THEN "write" ELSE "vision",
                      result |-> r, verdict |-> v]]
        /\ UNCHANGED <<row, verdict, publishing, channel, outbox, queue, crashes, lost>>

(* Vision answers, or its 25 s are over and the photo is unreadable. *)
AskVision(s) ==
    /\ job[s].at = "vision"
    /\ \E read \in Readings(job[s].verdict.about) :
          job' = [job EXCEPT ![s] = [at |-> "write", result |-> @.result,
                                     verdict |-> Merge(@.verdict, read)]]
    /\ UNCHANGED <<row, verdict, publishing, channel, outbox, queue, crashes, lost>>

(* worker.handle stores its verdict, and the consumer acknowledges. *)
WriteVerdict(s) ==
    /\ job[s].at = "write"
    /\ verdict' = [verdict EXCEPT ![job[s].result] = job[s].verdict]
    /\ job' = [job EXCEPT ![s] = Idle]
    /\ UNCHANGED <<row, publishing, channel, outbox, queue, crashes, lost>>

(* A database call or a file read of the consumer's job fails: consume     *)
(* acknowledges the message all the same.  In a job of the process nobody  *)
(* catches the error, and the process dies (Crash).                        *)
Fail ==
    /\ job["rabbit"] # Idle
    /\ lost' = lost \union {job["rabbit"].result}
    /\ job' = [job EXCEPT !["rabbit"] = Idle]
    /\ UNCHANGED <<row, verdict, publishing, channel, outbox, queue, crashes>>

(* RabbitMQ puts the unacknowledged message back at the head. *)
Requeued == IF channel /\ job["rabbit"] # Idle THEN <<job["rabbit"].result>> \o queue
            ELSE queue

InOutbox == {outbox[i] : i \in 1..Len(outbox)}

(* The process dies and starts again, connected.  What was only in its     *)
(* memory is gone.                                                         *)
CrashOver(kept) ==
    /\ crashes < MaxCrashes
    /\ crashes' = crashes + 1
    /\ queue' = kept
    /\ outbox' = <<>>
    /\ job' = [s \in Slot |-> Idle]
    /\ publishing' = {}
    /\ lost' = lost \union publishing \union InOutbox
               \union {r \in Result : \E s \in Local : job[s] # Idle /\ job[s].result = r}
    /\ channel' = TRUE
    /\ UNCHANGED <<row, verdict>>

(* Slip: the message is acknowledged when it is delivered. *)
CrashAfterEarlyAck == CrashOver(queue)

Crash == CrashOver(Requeued)

(* The connection breaks: its error handler drops the channel, and nothing *)
(* connects again before the next start.  The consumer's job runs on.      *)
LoseChannel ==
    /\ channel
    /\ channel' = FALSE
    /\ queue' = Requeued
    /\ outbox' = <<>>
    /\ lost' = lost \union InOutbox
    /\ UNCHANGED <<row, verdict, publishing, job, crashes>>

-----------------------------------------------------------------------------
Request(r) ==
    \/ \E fig \in Figures, photos \in SUBSET Photo : Upsert(r, fig, photos)
    \/ \E photo \in Photo : Attach(r, photo)
    \/ Submit(r) \/ Approve(r) \/ Return(r)

Work(s) == ReadRow(s) \/ AskVision(s) \/ WriteVerdict(s)

QueueNext ==
    \/ \E r \in Result : Request(r) \/ Publish(r)
    \/ Accept \/ Deliver
    \/ \E s \in Slot : Work(s)
    \/ Fail
    \/ Crash

OcrNext == QueueNext \/ LoseChannel

(* Node runs what is ready, the database and Vision answer or throw, and   *)
(* RabbitMQ delivers: nothing waits forever on anything but officers.      *)
Fairness ==
    /\ \A r \in Result : WF_ocrVars(Publish(r))
    /\ WF_ocrVars(Accept)
    /\ WF_ocrVars(Deliver)
    /\ \A s \in Slot : WF_ocrVars(Work(s))

(* RabbitMQ stays connected while the process lives. *)
QueueSpec == OcrInit /\ [][QueueNext]_ocrVars /\ Fairness

(* The connection may break at any time. *)
OcrSpec == OcrInit /\ [][OcrNext]_ocrVars /\ Fairness

-----------------------------------------------------------------------------
(* A job about result r is on its way or running. *)
Outstanding(r) ==
    \/ r \in publishing
    \/ \E i \in 1..Len(outbox) : outbox[i] = r
    \/ \E i \in 1..Len(queue) : queue[i] = r
    \/ \E s \in Slot : job[s] # Idle /\ job[s].result = r

(***************************************************************************)
(* Once no job about a submitted or approved result is left, and none was  *)
(* dropped, its verdict is about its present figures and photos, a photo   *)
(* was looked at, and the ward officer's chip says what was found: an      *)
(* earlier submission's slow job, a redelivered message or a request       *)
(* beside it never has the last word.                                      *)
(***************************************************************************)
VerdictSettled ==
    \A r \in Result :
        row[r].status \in {"SUBMITTED", "APPROVED"} /\ ~Outstanding(r) /\ r \notin lost =>
            /\ verdict[r].about = ContentOf(r)
            /\ verdict[r].engine = "OCR"
            /\ verdict[r].recommendation =
                 IF ~Obeys(row[r].figures) \/ verdict[r].read = "differs" THEN "RETURN"
                 ELSE IF verdict[r].read = "unreadable" THEN "CHECK_PHOTO" ELSE "APPROVE"

(* What a job that has read a row makes of it. *)
Found(content) ==
    IF content.photos = {} THEN {Arithmetic(content)}
    ELSE {Merge(Arithmetic(content), read) : read \in Readings(content)}

(* A job about r that has yet to read the row is on its way. *)
Unread(r) ==
    \/ r \in publishing
    \/ \E i \in 1..Len(outbox) : outbox[i] = r
    \/ \E i \in 1..Len(queue) : queue[i] = r
    \/ job["rabbit"] = Reading(r)

(* The consumer's job has read r's row. *)
Working(r) == job["rabbit"].at \in {"vision", "write"} /\ job["rabbit"].result = r

(* The consumer's job carries the verdict of what it has read. *)
JobSound ==
    LET j == job["rabbit"]
    IN  /\ j.at = "vision" => /\ j.verdict = Arithmetic(j.verdict.about)
                              /\ j.verdict.about.photos # {}
        /\ j.at = "write" => j.verdict \in Found(j.verdict.about)

(* Of a submitted result somebody has yet to read the row, or whoever read *)
(* it last, the job at work or the one that wrote, saw what it holds now.  *)
LastReadIsPresent(r) ==
    row[r].status \in {"SUBMITTED", "APPROVED"} =>
        /\ row[r].photos # {}
        /\ \/ r \in lost
           \/ Unread(r)
           \/ IF Working(r) THEN job["rabbit"].verdict.about = ContentOf(r)
              ELSE verdict[r] \in Found(ContentOf(r))

(***************************************************************************)
(* The inductive invariant behind VerdictSettled.  A stale verdict in the  *)
(* consumer is harmless only because the resubmission's own job then waits *)
(* behind it, which VerdictSettled by itself does not say.                 *)
(***************************************************************************)
OcrIInv ==
    /\ OcrTypeOK
    /\ channel
    /\ \A s \in Local : job[s] = Idle
    /\ JobSound
    /\ \A r \in Result : LastReadIsPresent(r)

(***************************************************************************)
(* A result never waits for its OCR for good ("until the worker finishes", *)
(* docs/OCR.md 121), unless its job was dropped: before it was published,  *)
(* by a crash, or by an error the consumer acknowledged.                   *)
(***************************************************************************)
OcrCompletes ==
    \A r \in Result :
        (verdict[r].status = "PENDING" /\ verdict[r].awaiting)
            ~> (verdict[r].status # "PENDING" \/ ~verdict[r].awaiting \/ r \in lost)

(***************************************************************************)
(* "If RabbitMQ is down, the same worker still runs in-process"            *)
(* (docs/OCR.md 138) and "RETURN - identities fail, or typed numbers       *)
(* disagree with the photo" (118): with no job left and none dropped, the  *)
(* verdict is about what the ward officer sees.  Two jobs of the process   *)
(* run side by side, and the older may write last.                         *)
(***************************************************************************)
VerdictAboutPresent ==
    \A r \in Result :
        row[r].status \in {"SUBMITTED", "APPROVED"} /\ ~Outstanding(r) /\ r \notin lost =>
            verdict[r].about = ContentOf(r)
=============================================================================
