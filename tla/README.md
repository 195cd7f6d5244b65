# Verification of electromon-api

TLA+ models of the electromon API (NestJS, Prisma on Postgres, RabbitMQ), which
collects polling-unit results of an election and passes them up through ward
and LGA. Source paths below are relative to the repository.

## 1. The system

One Node process serves all requests. A handler runs without interruption from
one `await` to the next; between two awaits any other request, job or callback
runs. There are no row locks and, except in `approveAllLgaWardResults`, no
transactions, so "what may interleave" is exactly "what stands between two
database calls".

| Component | State it keeps | Operations | Talks to |
|---|---|---|---|
| **Collation workflow** `modules/collation/collation.service.ts`, `shared/src/collation.ts` | `collation_results` (one row per administrative unit: status, figures, photos, return reason, flags, verdict), `collation_action_logs` | save, attach photo, submit, approve, approve all, return, return flagged units, resubmit ward; rollup and rebuild of the parent's row | EC8A verification (after submit), notifications (events) |
| **EC8A verification** `ocr-queue.service.ts`, `ocr-verify.worker.ts`, `ocr-verification.ts`, `ocr-ec8a-parse.ts`, `ocr-ec8a-words.ts`, `ocr-ec8a-layout.ts`, `google-vision.service.ts` | the `ocrVerification` column, the RabbitMQ queue `ocr.verify`, the channel, jobs in the process | publish, consume, handle, read the form, verdicts | collation rows, Google Vision |
| **Notifications** `modules/notifications` | `notifications` (unique per recipient and event), device tokens | dispatch, register and unregister device, mark read | events of collation and field reports, FCM |
| **Field reports, situation room** | reports, comments | create, change status | notifications |
| **Commitments, support groups** `modules/commitments`, `modules/support-groups` | pledges with target and delivered amount, each of a group; groups | create, update, remove; removing a group removes its commitments | - |
| **Volunteers, polling units** `modules/volunteers`, `modules/polling-units` | people; units with the id of an assigned volunteer, tied by no key | create, update, remove | results and reports refer to units |
| **Agents, scopes** | users, memberships (role and unit) | create, update an officer; resolve a scope | every guard |
| **Authentication** | refresh tokens | login, refresh, logout | - |
| **Browsing** `collation-browse.service.ts`, `shared/src/parties.ts` | none | map, lists, race board | collation rows |
| **Structure, campaign, analytics** | none | queries | - |
| **Seeds** `db/prisma/seed.ts`, `seed-collation.ts`, `seed-inec.ts`, `seed-production-apc.ts` | none of their own: they write geography, accounts, results, samples | run from the start, in staging whenever the migration container starts (`infra/scripts/entrypoint-migrate.sh`) | every table |
| **Platform** (guards, audit, metrics, health, uploads) | counters, files | per request | - |

### What is hard

* **Interleaving.** A handler checks a status it read, and updates by row id
  several awaits later. Two officers, an officer and an agent, or two sessions
  of one office overlap.
* **Derived data.** A ward's total is recounted by three code paths and must
  follow every path that approves or reopens a polling unit.
* **Partial failure.** Row, action log, rollup and notification are separate
  writes. Nothing repeats the later ones after a failure.
* **Protocol sequences.** Returned wards, flagged units, corrections and
  re-forwarding combine into long legal sequences.
* **Background work.** An OCR job reads a row, waits up to 25 s, and writes its
  verdict without looking again; RabbitMQ redelivers, the in-process fallback
  does not.
* **Reading a form.** Tables, words and boxes overlap in what Vision reports;
  each reading may contradict another, and a gap must not be filled by a guess.
* **Seeds over living data.** Hundreds of writes without a transaction, cut off
  anywhere and repeated over what officers did meanwhile.

`PROJECT.json` lists these at their lines, each with the properties that cover
it or the reason none does yet.

### What correct means, by component

* Collation: an approved ward is complete and stays so; totals count what is
  approved and nothing else; approved figures change only through a return the
  code provides for; the action log tells one story.
* Screens: what an officer is offered is what the handler accepts; while a
  ward is not finished somebody is asked for the next step; listings, map and
  race board agree with each other and with the votes.
* EC8A verification: once nothing is left to run, the verdict is about the
  figures and photo on the row; no result waits for good.
* Notifications and field reports: whoever is to be told of a report is told,
  also when it is reopened and handled again; no device rings twice for one
  event; what is read stays read; a device is silent only by its holder's wish.
* A photo: of a clear form every figure is read as it stands, and nothing else
  is taken for a party; of any other,
  what is read stands on the form, and the rest is left open; what the verdict
  advises follows from figures and form.
* Commitments: delivered stays within the target; a commitment is of a group of
  its own campaign.
* Seeds: whenever a seed completes, the totals are those of the units again and
  nothing is there twice; a sample tells the story it was made up for.
* Accounts: an officer's role and unit belong together, also in tokens; a
  session goes on with one refresh token and ends for good; an office taken
  away is soon claimed by no token; a membership and its user agree.

## 2. The modules

| Module | Models |
|---|---|
| `Collation` | result rows, latest log entry per row, every state-changing handler as **one** step |
| `CollationProperties` | invariants, action properties, the inductive invariant `IInv`, the mapping to `Certification` |
| `Certification` | the abstract promise: figures of a ward are certified once, complete, for good; the LGA publishes what is certified |
| `CollationProofs` | proofs about `Collation`; the proof that it implements `Certification` |
| `CollationScreens` | the listings of the collation service: what officers are shown and offered |
| `CollationBrowse` | the map, the coverage figures and the race board |
| `CollationScreensProofs` | proofs about `CollationScreens` and `CollationBrowse` |
| `SumTheorems` | sums, counts, largest and smallest of finite sets; induction stated over sets |
| `CollationAsync` | the same handlers split at their database calls, from any number of sessions, overlapping, cut off |
| `CollationAsyncProperties` | what survives that, and what does not; the inductive invariant `AsyncIInv` |
| `CollationAsyncProofs` | proofs about `CollationAsync` and `CollationOneAtATime` |
| `CollationOneAtATime` | the split handlers, one at a time, implement `Collation` |
| `OcrVerification` | verdict, its writers, queue, worker, in-process jobs, crashes |
| `OcrProofs` | proofs about `OcrVerification` and `Ec8aPhotos` |
| `Ec8aReading` | the parser: numbers in words, form text, tables, boxes, reconciliation, comparison with the typed figures |
| `Ec8aPhotos` | forms, what Vision may make out of them, and what the parser must make of that |
| `Notifications` | dispatches, inbox rows, pushes, devices, read marks, crashes |
| `FieldReports` | field reports, their handlers, the events they emit, on top of `Notifications` |
| `FieldReportsProofs` | proofs about `FieldReports` |
| `Accounts` | officers' users and memberships, sign-in, tokens and their expiry, what managers assign |
| `AccountsProofs` | proofs about `Accounts` |
| `Commitments` | support groups and commitments; an update split at its awaits |
| `RecordsProofs` | proofs about `Commitments` |
| `Seeding` | the seeds as programs of writes, cut off and run again; the figures they make up |
| `MC*` and `*.cfg` | small instances for TLC; `MCOcrQueue` checks the queue and the parser side by side, `MCCampaign` four parts that share no row |

### Correspondence

*Rows.* `rows[u]` is the row with the level and scope of unit `u`; the officer
of `u` is whoever holds that scope, so authorisation becomes "the unit's own
officer" or "the officer of `Parent[u]`". The figures of a row are a set of
`<<unit, figure>>` pairs: one pair for typed figures, the union for a rollup.
That keeps which unit's which figure a total counts, and leaves out arithmetic.
`photo` and `reason` are whether the columns are filled, `flagged` is
`flaggedPollingUnitIds`.

*Handlers.* `UpsertResult`, `AttachEc8aPhoto`, `SubmitResult`, `ApproveResult`,
`ApproveAllLgaWardResults`, `RejectResult`, `ResubmitWardToLga`,
`ReturnLgaFlaggedPus` carry the names of the methods. Each includes every write
the method makes: the decision, the log entry, the rollup
(`RollupToParent`) or rebuild (`RebuildWardRollup`). `getParentLevel` returns,
despite its name, the level below, and is modelled by what it returns
(`SubordinateLevel`).

The levels' metadata says that an LGA cannot submit (`canSubmit: false`,
`shared/src/collation.ts:116`), but saving and submitting refuse only the
ward's officer (`collation.service.ts:868`); the model follows the handlers, so
an LGA officer may type a result of the LGA's own.

*Screens.* `CollationScreens` and `CollationBrowse` have no variables: their
operators are functions of `rows`, one for each listing, and each counts the
way its listing does (`StatusCounts` by what remains, `Readiness` by cases,
`Coverage` by a list of statuses). A counter is a cardinality, a screen's
button the condition the service sends with the data. `VotesOf` gives a typed
figure its votes by party, and `PartyTotals` the votes of a row: the sum over
the figures it counts. `Client` is the campaign's party.

*Split handlers.* In `CollationAsync`, `req[r]` is a request: `at` is the
database call it makes next, the other fields are the local variables that
survive the await. `owes` names the parents the request will still recount;
`torn`, an auxiliary variable, the parents whose recount was cut off. `Abort`
ends a request at any await: a crash of the process or a failing call. A client
is a session, not a person: nothing stops two officers of one office (an agent's
role and unit are given out by `agents.service.ts:784-977` as often as asked), a
second device or a double tap, so `OfficerOf` may name a unit any number of
times.

*Verdicts.* In `OcrVerification`, `job` holds the running `worker.handle`
calls: the slot `"rabbit"` is the consumer, limited to one by prefetch 1, the
slots of `Local` are jobs in the process. A message leaves `queue` when it is
delivered, and `Crash` or `LoseChannel` puts the unacknowledged one back at the
head. `lost`, auxiliary, names the results whose job was dropped. A saved
request may leave columns out: they keep their value, while the verdict is that
of the request alone. `verdict[r].about`, auxiliary, is what a verdict was
computed from. A field that Vision cannot read is compared with nothing, so
`read` is one of "unreadable", "agrees" (nothing read contradicts) and
"differs", chosen freely.

*Dispatches.* In `Notifications`, `dispatch[d]` is one run of
`handleDispatch`: `at` is the database or FCM call it makes next ("resolve" the
recipients, write "rows", read "tokens", "send" a chunk, "clean" up invalid
tokens), `todo`, `created`, `tokens` and `invalid` are its local variables. A
handler's `emitNotification` is `Emit`, inside the handler's own action. An
event's dedupe key is its type and entity: the source event id is
`<entity>:<STATUS>` there, which the type determines. `inbox`, `read` and
`device` are the tables. `pushed`, `repeated`, `dropped`, `left` are auxiliary:
the pushes FCM accepted, those it accepted twice, the rows an error or crash
prevented, the devices their holder unregistered. `dead` is FCM's knowledge of
uninstalled apps. Recipients are the officers of the report's ward or LGA
(`Officers`; `CampaignMembership` is unique per user and campaign, so a user
has one office) or its reporter, without whoever acted.

*Field reports.* `report[r]` is a row of `field_reports`; its category matters
as far as it is an incident, its priority as far as it is urgent. The ward's
comment is left out.

*Accounts.* `account[u]` and `membership[u]` are the rows of `users` and
`campaign_memberships` (unique per user and campaign; one campaign). A session
is what a sign-in starts: the chain of refresh tokens that replace each other.
The code has no name for it; here each token bears its session. `refresh[t]` is
the row of a token that is not revoked, `life` the time to its expiry. An access
token is nothing but its claim and its expiry, so `access[u][o]` is how long
some token claims office `o` for `u`. `call[c]` is a handler between two
database calls, as in the split handlers of the collation. `raced` and
`disturbed` are auxiliary: they name the sessions and the users for which two
calls, or a failure, came between two writes that belong together.

*A photo.* `Ec8aReading` is operators only. A line of text, a word and a place
on the page are records: a line is a label, a serial number, a party, a number
or a word of a numeral, not characters. `ParseEc8aOcr` is `parseEc8aOcr` with
its fallbacks in their order, `MergeVisionWithArithmetic` the comparison that
gives the verdict. `Ec8aPhotos` has the filled form (`Sheet`), which of its
lines and boxes Vision makes out (external, chosen freely), and the properties.
How the code's regular expressions recognise a digit or a label in a string is
left out: a line that is made out is recognised for what it is. The exception is
the test for a party's code. `isPartyCode` knows a code by its length and by
`PARTY_CODE_STOP`, a list of words that are none, in which seven words of
numbers are missing (`TakenForCodes`). So `IsPartyCode` passes these too:
`TakenIn` gives every word of a row that does, of its number in words or an
agent's name, the votes of that row, and `ExtractPartyTable` begins a row at a
small figure with such a word behind it (12, twelve). The names of agents are
looked at with the places only, and are not words of numbers themselves; a row's
serial and its code are legible.

*Commitments.* `patch[d]` is an update between two database calls: the group it
names is yet to be looked for, or the row is yet to be written. Everything
else a handler asks cannot change between question and write (a campaign's
state, a commitment's campaign), or the database asks it again (foreign keys),
so the other handlers are one step. `crossed` is auxiliary: commitments whose
last write was checked against amounts that another had changed by then.

*Seeds.* `Program[seed]` is the sequence of writes of `main()`, computed from
the geography as the loops of `seed-collation.ts` compute it: which unit gets
which status, outcome and kind of figures. `at` is the next write. `CutOff`
ends the process anywhere, `Run` starts it over, and `Work` is what officers do
with a complete seed: enter and decide a unit (with the ward's recount), remove
a sample, dismiss an officer. A tally is the set of units it counts, each with
what its figures were computed from; `OutcomePartyResults` computes them.
Products of floats are thousandths here: where a product ends in exactly one
half, JavaScript's rounding of the float may differ by one vote, which changes
the outcome of none of the indices up to 12,000. The party list is that of the
seed.

*Slips.* A definition commented "Slip" is a plausible bug in the definition
that follows it. No specification uses it. `PROJECT.json` pairs it with the
property that fails when it takes the definition's place, which shows that the
property depends on that line of the code.

## 3. The runs

| Run | Asks | Instance and bounds | Result |
|---|---|---|---|
| `collation_ward` | the properties of undisturbed handlers on a ward; the screens against the handlers and each other | one ward, two polling units, LGA; two figures | holds, 45 k states |
| `collation_lga` | the LGA's result; refinement of `Certification`; map and race board | two wards of one unit, LGA, state; one figure, two parties | holds, 232 k states |
| `campaign_desks` | do the split handlers do what the whole ones say? is somebody asked whatever overlaps? amounts and groups of commitments; seeds run again | collation: one ward, two units, LGA, one request at a time; sessions: one ward of one unit, two sessions of the ward's office, an agent, an LGA officer, `InProgress = 2`; two groups, one commitment, two updates, `Most = 2`; five LGAs, 25 units, 2 units told per competitive ward | holds, 0.5 M states |
| `ocr_queue` | verdicts settle and complete over RabbitMQ; what is read of a form | one result, two fields of two values, one photo; `MaxJobs = 2`, one crash; beside it one photo of three parties | holds, 159 k states |
| `field_reports` | who is told of a report, whose device rings, what stays read | an agent, a ward and an LGA officer, one report, one device; `Dispatch` of two slots, `ChunkSize = 1` | holds, 1.8 M states |
| `accounts` | roles and units, tokens of a session, the two rows, offices that are lost | one officer, a ward and a polling unit of one LGA; one session, two tokens, two calls; `AccessLife = 1`, `RefreshLife = 2` | holds, 1.1 M states |
| `collation_reforward` | re-forwarded wards are complete | as `collation_ward` | **violated** |
| `collation_final` | an approved ward stays approved | one ward, two units, two agents, a ward and an LGA officer; `InProgress = 2`; one figure; no failures | **violated** |
| `collation_cut_off` | an approved unit is in its ward's total | the same, with failures | **violated** |
| `collation_overlap` | an approved unit reopens only in a returned ward | the same with a second session of the ward's office, no failures | **violated** |
| `ocr_advice` | a form typed as it stands is not returned | as `ocr_queue` | **violated** |
| `ocr_in_process` | the verdict is about the row after RabbitMQ is gone | two jobs in the process, no crash | **violated** |

### Why these bounds

A ward with two units is the smallest in which one is approved while the other
is not, which every defect of a rollup needs; two wards are the smallest in
which the LGA's total has a part that must not change while the other does. Two
figures tell an old typing from a new one; where a property does not look at the
figure itself (overlapping requests, LGA) one is enough, since `tally` still
says which units count. Two overlapping requests show every race between a pair
of handlers; of the sessions desk, the ward's office has two sessions, since its
approvals, returns, resubmissions and their rollups are what races there, and
the theorem `NobodyForgotten` covers any number of sessions of every office. No
guard of a handler reads the log, the figures, the totals or the reasons, and
who is asked depends on none of them, so that desk identifies states that differ
only there; of a support group no guard reads whether it is located
(`VIEW WithoutUnread`). The two sessions, the two updates, the groups and the
campaigns are alike, hence the symmetry. Two queued messages, one being published
and one at work are up to four jobs about one result, which is one more than any argument about "older, newer, and the one
between" needs. Two dispatches under way show every race between two that tell
of the same event, and between one and a device that changes hands (`Holder`:
two users register it) or an officer who reads (`Reader`). A status that was
already told of can be set again without end, so one report gives histories of
any length. Dispatches are alike, hence the symmetry. Nobody is obliged to act
on a report, and the hierarchy may really come to rest (everything approved and
nothing to return), so these runs do not ask for deadlock; the OCR runs do.

In `accounts` managers are free, so one officer meets every assignment; two
calls show each race between a refresh, a logout and a manager, and two tokens
a token beside its successor. A refresh token outlives an access token by one
tick, which lets a session go on after a claim has expired.

The desks of `campaign_desks` share no row, so their product would show nothing
that each alone does not; a behaviour is about one of them (`desk`). Two
updates and two groups show each race between a check and a write and a group
removed under a commitment; one commitment is enough, as no handler looks at
two. The seeds' small state has each case of the real one: an LGA told in
detail with its returned ward, its incomplete ward, and wards of each status;
competitive LGAs with more units than are told; an LGA with a sample only, and
one pending; units an older seed made up. `Take = 2` stands for 12, and officers
work on four units (`Busy`), one in a ward of each kind. `at` passes each of the
writes, and every state may be cut off. The branch of a rollup without any
approved unit is not met there nor in INEC's lists: each ward has three units
or more.

In `Ec8aPhotos` three parties are enough for one row between two others, and
votes of one and two digits (`VotesOfParty`) are what the parser's size
rules tell apart; 3 is a serial and 25 has a word that passes for a code. One
agent's initial is another party's code. Numbers in words are read for
every amount to `MaxAmount`. `FormAssumption` says what the real form gives:
at least as many parties as make a table believable and no more than serials
are looked for (20), enough words to be worth looking at, and totals that a box
may hold (`MostInBox`, 50,000, above which the parser takes a number for
something else).

The votes are chosen so that the client wins one unit and loses the other by as
much: alone they are a win and a loss, together a tie, and the LGA's own typed
figures are a loss. That gives each outcome at the LGA, where a wrong sum
shows.

### What the violated runs show

* **A returned ward goes back by itself** (`collation_reforward`).
  `rollupToParent` sets a ward to SUBMITTED whatever it was, so approving one
  corrected unit re-forwards a returned ward while another unit is still open,
  against `collation.controller.ts:291` and `collation.service.ts:1239`. The
  LGA cannot approve it in that state, its readiness check says so, but sees it
  as submitted, and the flags and reason are gone or stale.
* **An approved ward is undone** (`collation_final`). The LGA's approval fits
  between the last unit's approval and its rollup. The ward is SUBMITTED again
  and the LGA's total was counted without the last unit.
* **An approved unit is not counted** (`collation_cut_off`). Approval and
  rollup are separate writes; a failure in between leaves nothing to repeat.
* **An approved unit is reopened** (`collation_overlap`). `rejectResult` checks
  the status it read and updates by id. Of two requests of the ward's office that
  read the same submitted unit, one approves it and the other returns it, and
  since the return takes it for a submitted unit, it recounts no ward.
* **A correct form is returned** (`ocr_advice`). Votes of 25 in words make a
  party TWENTY of 25 votes, the sum of the parties differs from the valid votes,
  and the officer is advised to return what was typed as it stands.
* **A stale verdict stays** (`ocr_in_process`). Jobs in the process are not
  ordered; the one that read the row before its correction can write last.

## 4. Fairness

The collation properties are safety only: officers are free never to act.
`LostOfficeFades` assumes that time passes (`WF_vars(Tick)`), and nothing of
users, managers or calls: a call that read an office may wait as long as it
likes. It issues one token at most, and a token's claim runs out.
`OcrCompletes` assumes weak fairness of publishing, of RabbitMQ accepting and
delivering, and of each step of a running job. The code justifies it: publish
runs in the same turn as the response, database calls return or throw, and
Vision's answer races a 25 s timer (`google-vision.service.ts:119`). Officers,
failures and crashes have no fairness; the number of crashes is bounded
(`MaxCrashes`), since a process that dies for ever completes nothing. While
RabbitMQ is connected, a result can wait for good only if its job was dropped:
by a crash before it was published or accepted, or by an error that the
consumer acknowledges (`ocr-queue.service.ts:96`).

## 5. What is proved

For every hierarchy that is a forest of the code's levels (`TreeAssumption`),
every set of figures, and handlers that run undisturbed (`CollationProofs`):

* `Invariance`: `Spec => []IInv`, and from it `TypeCorrect`,
  `WardsApprovedComplete`, `WardTalliesFaithful`, `LgasCountApprovedWards`, and
  the action property `ApprovedPusReopenInReturnedWards`.

The claims are not inductive by themselves. A rollup overwrites its parent's
status without reading it, so "an LGA counts its approved wards" needs that no
step demotes an approved ward; that needs every unit of an approved ward to be
approved already (no unit is left whose approval would roll the ward up), and
that an approved unit reopens only in a returned ward. `IInv` carries these
together with the exact totals and two facts about shapes (flags are units of
the ward, a unit's row counts one figure, its own). The proof first describes
the effect of each action (`...Effect` lemmas), then has one lemma per action
that shows `IInv'`, from frame lemmas for the wards and LGAs an action does not
touch.

* `ImplementsCertification` (`CollationProofs`):
  `Spec => CertifiesOnceAndForGood`. `IInv` turns the promise into one fact
  about a step (`ApprovalsOfOneLga`): approved wards keep status and total, and
  the wards a step approves are of one LGA. From it every step is one `Certify`
  of the wards it approves or leaves `certified` and `published` alone: an
  approved ward's total has one figure of each unit (`ApprovedComplete`), and
  what an LGA publishes is what its wards certified (`PublishedIsCertified`).

* `TrailsAccount`, `TrailsContinue` (`CollationProofs`): the action log tells
  how a row came to its status. A step leaves a unit alone, logs its new status,
  types a draft, or rolls a ward up (`NextTrail`); only the last two write no
  entry, and neither ends in a status the properties ask an entry for.

* `AlwaysSomebodyIsAsked`, `AllSubmittedHaveEc8a`, `AllReasonsWhileReturned`
  (`CollationScreensProofs`). "Somebody is asked" follows from the numbers on
  the screens and one fact about the rows, `WardForwarded`: a ward with an
  approved unit has been forwarded. The three are invariant together
  (`ScreenInvariance`), on top of `IInv`. The counters are cardinalities, so the
  argument that all of a ward's units are approved when as many are as there are
  uses that the tables are finite (`FiniteAssumption`).

* `ScreensAlwaysAgree`, `AllCountedAreReported`, `AllOutcomesAreMajorities`,
  `WonEverywhereIsAlwaysWon` (`CollationScreensProofs`, from `BrowseAssumption`
  too): the map, the coverage figures and the race board. `IInv` does not say
  what an LGA's total holds before a ward of it is approved; `LgaOwnFigures`
  does (nothing, or the one figure typed for the LGA itself), and
  `BrowseInv == IInv /\ LgaOwnFigures` is inductive. The rest is about sums: a sum over LGAs equals the sum over their units, a sum of terms that
  are each positive is, the largest of some numbers is one of them.
  `SumTheorems` proves these by induction. The library's induction theorems
  take the predicate as an operator, which no prover here can instantiate; a
  *set* of numbers, or of subsets, can be given instead, and then the provers
  only see first-order facts (`NatSetInduction`, `FiniteSetInduction`).

For every hierarchy, any number of sessions of every office and any number of
requests under way (`CollationAsyncProofs`, from `CollationAssumption`,
`ClientAssumption` and `FiniteAssumption`):

* `AsyncInvariance`: `AsyncSpec => []AsyncIInv`, and from it `NobodyForgotten`:
  once no request is running, somebody is asked about every unfinished ward.

Most of what holds of undisturbed handlers is false here. With two sessions of a
ward's office a return can follow an approval it did not see
(`collation_overlap`), two rollups may leave the older total, a ward may be
approved while a return of one of its units is under way, and a rebuild writes
back a reason that is no longer there. `AsyncIInv` therefore takes for granted
nothing about the rows that a request read: `Carries` says only whose rows a
request is about and which calls it has yet to make. That is enough for one
thing. A ward leaves "not forwarded" for good: no write sets a ward back to a
draft, since a ward's officer cannot type, and a rollup or rebuild sets it to
SUBMITTED or REJECTED, whatever it overwrites. And a unit is approved by a
request that owes its ward a rollup from then on (`owes`), which either forwards
the ward or finds that no unit is approved any more. So a ward with an approved
unit was forwarded, or somebody is about to; one that was forwarded is on the
LGA's list, on its own as a returned one, or approved. The proof has one lemma
for each call (`...Reads`, `...Writes`), and each says the same of the step
(`Outcome`), from which the invariant follows once (`OutcomeIInv`). Requests cut
off are left out on purpose: one cut off after its approval owes nothing any
more, and a ward whose units are all approved may then be on nobody's screen,
for the reason `collation_cut_off` shows. TLC checked `AsyncIInv` on a ward of
one unit with two sessions of each office before it was proved.

For the same hierarchies and sessions, if a request begins only when no other is
running (`CollationOneAtATime`, from the same assumptions):

* `RunsAlone`: `SerialSpec => RunsAsOneStep`, the refinement of `Collation` by
  its handlers split at their database calls.

This is what entitles the one-step model, and every theorem about it, to speak
of the code. The invariant (`SerialInv`) says for the call the lone request
makes next what has become of the rows and the log it found, and why
(`UnderWay`): nothing before its first write, then the row written and the log
not, and so on to the last call, after which all that is left to show is that
the difference is a step of `Collation`. One lemma per call carries this on. The
long case is the return of the units the LGA flagged, a loop whose rounds depend
on what each unit was: an approved unit is followed by its log entry and a
recount of the ward, a submitted one by its log entry alone. With the units `D`
done, the rows are the found ones with `D` returned and the ward's total counted
anew if any of `D` was approved (`Recounted`), or the same with that count still
to come (`Uncounted`); the order of the units does not matter, which is why the
one-step handler may return them as a set. TLC checked `SerialInv` on the ward
of `campaign_desks` under an LGA and a state before it was proved.

For every set of results, fields, photos, bound and number of crashes, with
RabbitMQ connected (`OcrProofs`, from `OcrAssumption`):

* `OcrInvariance`: `QueueSpec => []OcrIInv`, and from it `VerdictsSettle`.

`VerdictSettled` speaks of the moment when nothing is left to run; the step
that gets there writes a verdict computed earlier. `LastReadIsPresent` is what
makes it safe: of a submitted result, either a job has yet to read the row, or
the last one that read it saw what it holds now. A stale job may still write,
but then a later message waits behind it, because the consumer takes one
message at a time.

For every ballot, all votes and rejected ballots, every part of them that is
legible, and every distance in which values are looked for (`OcrProofs`, from
`ReadingAssumption`, `PhotosAssumption` and `FormAssumption`):

* `NumbersAlwaysReadBack`: a number below a million is read from its words, to
  their end and no further.
* `PhotosAreForms`, and from it `ClearFormsAreReadExactly`, `GapsAreLeft`,
  `AdviceIsRight`.

The parser's loops are recursive functions, so a proof about one is an induction
over positions, on a set of numbers (`NatSetInduction`). For numbers in words
the invariant of the loop (`Took`) says what the total and the open part are
after some of the words; one lemma per part of a number (units, tens, hundreds,
thousands, with "and" or without) carries it on, and the parts are joined as the
words are. A number ends at the first token that is no word of a number; on a
form that is the next row's serial, or the end of the table.

The reading of a form follows the code. `TextIs` says of each line of the text
what it is and `RowEnds` where each party's row ends, for rows of any legible
parts; everything after that speaks of positions only. The boxes: at each line
`assignClusteredFields` has filled the boxes whose values it met, in order, and
has open those whose labels it met since (`Filling`); the numbers of places are
passed over because a heading stands beside them. The table: each row starts at
a serial followed by a code, and nothing else does. The words: in the tokens of
the rows, digits that their words repeat are taken with them, so each party
gives one score (`SaysRow`, `RowStep`); the total's lines are cut off before.
The places: there are enough to be looked at (`EnoughPlaced`), each row gives
its own votes (`RowVotesOfPlace`), and where the text's parties are asked for
too, they agree. Words that pass for a code are the boundary of what can be
claimed (`Plain`): with none on the form the reading is exact; where there are,
the parties of the form are still read from the places as they were filled,
since what a row adds is no code of the ballot (`ReadingAssumption`), and only
an agent whose name is another party's code can give that party other votes.
That a correct form is then returned is what `ocr_advice` shows. When every box
is read, nothing is left to patterns or to the sums of the form (`PatternsKeep`,
`SheetIsFinal`). The advice follows because a form as `Sheet` fills it breaks no
identity, and a value that is off by one is among those that differ
(`OffByOne`).

For every area, every number of users, reports, tokens, overlapping dispatches
and every chunk size, with errors and crashes at each await
(`FieldReportsProofs`, from `NotificationsAssumption` and
`HeadquartersAssumption`):

* `FieldInvariance`: `Spec => []FieldIInv`, and from it `AllReportsAreTold`,
  `AllPushedOnce`, `AllOnePusher`, `AllSilentForAReason`; `AllReadStaysRead`,
  `TablesTypeCorrect`.

"No device rings twice" is not inductive: two dispatches that tell of the same
event might both have it on their list. `OnePusher` is the reason they do not:
a dispatch lists only users whose row it inserted itself, and the unique index
lets one dispatch insert it. The proof describes once what a step of a dispatch
may do to debts and pushes (`Advances`), shows it of each step, and derives the
invariants from the description alone.

For every number of users, units, sessions, tokens and overlapping calls, cut
off at any await (`AccountsProofs`, from `AccountsAssumption`):

* `AccountsTypeCorrect`, `RolesFitScopes`, `SessionsHaveOneToken`,
  `OfficersRowsAgree`, and the action property `SessionsOverUntilLogin`.

Role and unit fit in a row because they fit in every call that is about to
write them and in every claim on its way to a token (`OfficesFit`). That a
session has one token is inductive with `SessionInv`: a call about to revoke a
token stands for the session's only token, unless somebody else revoked that
token first, and a call about to issue one stands for it alone. The two rows
agree because the call between their writes, one at most, has given the user's
row the activity it is about to give the membership (`RowInv`).

For any campaigns, groups, commitments and overlapping updates
(`RecordsProofs`, from `CommitmentsAssumption`):

* `CommitmentsInvariant`, and from it `CommitmentsTyped`, `WithinTarget`,
  `OfItsGroup`.

An update writes what the request named, so the amounts it leaves are those it
checked only if nobody wrote others meanwhile; the invariant says that of every
update that is not marked stale (`StillWithin`). A group never changes its
campaign and an id is given out once, so a group found in the campaign is in it
whenever it is still there at the write.

Model-checked only:

* `OffersAreAccepted` speaks of `ENABLED`, `OcrCompletes` and `LostOfficeFades`
  are liveness: beyond the proof system.
* What fails where requests overlap or are cut off: the violated runs show it.
* The seeds (`SeedingSettles`, `SamplesTellTheirStory`): what a program leaves
  that is unrolled from its data, and figures computed from it by rounding,
  which hold for the seeded parties and not for any others.

## 6. What is not modelled

How strings become lines, labels and digits (regular expressions over Vision's
text), the numeric columns of a rollup, paging, search and scoping of the
listings, incident counts and percentages on the map, authorisation by role
beyond "the officer of this unit", the ward's comment on a report, the situation
room, and the components marked so in `PROJECT.json`. Volunteers and polling
units are among them: the one thing that could go wrong there, a unit assigned
to a volunteer who was removed, is excluded by nothing in the code. Of the
records: names and descriptions. The hierarchy is fixed, although a unit may be
created, moved or removed while there are results. Of the seeds: the strength
and the agent of single units, the extra incidents of some LGAs, passwords, the
script that fetches INEC's lists, and `seed.js`, a build of an older `seed.ts`.

What the seeds leave is not always what officers could have got to: wards are
seeded APPROVED with a unit that is not (every 23rd and 29th), so the demo data
need not satisfy `WardApprovedComplete`, which speaks of rows the handlers
wrote. The comment "fully ready" (`seed-collation.ts:736`) is not true of
Hadejia's third ward in INEC's list for the same reason. The demo seed makes a
dismissed user active again but not the membership (`seed.ts:259-264`), hence
the case distinction in `SeedingSettles`.

## 7. Plan

1. *Done*: collation, its split handlers, its screens, map and race board, EC8A
   verification with the reading of forms, notifications, field reports,
   accounts, commitments, seeds.
2. `Notifications` composed with the events of `Collation` and of the situation
   room: which transitions tell whom; that a dispatch which is not cut off
   reaches the inbox (liveness).
3. What overlapping sessions leave of a ward's total: which requests have to
   meet for it to be stale, and which later ones recount it.
4. Proofs: with item 2, that each transition notifies those it is about.
