# A formal model of the document platform

TLA+ modules, TLC configurations and TLAPS proofs for the back end of the
document platform: four services behind an API gateway, which share a RabbitMQ
broker, PostgreSQL databases and a MinIO object store. Paths below are relative
to `services/` of the repository unless they start elsewhere.

## The system

| Part | State it keeps | Operations | What makes it hard |
| --- | --- | --- | --- |
| organization-service: invites and memberships (`organization-service/src/invites`, `memberships`) | tables `memberships`, `invites`; references to `organizations` with cascade | create, accept, delete an invite; update, remove a membership | chains of awaited Prisma calls without a transaction or unique constraint, on up to five replicas; a call may fail between any two others |
| organization-service: organizations (`src/organizations`) | table `organizations` | create, update, remove | subdomain and e-mail are looked up, then written; no unique constraint |
| organization-service: event publisher (`src/rabbitmq`) | connection, channel, `isConnected`, `connectionAttempts` of one process | `connect`, `emit`; `close` and `error` callbacks | several `connect` loops at once in one process, attempts that are spent for good, callbacks that race the code that awaits, back-pressure |
| notification-service: consumer (`src/config/rabbitmq.js`, `consumers`, `handlers`) | queues and unacknowledged deliveries at the broker; the channel | consume, handle, ack, nack; reconnect | redelivery after a crash, consumers not re-registered after a reconnect, failed messages dropped |
| notification-service: e-mail (`src/services/emailService.js`, `repositories`, `config/mailer.js`) | tables `notifications`, `notification_logs`, `notification_templates` | send with template, send directly, retry, mark SENT or FAILED | a send that cannot be undone between two database writes that can fail; retries that send again |
| document-service (`src/documents`, `src/minio`) | table `documents`, objects in MinIO | upload, list, download URL, delete; create the bucket at the start | two stores without a common transaction; a compensation that may fail too |
| authentication-service (`src/services`, `src/middleware`, `src/models`) | tables `tUsers`, `tTokenBlacklist`, `tAuthLogs` | register, login, change password, refresh, logout; hourly purge | token expiry and blacklist are tested at different moments; read-modify-write of the password |
| api-gateway, k8s, terraform, k6, postman | none of their own | routing, deployment, load tests | configuration, not modelled |

Interaction: `InvitesService.create` stores an invite and then calls
`RabbitMQService.emit('invite.created')`; the broker routes the event to the
queue of the notification service, whose handler renders a template, records a
notification and sends the mail; the invitee accepts through
`PATCH /invites/:id/accept`. The authentication service signs the tokens the
other services verify on their own.

### Properties that make each part correct

- **Invites and memberships**: nothing outlives its organization; how many
  duplicates and how many uses of one invite concurrency and failures can
  cause, and no more; no invitation is lost; what happens to an organization
  without an admin.
- **Organizations**: how many organizations can share a subdomain or an e-mail
  when requests overlap, and that updates neither undo each other nor bring a
  removed organization back.
- **Event publisher**: a healthy publisher has a usable connection; emit settles,
  and what it answers is so; how a publisher gets stuck, and what that means
  for the events of its process.
- **Consumer and e-mail**: no event is forgotten; a message acknowledged has been
  recorded as sent; mails per event are bounded by losses and failures; a job ends.
- **Documents**: a row has its object, an object has its row, unless a named
  failure happened; table and bucket look like one set of documents.
- **Tokens**: a logout holds until the token expires, against purges, late
  lookups and clocks that differ.
- **Accounts**: names lead to one account; one password serves for boundedly many
  changes.

## Plan

The modules, in the order they were written, most important behaviour first:

| Module | Models | Proofs |
| --- | --- | --- |
| `Roster` | invites, memberships and the cascade of organizations | `RosterProofs` |
| `EventPublisher` | `RabbitMQService` of the organization service | with the next |
| `Announcement` | what the publisher promises of one event | refinement in `InvitePipelineProofs` |
| `InvitePipeline` | composes `EventPublisher` with the caller, the socket and the broker, for one event | `InvitePipelineProofs` |
| `EmailService` | the jobs of `emailService.js` | `EmailServiceProofs` |
| `EventConsumer` | the consumer on several replicas with its queue, composed with `EmailService` by `INSTANCE` | `EventConsumerProofs` |
| `DocumentStore` | the table and the bucket of the document service | `DocumentStoreProofs` |
| `DocumentSet` | what `DocumentStore` promises: one set of documents | refinement in `DocumentStoreProofs` |
| `Organizations` | the uniqueness tests of organizations | `OrganizationsProofs` |
| `AuthTokens` | tokens, blacklist, purge | `AuthTokensProofs` |
| `Accounts` | registration and change of password | `AccountsProofs` |

What is left: a pipeline of several events at once (which does not change what is
said of one), and the parts under *Not modelled*.

How each module is laid out: constants and their assumption, variables, type
invariant and initial state; mutated forms of definitions (the bugs the
properties are known to catch, each replaced for its definition in turn); one
action per step of the code; the specification; the properties. An `MC_`
module adds what only TLC needs, a `.cfg` one question.

## Roster

`Roster.tla` models the handlers of `InvitesService`, `MembershipsService` and
`OrganizationsService.remove`.

- **Granularity.** One action is one awaited Prisma call together with the code
  up to the next await. `req[r]` is a request in flight: `pc` names the call it
  makes next, the other fields are the handler's local variables (the row read,
  the caller, the role). `Req` bounds how many are in flight over all replicas.
- **Tables** are sets of rows. `memIds` and `invIds` hold the keys drawn so far:
  UUIDs are not drawn twice. `ForeignKey` and `DeleteOrg` are the constraints of
  the migration.
- **Data.** `expired` stands for `expiresAt`: both tests of the code are each
  other's negation. The token is part of the invite the caller names; a wrong
  one is refused on the first read and changes nothing. A caller that leaves
  `userId` out is `NoUser`: Prisma then drops the condition, so the permission
  test sees some row of the organization.
- **Stale permissions.** The test of the caller's role and the write are two steps, as in
  the code, so a caller demoted in between still writes. No property forbids it;
  `LockoutIsForever` speaks of requests that have not passed their test.
- **Failures.** `Fail(r)` ends a request before its next call, undoing nothing:
  the call rejects or the process dies. A call that took effect but whose answer
  was lost is that call followed by `Fail`.
- `emitted` records invites whose event the publisher accepted; publishing
  itself is an outcome here.
- `uses` is a history variable: memberships made out of each invite.

### What the runs check

| Run | Instance | Shows |
| --- | --- | --- |
| `roster` | 2 requests, 1 failure, 2 users, 2 memberships, 2 invites | the inductive invariant of the proofs; nothing outlives its organization; no invitation is lost; an organization without an admin has none until it is deleted |
| `roster_duplicate_memberships` | 2 requests | *violated*: "Prevent duplicate invites and memberships" (`organization-service/README.md`, line 89) |

The bounds on duplicates (`MembershipsBounded`, `ActiveInvitesBounded`,
`InviteUsesBounded`) are parts of `RosterInv` or follow from it; they are theorems
for any number of requests. With `Cardinality(Req) = 1` they say *at most one*
(`NoDuplicatesWhenSequential`): the documentation's uniqueness holds when requests do
not overlap, even if some die half-way.

Bounds: keys (`MemId`, `InvId`) are what makes the instances finite. The
invariant counts requests past their check together with the rows, so two keys of
each table leave room for a violation by two requests before a third row exists. Deadlock is not checked: when all keys are drawn and
the organization is gone, there is nothing left to do.

### What is proved

`RosterProofs.tla`, for every number of organizations, users, e-mails, keys and
requests, from `RosterAssumption` (finitely many requests and keys, `NoUser` is
no user):

- `TypeCorrect`: `Spec => []TypeOK`, one lemma for the arrival of requests and
  one for their steps.
- `IntegrityHolds`: inductive as it stands, given types.
- `MembershipsStayBounded`, `ActiveInvitesStayBounded`: the bound alone is not
  inductive, because a request that has passed its check will add a row. The
  invariants `JoinersBounded` and `CreatorsBounded` count rows *plus* requests
  past the check: when one more passes, there are no rows, and the requests
  past the check are at most `Cardinality(Req)`.
- `InviteUsesStayBounded`: `AllUses` counts uses plus requests that have read
  the invite; a new reader is only possible while the invite is in its table,
  and `LiveUses` says that then every use belongs to a request about to consume
  it or to one that died.
- `NoDuplicatesWhenSequential`: from the two bounds, with one request in flight. It is
  the property the second run violates, so overlap is all that is to blame.
- `NoInviteIsLost`: from `ConsumersUsed`.
- `LockoutHolds`: a step property, from `TargetsKnown` (the organization in hand
  is that of the target, because keys are not drawn twice): no permission test
  can succeed, so nothing that could create an admin gets past one.

`RosterInvHolds` ties the invariant the run checks to the one proved.

## EventPublisher

`EventPublisher.tla` models one process of the organization service: `connect`
(lines 80-133 of `rabbitmq.service.ts`), `emit` (164-228) and the callbacks on
the connection.

- **Granularity.** Node runs one piece of code at a time, so an action is what
  runs between two awaits. `task[t]` says at which await a call is and which
  connection or channel it awaits; `Boot` is the `connect` of `onModuleInit`, the
  others are `emit` calls, each with its own connect loop over the shared fields.
- **Fields.** `isConnected`, `connectionAttempts`, `connection` and `channel` are
  those of the class. A channel is named after the connection it belongs to.
- **Environment.** `open` are the connections that are up, `listening` those with
  callbacks. A connection can close in good order (`Closed`), break with callbacks
  in place (`Broken`), or break before they are: an `error` event without a
  listener ends the process, and the supervisor starts it again (`Crash`).
- **Left out.** `disconnect`: `main.ts` does not call `enableShutdownHooks`, so
  no signal runs it. What the broker does with a message is in `InvitePipeline`.

Its properties are checked and proved on the composition below, whose steps are
those of this module with more said about one event.

A *wedged* publisher has `isConnected` set and no usable channel. Two connect
loops get there: the second one overwrites `connection`, the first one's loss
clears the second one's fields, and then the second one sets the flag.
`isHealthy` is true and every emit fails without dialling. A publisher that has
*given up* has used its attempts up. `StuckIsForever` says that only a restart
ends either, although the messages of lines 110 and 175 ("Will reconnect on next
emit", "Attempting to reconnect before emitting") announce a dial: the `while`
condition of line 83 stays false.

## InvitePipeline

`InvitePipeline.tla` follows one event, `letter`, from `InvitesService.create`
through `emit` into the socket of a connection and to the broker. Any emit may be
the one it runs in; all others are steps of `EventPublisher` it takes no part in.

- `Fate` is what an emit has done with it after its step: `publish` wrote it to a
  socket that is up and answered now or waits for `drain`; or `publish` threw, or
  was not reached, and the answer is `false`; or the emit still connects. The
  invite's row is there in any case (`invites.service.ts` 99-121).
- `Transmit` is the broker taking it in: to the queue, or nowhere if no consumer
  has ever bound one (`Bind`). `CutOff` is what a lost connection or process does
  to what it had in hand.
- `alone` and `doomed` are history variables: no two connect loops have overlapped in
  this process so far; the invite was created while the publisher was stuck.

`Announcement.tla` is the abstract specification: an event is unsaid, refused, or
handed over once and from then on buffered, lost, queued or unrouted; its caller is
answered once, at a moment when the answer is so, or dies. The refinement mapping
forgets connections, loops and the difference between an event that is not written
yet and one whose emit still connects.

| Run | Instance | Shows |
| --- | --- | --- |
| `pipeline` | 2 emits, 3 connections | while connect loops do not overlap, `isHealthy` is true of one connection that is open, in use and watched, and no other is left behind; the pipeline implements `Announcement`; giving up and being wedged last until a restart, and an invite created meanwhile never gets a mail, not even after that restart; emit settles or waits for the drain of a lost channel; the service always serves again |

An event that was answered `true` may still be lost with its connection, or
because no queue is bound: `Announcement`, which has no other steps from there, says
that these are the only ways. `AnswersAreKept` adds that a lost event's connection
is down.

`StuckMeansNoMail` is about the row that is there without its mail. The log speaks of
a mail that "may be delayed" (`invites.service.ts` 119): between the creation and the
second look of its emit other emits may run, connections and the process may end; the
event is refused nevertheless, and refused is final. Resetting the counter when a loop
has given up, or when an emit starts, breaks it.

`SoundWhenAlone` says nothing once loops have overlapped. What overlap does is in
`StuckIsForever` and `StuckMeansNoMail` (the wedge and the mails it costs) and in
`ImplementsAnnouncement` and `EmitSettlesOrHangs`, which hold all the same. Connections
that are overwritten stay open; their number is not bounded by the code.

Bounds: a process opens at most `Cardinality(Conn)` = 3 connections, one more
than two overlapping loops hold at once; afterwards each dial fails.
`MaxRetries` is 2 instead of 5: the code only compares the counter with the
limit, and 2 is the least value with both a retry and a last attempt.

Fairness is what the event loop gives: a continuation that is ready runs, and a
dial, a wait or an answer of the broker ends one way or the other. Requests,
losses and breaks have none. Connections are finitely many in a behaviour, so the
liveness properties say: once connections stop being lost. Deadlock is not
checked, since an emit that waits for a lost channel may be all that remains.

### What is proved

`InvitePipelineProofs.tla`, for any number of emits and connections and any
`MaxRetries > 0`, from `PublisherAssumption`:

- `PipelineInvariant`: `PublisherInv` says what the fields, the connections and the
  loops are to each other *while the process is alone* (`AloneInv`: one loop, which
  opens the current connection; a set flag means a listened-to channel and no loop).
  `LetterInv` says what an emit that still has the event in hand is doing.
  `SoundWhenAlone` by itself is not inductive: between dialling and setting the flag
  a connection is open that no property speaks of.
- `TypeCorrect`, `AloneIsSound`, `AnswersHold`: consequences.
- `AnnouncementImplemented`: the refinement. `Announces` lists the steps of the
  announcement in terms of `letter`; that an emit which resumes or drains takes one
  of them is what `LetterInv` is for: it says that the event it resumes with is
  unsaid, and the one it drains is handed over and unanswered.
- `BootProgress`: `StepsToServe`, at most `4 * MaxRetries + 1` when the process
  starts, falls with every step of the `connect` of `onModuleInit`, and nothing else
  moves before the service serves; only a connection that goes away before it has
  callbacks sets that back (`BootIsBounded`, `BootOnlyProgresses`). Of
  `ServesEventually` this leaves to TLC that the steps are taken and that such losses
  end. It needs `AloneInv`: until the service serves no other loop resets the counter
  or takes the connection.
- `StuckHolds`: a step property. With no loop and the attempts used up, or the flag
  set, no step dials (`StuckKeeps`).
- `StuckInvitesGetNoMail`: from `DoomedInv`. The property alone is not inductive,
  since an event that is `calling` may be published by its next step; the
  invariant adds that the publisher is then still stuck, which `StuckKeeps` carries
  over the steps of all the other emits.

## EmailService

`EmailService.tla` models `sendEmailWithTemplate`, `sendDirectEmail` and
`sendNotification` with the repositories and the mailer.

- A *job* is one such call. It owns the row of `notifications` it inserts, so
  jobs do not interfere: one job is a complete instance. `job[j].attempt` is the
  loop variable, `row[j]` the row, `log[j]` the statuses logged for it.
- One action is one awaited call. `Fault(j)` makes a database call reject; the
  call may have taken effect all the same, when only its answer was lost. A
  template that is missing or does not render counts as a fault of the lookup.
- `mailer.sendEmail` catches what nodemailer throws and answers
  `{success: false}`, which `sendNotification` does not look at. A refused mail is
  therefore the same step as an accepted one, without the mail.
- `mailed` counts mails the server took; `faults` counts rejected calls.
- `Die` ends the running jobs. Nothing resumes a `PENDING` row: nobody calls
  `getPendingForRetry`. `UnsentHasAReason` says what a row that is not `SENT` stands
  for: `FAILED` for rejected calls of the database, `PENDING` for a job that still
  runs, was interrupted, or could not write the status.

| Run | Instance | Shows |
| --- | --- | --- |
| `email_retries` | 1 job, 3 attempts, 5 faults | mails are bounded by the attempts and by the faults; a row that ends `FAILED` or stays `PENDING` has a rejected call or a death to answer for it; every job ends |
| `email_sent` | 1 job, no fault | *violated*: "Retry automático em caso de falha" (`notification-service/README.md`, line 77): a refused mail is marked `SENT` |

Bounds: a job of three attempts meets at most three faults in its loop plus one
more, with which it ends, so five faults do not restrict it.

The table `notification_logs` of `infra/postgres/init-scripts` lacks columns
that the repository inserts. With that schema `LogSent` always faults: each
mail goes out `maxRetries` times and its row ends `FAILED`, which is inside what
the model allows. The same scripts install no default template, so there every
invitation ends in `FindTemplate`.

Fairness: each query, SMTP dialogue and timer of a running job ends.

## EventConsumer

`EventConsumer.tla` composes several replicas of the consumer with the queue of
`invite.created` and with `EmailService` (`Mail == INSTANCE EmailService`): a
delivery begins a job, a step of the job is a step of `Mail`, and the step that
ends it also acknowledges or rejects the delivery.

- `place[e]` is where the broker has the event; `live` are the deliveries whose
  channel can still settle them. A lost channel or process queues its unsettled
  events again (`Requeue`), although its handlers go on.
- `link[r]` is the replica: `subscribed`, `lost` (the reconnect timer runs),
  `bare` (connected again, no consumers: `connect` does not call `consume`), `dying`
  (a rejection nobody handles), `down`.
- `Settle` acknowledges or rejects on the channel of the delivery. `SettleStale` is
  the same code after that channel was lost: the calls throw and the process
  ends, or the broker closes the new channel.
- The handlers of the other two queues are the same code; the repository has no
  producer for them. Requests to the HTTP API are jobs of `EmailService` alone.

| Run | Instance | Shows |
| --- | --- | --- |
| `consumer_losses` | 2 replicas, 1 event, 2 losses, 1 fault | no event is forgotten between broker and jobs; what `ack` and `nack` stand for; how many deliveries and mails an event takes; its jobs implement `EmailService`; an event is settled unless every replica is `bare` |
| `consumer_deaf` | 1 replica, 1 loss | *violated*: an event in the queue is handled ("`invite.created` → Envia email de convite", line 87) |

Bounds: `MaxLosses` losses allow `MaxLosses + 1` deliveries of an event, which
is the number of jobs, so that no delivery waits for a free one. `Prefetch` is 1
instead of 10: with one event it does not bind. `MaxRetries` is 2: a retry and a
last attempt.

Fairness: the supervisor restarts what ended, the reconnect timer fires and
ends in a connection, the broker delivers what a subscribed consumer can take,
and awaited calls end. Losses have none. Deadlock is not checked: when every event
is settled and every replica is up nothing needs to happen.

### What is proved

`EmailServiceProofs.tla`, for any jobs, any `MaxRetries > 0` and any bound on
faults:

- `TypeCorrect`: needs more than types, because `retries` and `attempt` are
  bounded by `MaxRetries` only through where the job is.
- `EmailInvHolds`: the inductive invariant, types and, per job, five parts:
  `Bounds` relates mails and attempts to where the job is and to its faults,
  `Fresh` says that nothing has happened before the first attempt, `Trying`,
  `Failing` and `Ending` what row, counter and log are in each phase. The
  properties speak of ended jobs or of counters alone and are not inductive:
  "a resolved job is recorded" holds because the step before it had the row marked.
- `MailsStayBounded`, `OkIsRecorded`, `OnlyTheDatabaseFails`, `PendingIsExplained`:
  consequences.
- `JobsProgress`: the safety core of `JobsEnd`. `StepsLeft`, at most
  `5 * MaxRetries + 3`, falls with every step of a job, and no other job changes it
  (`JobsOnlyProgress`); TLC is left to check that a running job does take its steps.

`EventConsumerProofs.tla`, for any number of replicas, events, jobs and losses:

- `Refinement`: `Spec => Mail!Spec`. Every step of the consumer is a step of one
  job, the death of those of a process, or leaves them alone. So what is proved of
  the jobs of `EmailService` holds of those of the consumer; TLC checks the same
  with fairness (`ImplementsEmailService`).
- `ConsumerInvariant`: `Jobs` says what the place of a job implies for its row and
  its failures, `Links` how jobs, deliveries and connections hang together: a
  delivery that can be settled is out, its job runs on a replica that consumes;
  *on a replica that consumes every job can settle its delivery*; no two jobs that
  can settle share an event; an event that is out has its job. The third part is
  what `OutMeansHandled` lacks: without it a job of a lost connection could end the
  process of others.
- `NothingForgotten`, `SettledIsDone`, `TypeCorrect`: consequences.
- `DeliveriesAreBounded`, `MailsAreBounded`: the bound on the mails of an event is not
  inductive, because an event in the queue has deliveries to come and a job about to
  send has mails to come. `DeliveryInv` counts what has been paid: each delivery of an
  event that did not settle it has cost one of the `MaxLosses` losses, also when the
  event is queued again, and each mail of a job after its first has cost a fault.
- `SettledStaysSettled`, `DeafStaysDeaf`: step properties. An event that is
  acknowledged or rejected is never delivered again; a replica that is `bare` gets no
  delivery until its process ends (`DeafUntilRestart`).

## DocumentStore

`DocumentStore.tla` models `DocumentService` and `MinioService` over the table
`documents` and the bucket.

- `rows` and `objects` are the two stores, `req[r]` the call a request makes next.
  An upload puts the object (`PutObject`), inserts the row (`InsertRow`) and, when
  that rejects, removes the object again (`UndoPut`, whose own failure is
  swallowed). A deletion removes the object (`RemoveObject`) and then the row
  (`DeleteRow`). `Get` and `SignUrl` make the download URL, without a look at the
  bucket.
- A call that rejects may have taken effect (`Fault`), and then it did so by the time
  it rejects: one that takes effect later still, such as a put that the object store
  finishes after the client gave up, is not covered. `Crash` ends a replica with
  some of the requests, with all when it was the last.
- `Start` and `MakeBucket` are `onModuleInit`: two replicas may both find no bucket;
  the second to create it may fail and is started again.
- `listed`, `uploaded`, `condemned`, `linked` and `hurt` are history: what was in
  the table, what was answered, what a deletion found, and what a failure met.
- Documents of other organizations are found by no lookup, and are left out with
  the formats of files and the list.

`DocumentSet.tla` is the abstract specification: a document is absent, available,
broken (listed, but without an object) or gone, and a document that is gone stays
gone. `StatusOf` maps the two stores to it.

| Run | Instance | Shows |
| --- | --- | --- |
| `documents` | 2 documents, 2 requests, 2 replicas, 2 failures | rows without objects and objects without rows have a request in flight or a failure to answer for them; what was answered 201 stays until a deletion finds it; the stores implement `DocumentSet`; deletions and starts come to an end |

Bounds: two requests are what it takes for two deletions, or an upload and a
deletion, to meet at one document; two failures for an undo that fails as well.

Fairness: awaited calls of a request and of a start end, and the supervisor starts
what is down. Requests and failures have none. `ReplicasServe` holds because
`MaxFaults` bounds the deaths: it says, once replicas stop dying. Deadlock is not
checked: when all documents are drawn there may be nothing to do.

`DocumentStoreProofs.tla` proves all but the liveness, for any documents, requests,
replicas and failures. `StoreInvariant` adds to the properties what each call knows
of its document (`UploadsKnow`, `DeletesKnow`), that uploads in flight have
documents of their own, and that objects of listed documents have rows
(`NoneLeftBehind`); `LinksAreGood` is proved only, and so are
`DeletionsAreInHand` (no deletion is dropped on the way: what a deletion found is gone,
being deleted, or was met by a failure), its consequence `StoresAgreeWhenQuiet` (with
no request in flight the stores differ only where a failure was) and `StartsProgress`,
the safety core of `ReplicasServe` (`StartsOnlyProgress`: a replica that loses the race
for the bucket starts over with fewer steps to go than before). `Refinement` shows that a step
maps to a step of `DocumentSet` or a stutter, from that invariant: which step it is
depends on whether the row or the object was still there.

## Organizations

`Organizations.tla` models `OrganizationsService`. `create` is `TestSubdomain`,
`TestEmail`, `InsertOrg`; `update` is `TestSubdomain` and `TestEmail` for the values
that were given (`FirstTest`, `SecondTest`), each against the other rows (`Taken`),
and `UpdateOrg`, which merges into the row as it is; `remove` is `DeleteOrg`. The
cascade of a removal is in `Roster`.

| Run | Instance | Shows |
| --- | --- | --- |
| `organizations_unique_subdomain` | 2 requests, 2 keys | *violated*: "Each organization has a unique subdomain" (`organization-service/README.md`, line 73; line 135: "`subdomain` (string, unique)"; `create-organization.dto.ts`, line 44) |
| `organizations` | 2 requests, 4 keys, 2 names | a name has at most as many holders as there are requests in flight; names change only to what some request gave and tested |

The documentation promises a unique subdomain (`SubdomainsUnique`); the code looks and
then inserts, and the table has no unique constraint, so two creations that overlap
share one. `NamesBounded` says how far this goes: the sharing does not add up over time.

Bounds: with two requests a third holder of a name would be the violation; the
fourth key leaves room for a row that gave the name up.

`OrganizationsProofs.tla`, for any finite sets of keys and requests:
`NamesStayBounded` needs `ClaimsBounded`, because a request past its test will write
the name later: organizations that hold a name, those an update is about to give it
to and the creations about to insert it are counted together. A request passes
its test only when no *other* row holds the name, and then all that is counted
belongs to requests. With one request in flight names are unique
(`NamesUniqueWhenSequential`): the documentation's claim holds there, so the
overlap alone is to blame. `OnlyTestedNamesWritten` and `RemovalIsFinal`
(`RemovedStaysRemoved`, proved only) are step properties.

## AuthTokens

`AuthTokens.tla` models the tokens of one user: `TokenService`, the middleware,
`login`, `refreshToken` and `logout` of `AuthService`, the hourly purge.

- A token is its kind and the second it was made in: the code puts no identifier
  into it, so two of one second are the same string.
- `Clock` is the set of times a replica may read, up to `Skew` ahead of `now`. A
  query carries the date it was made with (`asOf`) and runs later; so does a purge.
- The middleware asks the blacklist (`Lookup`), then verifies (`Verify`).
  `RefreshToken` verifies, then asks. `BlacklistToken` may fail and counts as done;
  the tokens it failed for are the exception `LogoutRevokes` makes, not what it catches.
- `lost`, `loggedOut` and `stale` are history.

| Run | Instance | Shows |
| --- | --- | --- |
| `tokens` | 2 requests, lifetimes 1 and 2, skew 1, 4 seconds | a logout holds until the token may have expired, unless its insertion failed; a revoked refresh token gets past the blacklist only when it expired in between; the middleware lets a revoked token through only within `Skew` of its expiry |

Bounds: the lifetimes are the least that differ and leave a second between; time
runs until both have expired on every clock. One pair of tokens: tokens of other
seconds are other elements of the blacklist, and a logout with the tokens of two
pairs needs nothing of both.

`AuthTokensProofs.tla` proves the three properties for any lifetimes, skew, time
and number of requests: `TokensInvariant` says for a request at each place what is
known of the tokens it revokes or stands on (`RequestInv`); *covered* - listed, or
possibly expired - is what time and purges preserve.

## Accounts

`Accounts.tla` models `register` (`TestEmail`, `TestUsername`, `InsertUser`, where
the unique columns have the last word: `Insertable`) and `changePassword`
(`ChangePassword` reads and compares, `UpdatePassword` writes without looking
again). `password[u]` is the history of an account's passwords, the last one in
force; `basis[u]` says for each change with which of them it was made.

| Run | Instance | Shows |
| --- | --- | --- |
| `accounts` | 2 requests, 2 accounts, 2 names, 2 passwords, 3 changes | names lead to one account; a password serves for at most as many changes as requests overlap; a change to the password in force takes another change in between |

Bounds: a third change made with one password would be the violation, and there
are three changes.

`AccountsProofs.tla` proves the three for any number of accounts and requests, from
`AccountsInv`: changes are made with a password that was in force before them, and
a request about to write has read one that differs from its new one.
`ChangesBounded` counts changes and requests about to make one: a new one is added
only while the password is the latest, and then no change has been made with it.

## Proved and model-checked

Proved, for every value of the constants: the theorems listed in `PROJECT.json`, in
eight modules. Each takes the assumption on the constants of its module and nothing
else. All invariants and all safety step properties the runs check are among them. Some
theorems state properties no run checks, because a property of the run implies or
subsumes them on its instance, or is closer to what the code is for:

- invariants: `MembershipsBounded`, `ActiveInvitesBounded`, `InviteUsesBounded`,
  `AnswersAreKept`, `OkMeansRecorded`, `ErrorMeansFault`, `LinksWork`,
  `DeletionsInHand`, `QuietStoresAgree`, `ClaimsBounded`, `TokensInv`, `AccountsInv`,
  and uniqueness where requests do not overlap (`NoDuplicatesWhenSequential`,
  `NamesUniqueWhenSequential`);
- step properties: `SettledIsFinal`, `DeafUntilRestart`, `RemovedStaysRemoved`;
- safety cores of liveness properties, each a measure that every step of the process in
  question lowers and no other raises: `JobsOnlyProgress` for `JobsEnd`,
  `BootIsBounded` and `BootOnlyProgresses` for `ServesEventually`,
  `StartsOnlyProgress` for `ReplicasServe`.

Only model-checked:

- liveness under fairness, which this prover does not reach: `JobsEnd`,
  `SettledUnlessDeaf`, `EmitSettlesOrHangs`, `ServesEventually`, `DeletesFinish`,
  `ReplicasServe`, and the fairness in `ImplementsEmailService`.

`MailsPerEventBounded` bounds the deliveries of an event and the mails of each. That
the mails of all deliveries together are at most one more than losses and failures
follows by adding up; the sum itself would need induction over the set of jobs.

## Not modelled

- `disconnect` of the publisher: nothing calls it (above).
- The log tables nobody reads back (`tAuthLogs`), the column `status` of accounts,
  which nothing changes, and read-only queries.
- Tokens presented for the other purpose (an access token at the refresh).
- Handlers of `user.created` and `document.uploaded`: the repository has no producer.
- The gateway, the deployment, the load tests, dashboards and API descriptions have
  no state of their own; what they say about replicas and restarts is used as the
  environment of the models.
