# A TLA+ model of cqrs-app

cqrs-app is a NestJS application in the CQRS style: an HTTP endpoint accepts a
*create example* command and puts it on an SQS FIFO queue; a listener process
(or an AWS Lambda function) takes it from there, stores the example in DynamoDB
and publishes an `ExampleCreatedEvent`; other endpoints read the examples.  This
directory holds TLA+ modules of that code, the TLC configurations that check
them, and proofs checked by TLAPS.  All paths below are relative to the
repository's root.

## The system

| part | code | state | operations | talks to |
|---|---|---|---|---|
| command acceptance | `src/example/application/controllers/create-example*.ts` | the open request | `accept` | enqueuer (awaited) |
| enqueuer | `src/queue/application/sqs-enqueuer.ts` | chunks under way | `enqueue` | SQS SendMessageBatch |
| listener loop | `src/queue/managed/sqs-listener.ts`, `src/queue.ts` | `stopped`, the batch | `listenQueues`, `listen`, `stop`, `receiveMessages`, `deleteMessage` | SQS receive and delete, queue listener |
| queue listener, handler | `create-example-queue-listener.ts`, `create-example-command-handler.ts` | none | `execute` | resolver, repository, publisher |
| resolver | `src/queue/application/queue-resolver.ts` | `resolved`, `rejected`, its callbacks | `resolve`, `resolveWith` | publisher (callbacks), enqueuer (dead letters) |
| event publisher | `src/common/application/event-emitter-publisher.ts` | callbacks of one EventEmitter2 per process | `publish`, `subscribe`, `unsubscribe` | callbacks, event handlers |
| repositories | `dynamodb-example-repository.ts`, `dynamodb-repository.ts`, `in-memory-example-repository.ts` | the table; a `Map` | `store`, `updateDescription`, `findById`, `findAll` | DynamoDB |
| queries | `get-example.controller.ts`, `get-example-response.ts` | the open request | `all`, `get` | repository (async generator) |
| Lambda handler | `src/lambda.ts`, `lambda.events.ts`, `src/queue/lambda/*` | `cachedApp`, `cachedServer` per environment | `handler`, `getServer`, `SQSLambda.handle` | event source mapping, serverless-express, queue listener |
| queue names | `sqs-queue-util.ts`, `queue-mapper.ts` | the suffix | `buildInternalUrl`, `getQueueFromArn` | configuration |
| configuration | `src/common/config/*`, `src/lib/zod.ts` | constants read at start | `validateConfig` | |
| application context | `*.module.ts`, `src/bootstrap.ts`, `src/lib/nest/*` | the instances of providers, by context | start, loading of a controller, `resolve` | everything above |
| S3 storage | `s3-storage-reader.ts`, `s3-storage-writer.ts` | the bucket | `read`, `write` | S3 |
| request logging | `src/common/logging/*`, `logging.middleware.ts`, `src/lib/request-id.ts` | a store per asynchronous context | `use`, `wrapInContext`, `generateRequestId` | HTTP, listener loop |
| helpers | `src/lib/optional.ts`, the rest of `src/lib` | none | `Optional`, `assert`, `Uuid` | repositories, queries, queue names |

Where it is hard, and what makes each part correct:

- **Delivery of a command** (acceptance, SQS, loop, handler).  At-least-once
  delivery, two listeners, visibility timeouts that run for a whole batch while
  it is executed one message after the other, stale receipts, crashes between
  the write and the delete, requests whose answer is lost.  A command must not
  leave the queue undone; a 201 must survive; a second delivery must have a
  cause; everything queued must be done in the end; a stopped listener must
  drain.
- **Resolver.**  It learns of success by events on an emitter the whole process
  shares, and an event does not say which message it belongs to.  A message must
  be judged by its own execution, and no callback may be left behind.
- **Enqueuer.**  Chunks are sent concurrently, `Promise.all` rejects while
  others are under way, answers name failed entries.  What resolves must be in
  the queue, and a retry must not double it.
- **Repositories.**  `findAll` is read page by page, or from a live `Map`, while
  others store.  Nothing that was there may be missed or repeated; only an item
  that is no complete example may fail it.
- **Queries.**  A list awaits page after page while commands are executed, and
  fails as a whole over one example its schema refuses.  An answer must not go
  back behind an earlier one, of either kind and to whichever client, and no
  message may make an example that cannot be shown.
- **Queue names, configuration.**  Strings from outside: the deployment's suffix
  is taken out of a name where it first occurs, a number is tested by one
  function and read by another.  A message must find its listener, and a process
  that was not told otherwise must be able to work.
- **Lambda handler.**  An environment keeps what a first invocation cached, after
  starts that failed; whether the handler fulfils decides whether SQS deletes,
  and whether the deployment promises of a command what the listener's does.
- **Application context.**  A message's listener is resolved in a context of its
  own, requests share the durable one, and both need the process's one emitter
  and one repository.  Which provider is shared follows from its decorator, its
  dependencies and a strategy, and nothing fails at the start if it is not.
- **S3 storage.**  A rejected write may have happened; a failed read looks like a
  missing object.  What a write resolved must be read.
- **Request logging.**  Requests and messages overlap, and a timer goes on in the
  context it was set in.  A line must name its own unit, and only that.

## The plan

The most important path first: the life of a command, then what it rests on,
then reading, then the second deployment.

| order | module | of | status |
|---|---|---|---|
| 1 | `CommandDelivery` | abstract: what is promised of a command | written |
| 2 | `SQSListener` | composes acceptance, SQS, loop, resolver, handler, DynamoDB; implements 1 | written, checked, proved |
| 3 | `QueueResolver` | resolver and emitter, several queues, dead letters | written, checked, proved |
| 4 | `SQSEnqueuer` | chunks, partial failures, retries | written, checked, proved |
| 5 | `ExampleRepository` | abstract: what a reader may rely on | written |
| 6 | `DynamoDBExampleRepository`, `InMemoryExampleRepository` | both implement 5 | written, checked, proved |
| 7 | `LambdaHandler` | the second deployment | written, checked, proved |
| 8 | `ExampleApi` | composes acceptance, execution and queries over 5 | written, checked, proved |
| 9 | `QueueNames` | name, URL and ARN of a queue and the suffix between them | written, checked, proved |
| 10 | `Configuration` | from environment variables to what a process is run with | written, checked, proved |
| 11 | `ApplicationContext`, over `ServedUnits` | which instances requests and messages share | written, checked, proved |
| 12 | `S3Storage` | reader and writer, outcomes of a failed call | written, checked, proved |
| 13 | `RequestLogging`, over `ServedUnits` | ids of log lines and the contexts they come from | written, checked, proved |
| 14 | `ConfiguredRepository` | composes 6 behind the factory that chooses | written, checked, proved |
| 15 | `Deployment` | composes 9 and 10: the suffix comes with an accepted environment | written, checked, proved |
| 16 | `ConfiguredRepositoryProofs` | refinement of 5 by both repositories, for any number of keys, queries and writes | written, proved |
| 17 | `SendingProofs` | what a resolved enqueue means (4), which listener a message finds (9), what a process is run with (10), both in 15 | written, proved |
| 18 | `LambdaHandlerProofs` | what leaves the queue, the refinement of 1 | written, proved |
| 19 | `S3StorageProofs` | a resolved write is read | written, proved |
| 20 | `ApplicationContextProofs` | what requests and messages share (11) and how their lines differ (13) | written, proved |

## The modules

Every operation is an action; every `await` on the way is a place where others
may step in, so it is a value of `pc`.  Code between two awaits is one action,
as JavaScript runs it.  Definitions commented *Defect* are the model's own
counter-check: each is an action or helper as a plausible bug would make it,
outside `Next`, and the property it is meant for fails once it takes the place
of the real one.

**SQSListener** (`EXTENDS` nothing of the project; `Delivery` is
`INSTANCE CommandDelivery`).  `request` is the HTTP request; `queue` and
`receives` are SQS, whose receipt handles are `[msg, gen]`: the message and how
often it has been received, so a stale handle is one whose `gen` is not the
latest; `stored` and `published` are the effects, by the receipt under which
they happened; `pc`, `batch`, `current`, `subscribed`, `resolved`, `stopped` are
a listener process.  SQS and DynamoDB apply a request (`SQSAccepts`,
`StoreApplied`, `DeleteApplied`) in a step of their own before the answer is
seen, so every error action can follow an effect that took place.
`Crash` is a killed process as well as an unhandled rejection, such as that of
`moduleRef.resolve` (sqs-listener.ts:70), which stands outside the catch.
`Foreign` messages are those that `CreateExampleQueuePayload` refuses.  No redrive
policy takes them away, so they come back without a bound; how often is not
counted (`Receives`), as nothing depends on it and nothing deletes them.

**QueueResolver**.  One level closer to the resolver: event classes, several
queues with listeners that resolve and reject on different classes, executions
that publish several events, the dead letter queue of `resolveWith`.  `callbacks`
is the emitter.  The assumption `SeparateEvents` says that no queue's execution
publishes what another queue's listener awaits.  It is true of today's
`QueueMapping`, which has one entry, and it is what `OwnVerdict` needs: a second
entry that shares an event class with the first would break the property.

**SQSEnqueuer**.  `count` messages with `id`s that may be missing or repeated,
`send[n][i]` for chunk `i` of call `n`, `copies[m]` for how often SQS queued the
`m`-th.  SQS refuses a malformed batch, drops what comes under a deduplication id
it has `seen`, and forgets the id when its interval is over (`Forget`).  Which
id a message is sent under is the code's choice (`DeduplicationId`,
sqs-enqueuer.ts:82), and all that a retry of the caller's rests on.  A send
includes the tries the SDK makes of its own, within one interval.  Of two messages
with one id in different chunks SQS drops the later one and nobody is told;
`ResolvedMeansQueued` says so.

**ExampleRepository / DynamoDBExampleRepository / InMemoryExampleRepository**.
An item is known by the writes its parts come from: `written` for the part a
PutItem writes, `description` for the attribute an update may set.  `written =
0` is an item that `updateDescription` created.  `owed` and `since` are history
variables, there for the refinement only.  A page of DynamoDB ends where
DynamoDB likes; `KeyOf` is the upper-casing of `exampleSk`.

**ConfiguredRepository** (`EXTENDS DynamoDBExampleRepository`; `Memory` is
`INSTANCE InMemoryExampleRepository` with variables of its own).  The factory of
`example.module.ts:19` makes one of the two; the class that was not made stays at
its initial state.  Their callers cannot tell which they have, so each property
is of both: `BothImplementRepository`, `BothEnd`.

**LambdaHandler** (`Delivery` is `INSTANCE CommandDelivery`).  `pc`, `trigger` and
`about` are the invocation of an environment and the messages or request it is
about, `cachedApp` and `cachedServer` its module variables; `answer` is what the
caller was told of a request, `stored` and `published` the effects.  `Finish` is
what the event source mapping, or the HTTP caller, makes of the handler's
promise: `Fulfil` deletes the messages, `Reject` leaves them in the queue.
`RecordLimit` is the batch size of the mapping.  A create's command can be in the
queue only once `Route` has passed the request to the controller (`"sending"`).

**ExampleApi** (`Repository` is `INSTANCE ExampleRepository`, whose variables it
keeps).  The clients' view: `sent` are the messages in the queue, `status[q]`
what a GET request was answered with, `known[q]` a history variable, the keys
that 200 answers had shown when `q` began.  A message that was sent may be
executed again and again, or never, which is what `CommandDelivery` leaves of
the queue.  The schemas of the request, of the queue and of the response are
`AcceptsBody`, `Parses` and `Presentable`; a text is blank or not.

**QueueNames**.  `suffix` is the deployment's; `NameOf` and `QueueFrom` are the
two directions of `SQSQueueUtil`, on names made of pieces.

**Configuration**.  `env` are the environment's strings, `config` what
`AppConfigService` makes of them.  Numbers are sequences of characters, as
`validator.isNumeric` decides which are accepted and `parseInt` what they are.

**Deployment** (`EXTENDS QueueNames, Configuration`).  One
process and its environment, `SQS_QUEUE_SUFFIX` included: names are made only
once the environment was accepted (`Uses`).

**ServedUnits**.  The requests and messages that `ApplicationContext` and
`RequestLogging` share: two views of one process.

**ApplicationContext**.  `Dependencies` are the constructors of the modules'
providers, `ScopeOf` their decorators; `Static`, `Durable`, `ContextOf` and `Load`
are what NestJS 9 derives from them, `Attach` is the repository's strategy, as
`durable-context.spec.ts` tests it.  An instance is a provider and the context it
was made in.  A process serves both requests and messages, as a Lambda
environment does, and as the application of the integration tests does, which
resolves the listener in it (`test/integration/setup/sqs.ts:76`).  `main.ts` and
`queue.ts` are two processes, so that with `USE_IN_MEMORY_REPOSITORY` what the one
stores is never shown by the other: `due` counts what the same process executed.

**S3Storage**.  `object` is the bucket, `sent` the PutObject requests on their way,
which may arrive after their call has been rejected.

**RequestLogging**.  `context` is the AsyncLocalStorage store of a request or a
message, as the ids bound to its logger from the outermost in; `loop` the one the
listener's own code runs in.  `PinoLogger.logger` is read before `storage.run`, so
a store made inside another carries that one's bindings.  `headers` are the two
spellings of the id's header, which need not agree; clients may send any of
`ClientIds`, of which only is assumed that `randomUUID` makes none of them
(`ClientIdsAssumption`).

## What is checked

| run | instance | properties |
|---|---|---|
| `listener_batch` | 2 listeners, a command and 2 poison messages, batches of 2, 3 receives of the command, 1 fault | `NoCrossMessageEvents`, `RedeliveryNeedsFault`, `StopDrains`, `EventuallyRetired`, `StopTerminates` |
| `listener_overlap` | 2 listeners, 2 commands, 2 faults | `NoLostCommand`, `AcknowledgedSurvives`, `IInv`, `ImplementsDelivery` |
| `resolver` | 3 messages of 2 queues, 5 event classes, 2 deliveries each | `OwnVerdict`, `NoCallbackLeft`, `DeadLettersExact`, `IInv` |
| `enqueuer` | 0 to 3 messages, chunks of 2, 2 calls, 1 end of each id's deduplication interval | `ResolvedMeansQueued`, `RetryDuplicatesNothing`, `EnqueueSettles` |
| `repositories` | either repository; 3 keys, two of 4 ids with one key, 3 writes, 1 query | `IInv`, `OnlyUpsertBreaks`, `NoOlderDescription`, `MapInv`, `BothImplementRepository`, `BothEnd` |
| `lambda` | 2 environments, 2 commands, 1 poison message, 2 faults, 1 record per event | `IInv`, `DroppedOnlyIfExecuted`, `ImplementsDelivery`, `EventuallyExecuted` |
| `example_api` | 2 keys, 3 ids, a malformed id, 2 requests, 2 messages, 3 executions | `IInv`, `MonotonicReads`, `OnlyConnectionsFail` |
| `deployment` | any one variable set to any of its texts, or to any string of up to 4 of 7 characters; 2 queues, suffixes of up to 4 pieces | `RoundTrip`, `NumbersAreTruncated`, `DefaultsWork`, `InMemoryOnlyIfAsked` |
| `application_context` | 2 processes, 2 requests, 2 messages, 1 restart, either repository | `ExecutedIsShown`, `OwnEventArrives`, `HandlersHear`, `RequestsShareInstances` |
| `s3_storage` | 2 keys, 3 writes, 1 read, 2 faults | `ResolvedIsRead` |
| `request_logging` | 2 requests with no, one or two headers, 2 client ids, 3 messages, 3 polls | `ContextsDoNotNest`, `IdsTellApart` |
| `lambda_batch` | 2 records per event | `SeveralRecordsRefused`, violated |

What they show:

- *listener_batch*: a batch of commands and poison, stopped or
  failing at any await, holds exactly the callbacks of the message in execution;
  a command is received at most once more than there were faults, poison beside
  it or not; a stopped listener polls no more, its batch only shrinks, and it
  ends unless it crashes.  As long as some listener is up and not stopped, every
  command in the queue leaves it, though the poison alone fills a batch and comes
  back for ever.
- *listener_overlap*: two listeners holding the same message, one with a stale
  receipt, neither lose it nor break a 201, and together implement
  `CommandDelivery`: stored, then announced, then retired.
- *resolver*: as the properties' comments say.
- *enqueuer*: an enqueue that resolved has every message, or one with its id, in
  the queue; a retry, while chunks of the rejected call may still be on their
  way, queues a message again only if its deduplication interval ended in
  between, and each call queues it once at most.
- *lambda*: with one record per event the Lambda deployment
  implements `CommandDelivery`, as the listener does: stored, announced, retired,
  and a request answered as created keeps its command.  A failed start leaves
  nothing half-cached, and a poison message that comes back for ever does not
  keep a command from being executed.
- *repositories*: whichever repository the factory makes, what a query owes it
  gives, once, while others write, and it ends; only an item that an update
  created fails it.  A redelivered command that stores its example again undoes
  an update, but never leaves a description older than the write it is found
  with.
- *example_api*: of two requests, one after the other or overlapping, over
  examples stored once or again, the later never misses what the earlier showed;
  a 500 is always the connection's fault, because the queue refuses what the
  response would.
- *deployment*: the suffix may be anything that does not occur in the name it is
  appended to before its own place, `.fifo` included; where it does occur early,
  the name is refused or, with another queue of such a name, taken for that.
  Decimals are cut, `.5` becomes `NaN` and keeps no default; a
  process that started with a port or batch size it cannot use was given it; the
  in-memory repository needs `1` or `true`.  `minLength`'s default of 4096
  (config-envs.ts:46) never applies, as the `optional()` outside of it answers
  for an unset variable first.
- *application_context*: an example that a message put into the in-memory `Map` is
  in every list asked for later in that process, an execution's event reaches its
  own resolver and every `OnEvent` handler, and all requests of a process share
  one instance of each provider.  All four hang on one decorator or line each, as
  the mutants of this run show.  A message has instances of its own, an SQSClient
  among them, which nothing destroys.
- *s3_storage*: a resolved write is read by each later read that does not fail.
- *request_logging*: lines of different units have different ids, unless two
  requests were sent an id in common, and no context outlives its message.
- *lambda_batch*: a disagreement between the schemas and the handler.
  `lambda.events.ts:23` says "Exactly one record is required" and
  `sqs-event.ts:15` "More than one SQS message is not supported", but the handler
  uses the first with `safeParseAsync` to *choose* the branch: an event of two
  records never reaches the second and is handed to the HTTP server
  (`lambda.ts:63`).  Whatever that answers, if it fulfils, both messages are
  deleted.  The repository does not configure the event source mapping; the
  service's own batch size is 10.

### Bounds

`MaxReceives`, `MaxFaults`, `MaxCalls`, `MaxAttempts`, `MaxWrites`, `MaxSent` cap
counters and are guards of the actions they bound; `MaxLength` and `MaxSuffix`
bound the strings tried.  `MaxReceives` bounds commands only, poison is
unbounded; `MaxIntervals` is how often the interval of an id may end.  They are small, but what they bound
has small witnesses: a stale receipt needs two receives and one fault; a lost
message a crash between two awaits; an overlap two listeners; a partial failure
a full chunk and one message more; a missed or repeated item two pages and one
write between them; an answer that goes back two requests and a command between
them; a suffix that occurs early one piece more than a name has; a number with
all its parts a sign, a dot and a digit on each side; a superseded object two
writes and a third still on its way; a nested context two polls; an instance
made twice two requests.  `MaxRestarts` and `MaxPolls` are of this kind too.  The
theorems below remove the bounds for every module, as far as safety goes: each
invariant and action property of a passing run is stated by one of them.

`MaxFaults` also bounds what is no failure, a visibility timeout that passes while
the message is still in a batch, so that such timeouts do not go on for ever.

### Fairness

`SQSListener!FairSpec`: weak fairness of each listener's own steps (the Node.js
event loop runs what is ready, and the AWS clients answer or give up) and of the
passing of visibility timeouts (a clock), and strong fairness of each command's
being received: SQS passes over no command for ever, though poison may fill every
batch in between.  This last is an assumption about SQS, not about the code: the
listener takes whatever it is given, and with weak fairness of the loop alone SQS
might hand out nothing but poison for ever.  No fairness of HTTP clients, of
`stop`, of faults, or of restarts: `EventuallyRetired` therefore assumes that a
listener is up for good from some time on.  `SQSEnqueuer` and
`ConfiguredRepository`: weak fairness of the requests under way and of the
code after them, be they DynamoDB's pages or the entries of the `Map`; the caller of `findAll` keeps asking, as `for await` does.
`LambdaHandler`: weak fairness of an invocation's steps and strong fairness of
handing out each message, because an environment may be busy with an HTTP
request whenever the mapping looks; Lambda would start another.

`listener_overlap` and `example_api`, which check no liveness, treat
interchangeable commands, listeners or requests as symmetric.

Deadlock checking is off where the system may really stop (all listeners
stopped, all calls settled, a bound reached) and on for `lambda`
and `lambda_batch`: there an environment can always be invoked again.

## What is proved

The proof modules hold for every value of the constants that satisfies the
assumption of the module they are about, `ConstantsAssumption` or, where
modules are composed, one named for the module (`NamesAssumption`): sets of any
size, any bounds.  These assumptions say of the constants what their types in the
code do (a size is not zero, ids of different kinds differ, `InternalQueues` has no
name with a dot), and TLC evaluates them in the runs.  Two theorems or groups
of them assume more, and say so: the resolver's `SeparateEvents` and the Lambda
handler's `RecordLimit = 1`.

| module | theorem | states |
|---|---|---|
| `SQSListenerProofs` | `Invariance` | `IInv` |
| | `TypeCorrect`, `NoCommandLost`, `AcknowledgedIsDurable`, `SequentialEvents`, `RedeliveriesCounted` | the invariants of the runs |
| | `StoppedDrains` | the action property `StopDrains` |
| | `Refinement` | each step is one of `CommandDelivery` or a stutter |
| `QueueResolverProofs` | `Invariance`, `VerdictIsOwn`, `NoLeak`, `DeadLetters` | the invariants of the run |
| `ExampleApiProofs` | `Invariance`, `ReadsAreMonotonic`, `DataNeverFails` | the invariants of the run |
| `ConfiguredRepositoryProofs` | `Invariance`, `OnlyUpsert`, `Descriptions`, `Refinement` | of the DynamoDB repository: `IInv`, what breaks it, its descriptions, that it implements `ExampleRepository` |
| | `MapInvariance`, `MapRefinement` | of the in-memory repository: `MapInv`, that it implements `ExampleRepository` |
| | `EitherImplements`, `EitherInvariance` | all of this of what the factory makes |
| `LambdaHandlerProofs` | `Invariance` | `IInv`, for any number of records per event |
| | `LossOnlyInBatches` | an action property: only the end of an event of several records takes a message out of the queue unexecuted |
| | `OneRecordIsNeverServed`, `Dropped`, `Refinement` | with one record per event: `SeveralRecordsRefused`, `DroppedOnlyIfExecuted`, `ImplementsDelivery` |
| `SendingProofs` | `Invariance`, `Resolved`, `NoDuplicates` | of the enqueuer: `ResolvedMeansQueued`, `RetryDuplicatesNothing` |
| | `FoundByName` | of the names: `RoundTrip` |
| | `SettingsInvariance`, `NumbersCut`, `DefaultsSuffice`, `MemoryAskedFor` | of the configuration: `NumbersAreTruncated`, `DefaultsWork`, `InMemoryOnlyIfAsked` |
| | `AnyEnvironment` | the same with any number of variables set at once, where the run sets one |
| `S3StorageProofs` | `ReadsWhatResolved` | `ResolvedIsRead` |
| `ApplicationContextProofs` | `Invariance`, `Shown`, `OwnEvent`, `Heard`, `OneInstance` | the invariants of `application_context` |
| | `LoggingInvariance`, `NoNesting`, `TellApart` | the invariants of `request_logging` |

Each safety property rests on an invariant that is inductive, `IInv` where it has no
other name, as the property itself is not.  Six of them are properties of a run as
well; those of the enqueuer, the names, the configuration, S3, the contexts and the
log stand in the proof modules, as nothing else needs them.
A step lemma has one case per action; the last step of a theorem puts them together.

**Listener.**  The property to prove is `NoLostCommand`, but a delete is only
justified by what the same listener did two awaits earlier.  `IInv` records
that: `LoopInv` says what a listener holds at each await (at `publishing` and
`deleting` the current receipt is in `stored` and `published`), which needs
`NoCrossMessageEvents` (`resolved` is set only by the message's own event, as the
emitter has no other callback); `ReceiptsInv` and `DeliveryInv` count receives
against faults; `AcceptedInv` ties a 201 to the queue.

**Resolver.**  `OwnVerdict` rests on `FlagsAreOwn`: a running execution's flags
equal what it has itself published.  That is preserved because the emitter has
exactly the running executions' callbacks (`NoCallbackLeft`), at most one per
queue is running (`OneAtATime`), and no other queue publishes its classes
(`SeparateEvents`).

**API.**  `IInv` says of the table that what a client was told of is there
(`TableInv`) and of each request that it owes what had been told when it began,
has read only what is there, and is answered 200 or 404 only when it is done,
that is, owes nothing (`QueryInv`).  `blank = {}`, from the queue's schema, makes
every example presentable.

**Repositories.**  Of DynamoDB, `CursorInv` says that page and result together are
what a query owes up to where it has read, nothing of it twice and nothing that was
not in the table (`TableInv`: no item is ever deleted); `ItemInv` orders the writes an
item's parts come from, `IdleInv` is the start.  Of the `Map`, `EntriesInv` says that
a key has one entry, which keeps its place when it is set again, so that an
iterator's position tells what it has shown (`AheadOfIterator`, `QueryInv`).  `Refinement` and `MapRefinement` map a
query to one of `ExampleRepository` that is given an item when the caller is; the
awaits between two pages are stutters.  `EitherImplements` has one case per
implementation, as the other one stays at its initial state.  With
`ExampleApi`, which is built on the steps of `ExampleRepository`, this carries
`MonotonicReads` to both.

**Lambda handler.**  `HeldInv` says that a message in flight and a request under way
belong to one invocation, which lets go of them when it ends; `ExecutionInv`
that what is executed is an event of one record, and at which await it is
stored and announced; `OneApplication` that routing finds an application.  A
message then leaves the queue executed, or at the end of an event that was served as
HTTP: that is `LossOnlyInBatches`, with no assumption on the events, and it
names the one way in which `lambda_batch` fails.  `RecordLimit = 1` is what
`lambda.events.ts:23` requires of an event; under it nothing is served so, and the
handler implements `CommandDelivery`.

**Enqueuer.**  `ChunksCover` and `ChunksBounded` say that every message is in one of
the chunks and that there are no more chunks than messages, for every length and
chunk size; they rest on the division theorem (`Division`).  `SendInv` and
`OutcomeInv` lead from a resolved call over its accepted chunks to what SQS has
seen, and `SeenInv` from there to the queue.  For `RetryDuplicatesNothing`,
`CopiesInv` says that a message has no more copies than sends of its chunk that
are over, of which each call has one, as chunks share no message
(`ChunksDisjoint`), and that all copies but the last are from deduplication
intervals that have ended, as each call sends a message under the same id.

**Queue names.**  The name a message was sent under and the one it is taken for are
fixed by the suffix (`NamesInv`), so `RoundTrip` is about sequences only.  `OccursIn`
says where one occurs in the beginning of another, `FirstRemoved` that what was
put between two sequences is what a replacement of its first occurrence removes,
unless it occurs before.  `FoundAgain` applies that twice: to the suffix, and to
`.fifo`, which cannot occur before its place because no queue's name has a dot.
Suffixes such as `.fifo` itself are among the cases.

**Configuration.**  `SettingsInv` says that a process runs with what its environment
was accepted for.  The rest is what `parseInt` makes of a string that
`validator.isNumeric` takes.  `Number` is a recursive function, about which the
library's induction theorems cannot be used, as they take an operator; `AllNumbers`
is induction over a *set* of naturals, by a least element of those outside, and
gives that such functions exist (`Recursion`), that `Number` is read digit by
digit (`Read`), and that the digits after the dot do not change the quotient
(`Cut`).  `ReadBeforeDot` finds the place where `parseInt` stops, `Defaults`
computes the two defaults without which the processes could not work.  The
theorems of `DeploymentSpec` are about deployments that differ in one variable from
a plain one, as in the run; `AnyEnvironment` is about all.

**S3.**  An upload that is still on its way is of a call that has not resolved
(`SentInv`), so whatever replaces an object is none of the writes that a later call
knows to be resolved; once a write is applied its key has an object, and none that
the write itself was called after (`AppliedInv`).  `BeforeInv` keeps what is known.

**Application context.**  Which provider is static or durable is defined through
what it depends on.  `StaticEquation` and `DurableEquation` show that the
two functions satisfy their defining equations, by giving one that does;
`StaticProviders` and `DurableProviders` follow along the dependencies.  From
there on only `Shared` is used: whoever asks, the emitter and the repository are
the process's own.  `CallbacksInv`, `StoredInv`, `DueInv` and `InstancesInv` then
are what the four properties say, at every moment between.

**Log.**  A context is given once and has a UUID that no other has, or the client's
id (`ContextInv`); the loop has none, and the messages it has not executed have
none yet (`BatchInv`); a line has its unit's context, which does not change
afterwards (`LinesInv`).

Only model-checked are the liveness properties, `EventuallyRetired`,
`StopTerminates`, `EnqueueSettles`, `BothEnd` and `EventuallyExecuted`: the prover
does not handle fairness and ENABLED.  That `SeveralRecordsRefused` fails with
two records per event is a counterexample of TLC's; `LossOnlyInBatches` proves that
it is the only way to lose a message.

## What is not modelled

- Of logging, levels, streams, texts and how `Logger` merges its arguments; the
  request tracker of pino-lambda and `flushLogs`; helmet, Swagger, the static
  files, the health controller: nothing else depends on them.
- Of NestJS, the order in which a start makes its instances, and how routes are
  matched.
- HTTP details other than the status: headers, bodies of errors, content types.
- `delaySeconds`, payload formatting, message attributes.
- Of the configuration, `.env` files, the variables whose schema takes any string,
  and values that differ from process to process: a message sent under one suffix
  and taken under another is refused.
- Of `Optional`, what no code calls; `map` and `orElseThrow` are in `ExampleApi`, the
  rest would be one line of model per line of code and could not go wrong with time.
- The streams that S3 reads return, which may break while they are consumed.
- The FIFO order of SQS: `create-example.controller.ts:27` gives every command a
  message group of its own, so it orders nothing.
- Whether the write that repeats a command should have been made: it undoes an
  `updateDescription` in between and gives the example a new `createdAt`; the code
  promises nothing here, and `updateDescription` has no caller.
