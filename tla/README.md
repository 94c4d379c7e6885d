# agenthub-go-commons in TLA+

A verification project for the Go library `agenthub-go-commons`: TLA+ modules of
the parts that have state shared between goroutines, processes or servers, TLC
configurations that check them on small instances, and TLAPS proofs that the
safety properties of all of them hold for every number of callers, tenants,
messages or rows.

Line numbers refer to the files under `src/`. In a module, a definition named
after a Go function stands for that function; `PROJECT.json` ("map") gives the
lines of every definition that models code. A definition whose comment begins
with "Fault:" is not the code: it is the definition below it with one plausible
bug, kept to show that a property notices that bug.

## 1. The system and its components

The library is linked into every service of the platform. Services run as
several replicas, each with many request goroutines, and share a PostgreSQL
server (one schema per tenant), a Keycloak server (one realm per tenant), a
RabbitMQ broker, an object store and the HTTP services of AI providers. The
library has no process of its own: what is concurrent is its callers.

| Component (directory) | State | Operations | Talks to |
|---|---|---|---|
| A. schema migrations (`database/migrate`) | one row `(version, dirty)` per version table, the schema, a session's advisory lock and search_path | `Up`, `Down` | PostgreSQL, through a pooled connection |
| B. tenant connections (`database`, `database/multitenant`) | the pool; what each pooled session remembers | `NewPool`, `HealthCheck`, `AcquireWithTenant`, `MigrateAllTenants`, `MigrateTenant` | A, the pool, the tenant of C's context |
| C. authentication chain (`auth`, `tenant`) | the JWKS cache, one entry per tenant | `Middleware`, `RequireRole`, `tenant.Middleware`, `getKey` | Keycloak; B reads its context value |
| D. messaging (`rabbitmq`) | a publisher's connection and channel under a mutex; a consumer's connection and subscription | `NewPublisher`, `Publish`, `Close`, `NewConsumer`, `Consume`, `Close` | RabbitMQ |
| E. provider registry (`ai/registry.go`, `preset.go`, `factory.go`) | providers by name, defaults by type, a cache of instances by credentials | `Register`, `Get`, `GetDefault`, `Available`, `GetChatModel` | F |
| F. provider clients (`ai/provider/*`) | per call: attempt, response body, channel, decoder state | `Chat`, `ChatStream` | the providers' HTTP services |
| G. chat options and messages (`ai/model.go`, `ai/preset.go`) | the caller's history and the response it chains to | `ToChatOptions`, `Merge`, each client's `buildRequest` and `convertResponse` | E, F |
| H. Keycloak administration (`keycloak`) | an access token; the server's realms, clients, roles | `ProvisionTenant`, `CreateRealm`, `CreateClient`, `CreateRealmRoles`, users | Keycloak |
| I. object storage (`storage`) | the server's buckets and objects | `EnsureBucket`, `Upload`, `Download`, `PresignedURL`, `Delete` | MinIO |
| J. pagination (`pagination`) | none; the client's place in the list, and the table | `FromRequest`, `Offset`, `OrderClause`, `NewPage` | SQL of the services |
| K. HTTP helpers (`httputil`) | none | `BindJSON`, response writers | |
| L. telemetry (`otel`) | exporters | set-up, shutdown, a span per request | a collector |
| M. configuration (`config`), test support (`testutil`), `_template`, `integration` | none of the program's | | |

### What is hard, and what would make each part correct

**A.** Every replica migrates at start, so several callers race for each schema;
any of them can die between the dirty mark, the script and the clean mark, while
the statement it had in flight still commits; two releases with different files
take turns during a rolling deployment; `Down` may find half-way that a down
file is missing. Correct means: the row is the truth about the schema at every
moment, a script runs only where it fits and never twice, nil is true, a dirty
table stays closed, and the lock is never left behind.

**B.** A pooled connection is a database session that keeps its search_path and
locks when it goes back. Migrations and requests share the pool; migrations wait
for locks while they hold a connection. Correct means: a borrower works in its
own tenant's schema, no pooled session has a lock, nil of `MigrateAllTenants`
means all are migrated, nobody starves.

**C.** The fetch of a realm's keys runs unlocked between a read and a write of
the cache, realms rotate keys, answers are slow, and the entry is dated when it
is stored. Correct means: a withdrawn key dies in bounded time, a new key is
never hidden, and only the token's own realm vouches for it.

**D.** All goroutines of a service publish through one channel that the broker or
the network may close under them; a message may be written, lost, repeated;
consumers die between the handler and the Ack. Correct means: the result of
`Publish` is true of what was written, acknowledgements are earned, the prefetch
holds, everybody returns and every message is settled.

**E.** Callers race to create instances, providers are registered during
lookups, types are spelled in two ways. Correct means: one client per
credentials, never somebody else's, and the documented order of resolution.

**F.** Requests are repeated; answers are lost; a stream breaks off anywhere; an event does
not parse; tool calls may be mixed; the caller is slow or leaves. Correct means: a request is carried out at most once,
text arrives in order and as whole as the client can read it, arguments come with no other
call than their own, an error ends the stream, everything is closed.

**H, I.** Sequences of requests to other servers that may fail in the middle, are
repeated, and may be carried out late. Correct means: nil is a whole tenant, a
repeated call completes what an earlier one has left.

**G.** The functions are pure, the conversation is not: a history that began with one
provider goes on with another, whose messages have another form; a server may hold part
of the conversation, or have forgotten it; answers are lost. Correct means: whatever the
model is asked, it sees all that was said, in order and once, with every tool result
behind its call, and the options of the layer that has the last word.

**J.** Again pure functions, of strings that say anything, with ints that overflow, between
two queries of a table that changes. Correct means: a client that goes on until it is told that
this was the last page has seen every row, has seen none twice, and comes to the end, as far as
the changes of the table allow (section 5).

**K, L, M.** No protocol of their own.

`PROJECT.json` ("hazards") lists what is hard to test in this code, each at its
line, with the properties that cover it or the reason that none does.

## 2. Modules

| Module | Models | |
|---|---|---|
| `SchemaHistory` | what A promises | abstract: one call at a time, one script at a time |
| `Migrate` | A | every statement of `Up` and `Down`, sessions, crashes, releases; implements `SchemaHistory` |
| `TenantDatabase` | B | workers, pools and sessions; uses A as one step with A's outcomes |
| `TenantAuth` | C | requests, cache, rotating realms, time |
| `Delivery` | what D promises | abstract: answers, leases and verdicts, no connections |
| `Messaging` | D | publisher and consumers composed with an external broker; implements `Delivery` |
| `ProviderRegistry` | E | callers, registrations, cache |
| `ChunkStream` | what a stream of F promises | abstract: every piece that is owed, in order, then an end or a failure |
| `Completion` | F, a call | one call, its server and its caller, in three dialects; implements `ChunkStream` |
| `ChatOptions` | G, the options | operators from the preset to the request's parameters |
| `Conversation` | G and F, many calls | a caller, its history and tools, and the servers of three dialects; uses `ChatOptions` |
| `Provisioning` | H and `EnsureBucket` of I | callers, their lists of requests, the servers, requests carried out late |
| `Pagination` | J | a client, a service and a table that others change |
| `*Proofs` | | theorems about the module in the name (section 4); those about `ChatOptions` are in `ProviderRegistryProofs`, those about `Conversation` in `CompletionProofs` |
| `MC*` | | instances for TLC |

### Migrate

A member of `Sessions` is a database session: the pooled connection of one call
at a time. `pc` is the statement it is at:

    idle -Call-> lock -Lock-> prepare -Prepare-> version -ReadVersion-> loop
    loop -Pick-> mark -MarkDirty-> script -RunScript-> clean -MarkClean-> loop
    loop -Finish-> unlock -Release-> idle

`Fail` is an error of the statement at hand, which returns through the deferred
release. `Lose` is the loss of the client: process, context or connection. The
server's half of the session survives as an "orphan" until the server ends it,
and `Advance` lets the statement in flight take effect after its client has gone.
`LockFails` is a wait that is cancelled. What a script does is abstracted to the
membership of its version in the ghost `applied`; a script goes to the server as
one simple query, which is one transaction unless the script says otherwise.
Scripts with their own COMMIT, or statements that cannot run in a transaction,
are outside the model. `LockKey` maps tables to lock keys by a hash that may
collide, so tables may share a key. The discovery of files
(`discoverMigrationFiles`) is abstracted to the sets `UpFiles` and `DownFiles`, which
may differ from caller to caller; its errors are outcomes of `Fail`.

`SchemaHistory` is the promise: per table, `Enter`, `Announce`, `RunUp` or
`RunDown`, `Settle`, `Leave`, with at most one party at work. The refinement
mapping keeps `row` and `applied`, and maps the sessions to
`active[t]`, the set of operations of the sessions that are past `ReadVersion`.

### TenantDatabase

Workers are goroutines of several processes, with a pool per process. A worker
that asks for a connection waits until one of its pool is free; a connection keeps
`path`, the tenant its search_path names, from one borrower to the next, and the
advisory locks its session took. `MigrateAllTenants` is the query (with a
connection), the rows, and then one `Up` per tenant, each with its own acquisition
and lock. The steps of `Up` between its lock and its release are one action,
`ApplyUp`, with the outcomes that `Migrate` allows: current, unchanged, failed or dirty.
`Unquoted` says what the server makes of a name without quotes.

### TenantAuth

A request is at most at one place of the chain: `Lookup` reads the cache under its
read lock, `Serve` is the moment the realm answers, `Store` the write of the map
under its lock, and `Judge` what follows the key: signature, expiry, tenant, role.
Time is a `Tick`. `gone` and `missed` are ghosts: how long ago a realm last served a
key, and whether a request's realm was without its key at some moment of the request.
Token contents are the fields the chain looks at.

### Messaging

`Publish` is `Publish` (arrival), `TakeMutex`, `Send`, `TryAgain`/`Reconnect` and
`ReturnFrom`, as in the loop of `publisher.go` 66-76. A connection has a wire that the
broker reads later: what is on it when the connection fails is lost. A message for an
exchange that does not exist makes the broker close the channel, which the client learns later
(`ChannelCloses`). A consumer goes through `NewConsumer`, `Consume`, `Handle`, `Settle` and
`Close`, with `Cancelled`, `ConsumerCut` and `Crash` at any moment; the broker
requeues what it had not acknowledged. A payload that is no JSON makes `Publish` return before
it takes the mutex (`publisher.go` 51-54) and is left out; so is a broker that stops reading for flow control, on
which a write, and with it the mutex, would wait as long as it lasts: `PublishReturns` is about a broker that reads. The broker and `amqp091-go` are external:
they are modelled from how the library uses them.

`Delivery` is the promise, without connections, channels and retries: `Accept` and `Refuse` are the answers of
`Publish`; `Lose` takes messages on the way only; `Grant` leases a message to a consumer within its
prefetch; `Judge` is its handler, `Finish` its Ack or Nack, and `GiveBack` ends its leases and makes its verdict
void. The refinement mapping takes what is on any wire for `flight`, and a handler's result for a verdict
while the channel that it was delivered on is open: a handler that runs on what is left of a closed channel is
a stuttering step. A prefetch of 0, which RabbitMQ takes for no limit, is left out.

### ProviderRegistry

`Register` is atomic under the registry's lock. `GetChatModel` is `Resolve`, then either
`Load`, `Create`, `LoadOrStore` (three steps that other callers can come between) or
`ByName` and `ByType` (two critical sections). A factory makes a new instance each
time it is called. Factories are registered in `init` functions and constant.
There is no abstract registry with an atomic `GetChatModel`, because the code is none: between the two critical
sections one registration may give the preset its name and another one its type a default, and the call returns
that default, which is neither what it would have returned before nor after both. `ResolvesInOrder` says what holds.

### Completion

One call in one of three dialects: `completions` (openai, and ollama and openrouter,
which wrap it), `messages` (anthropic), `responses` (openairesponses). `Chat` sends,
retries on 429 and decodes. `ChatStream` starts a goroutine: `Scan` takes an event,
`Push` sends its chunk on the bounded channel, `Pushed` goes on or closes. The server (`Emit`) writes
any event at any time, but for what its protocol says of the first one and the last ones; arguments belong
to any call that it has added, not only to the last, and up to `MaxGarbled` events, of any kind, do not
parse (`ok`). `Becomes`, `Ends`, `Chunk` and `Track` are the switch of each dialect: which events become chunks
or an error, which end the stream, and on which call the Responses client books arguments: the one it has seen
added last, whatever call the event belongs to. That client goes on as if an event that does not parse
were not there; the other two end the stream with an error. openai takes the first tool call of a choice only (`openai/provider.go:325`); an event has one call
here. `Only`, what a caller who looks at some chunks only sees of a stream, is a recursive function of the stream's length, so that the
proofs can follow it event by event.

`ChunkStream` is the promise: `Write`, `Give`, `Fail`, `Close`. A strict stream owes its caller each piece (a text, or the
reason why the model stops) that the model writes, and closes well only when it has given all of them; where a piece
cannot be read it can only fail. A lenient stream owes the pieces that can be read. The refinement mapping
takes the Responses dialect for the lenient one; `due` is what the server has sent of the pieces that are owed, and
`given` all that has left the decoder, whether the caller has it, the channel holds it or it is about to be sent. So what the
Responses client drops is neither given nor owed: that it drops it is a limit of the promise, stated in section 5, and what is
shown is that the other pieces come all the same, in order and once.

### ChatOptions and Conversation

`ChatOptions` has no state: options are functions from the names of their fields, so
that `Merge` is one line and "the fields it passes over" a set. `Carried` and
`Parameters` say which of them each dialect's `buildRequest` puts into its request.

`Conversation` is a caller around `buildRequest` and `convertResponse`. A text, a tool call or
a tool's result is a number, given in the order of writing, and a message is a role with the
numbers it contains. So what the model comes to see is a sequence of numbers, `Seen`, and the
three `...Items` operators are the switch over roles of the three clients. The caller sends
its whole history, or chains: with its new messages, or with all of them. It may turn
to another provider for any request (`Ask(dialect)`), loses answers (`Lose`), runs tools in any order
(`RunTool`); the server may have dropped the response it chains to (`Expire`, `Refuse`). `SentinelFor` is the whole
switch; a server that refuses a chain does so with a 400, as the code expects.
`Flat` joins what each message of the history becomes, with `FlattenSeq`. Its specification is `TalkSpec` (`TalkInit`, `TalkNext`),
as `CompletionProofs` extends this module and `Completion`. The caller's own rules are external: it answers every tool call before it asks again, and clears
its chain after `ErrInvalidResponseID`, as `ai/errors.go` 29-30 asks it to.

### Pagination

A request is `Ask` (`FromRequest`), `ReadRows` and `CountRows` in the service's order, and
`Reply` (`NewPage`). `Wrap` is the arithmetic of an int of any width, `Atoi` that of `strconv`
with its error dropped. `Insert` and `Delete` come at any moment. The queries are external and
follow `integration_test.go` 64; without an order that tells rows apart they may return any rows.

### Provisioning

A call is the list of its requests (`Requests`): the realm, the client and each role for
`ProvisionTenant`, one request for each user operation, a look and a creation for
`EnsureBucket`. `GetAdminToken` precedes every Keycloak request, as in `doJSON`. `Serve` is
the server's answer or refusal, `Receive` the switch on its status (`Accepts`), `Fail` any error of a
request. `Create` is what a server does with a request: makes the thing, finds that there is one, or misses what
it would belong to. A request that its client has given up may be carried out afterwards (`ServeLate`).
Keycloak and MinIO are external: they create, find, or report a conflict.

## 3. Runs

Bounds are in the `.cfg` files.

| Run | Instance | What it shows |
|---|---|---|
| `migrate_ledger` | 3 sessions, 2 tables (versions {0, 2, 3} and {1}), one caller without the down file of 2, `Up` and `Down` | `LedgerAccurate`, `ScriptsFit`, `NilIsTrue`, `DirtyCloses`, and `ImplementsHistory`: concurrent, crashing calls behave as one at a time |
| `migrate_rolling` | 3 sessions, two releases, `Up` only, fairness | `NeverTwice`: no script is repeated by a mix of releases; `EveryCallReturns` |
| `tenant_database` | a process with a request worker and `MigrateAllTenants` on a pool of one connection, and a process that migrates a tenant | `OwnSchema`, `PooledIsUnlocked`, `NilMeansMigrated`, `NobodyStarves` |
| `tenant_quoting` | tenants whose names need quotes | a violation: `OwnSchema` (finding 1) |
| `tenant_auth` | 2 requests, 2 realms with a key identifier in common, one of them rotating, 8 tokens, TTL 2, latency 1 | `CacheHonest`, `Admission`, `NewKeyIsFound` |
| `messaging` | 3 messages, one to a missing exchange, 1 consumer, 2 retries, 3 connections, 1 fault | `ResultIsTrue`, `RetriesHelp`, `AckIsEarned`, `OnlyExceptionsLeak`, `PublishReturns`, `EndToEnd`, and `ImplementsDelivery`: whatever fails, messages come and go as in `Delivery` |
| `registry` | 2 callers, 2 names, 3 spellings, 7 presets | `OneInstance`, `OwnCredentials`, `ResolvesInOrder` |
| `registry_default` | the same | a violation: `FallsBack` (finding 2) |
| `provisioning` | 2 callers, one tenant, 2 roles, one user name, 2 accounts, one abandoned request at a time | `WholeTenant`, `RetryHeals` |
| `completion` | 3 dialects, both operations, 4 events, one of which may not parse, a channel of 2, 3 retries | `TypeOK`, `ArgsFindTheirCall`, `CompletedOnce`, `CallEnds`, and `ImplementsStream`: whatever breaks, a stream is one of `ChunkStream` |
| `conversation` | 3 dialects, 3 answers of text and tool calls, 1 system message, with and without a preset's prompt, 1 fault | `WholeConversation`, `ResultsFindTheirCalls`, `InstructionsReach`, `EveryTurnIsAnswered` |
| `pagination` | 3 rows, sizes 1 to 3, an int of 5 bits, page numbers whose offset is negative or wraps around, 4 orders | `TypeOK`, `NothingMissed`, `NothingTwice`, `WalkEnds` |

The type invariants of `Migrate`, `TenantDatabase`, `TenantAuth`, `Messaging`, `ProviderRegistry` and `Provisioning` are
not run: they are proved (section 4).

**Why the bounds are enough.** Three sessions let one hold a lock, one wait for it
and an orphan linger; the version sets have a first version 0, a gap and a last one,
which are the cases of `Down`'s choice of the next version. One connection per pool is the worst
case for starvation: with more, a wait can only be shorter. Two requests suffice for a race
in the cache, because each entry has one writer at a time and a reader sees one
entry; two ticks of TTL and one of latency make an entry young, old and late. Two
failed sends, a reconnect and a third connection exercise every branch of `Publish`'s
loop, and three messages let one wait behind one that is sent and one that breaks the
channel. One consumer suffices for a message to be taken away with its channel
while its verdict has still to be sent, and to be delivered and judged again; that several consumers compete for messages
is left to the theorem, as the liveness properties of the run take too long with two. A channel of two fills up with four events in the stream; four events
are two tool calls with arguments of both, mixed, or a call, its end, a second call whose addition does not parse, and
arguments of that one, which is where a missing reset shows. Three answers let a
conversation begin with one provider, go on with another and come back, with a
lost answer or a lost response on any of the ways. Three rows make one, two or three
pages, full and partly filled, and the rows come and go between them. What a theorem of
section 4 states holds for every larger instance too.

Sending is bounded by `MaxFaults` and `LastConn` in `Messaging`, a stream by `MaxEvents` and `MaxGarbled` in
`Completion`, a conversation by `MaxTurns`, `MaxSystem` and `MaxFaults`, a client that jumps
between pages by `MaxVisits`, time by `Long` in `TenantAuth`, accounts and late requests by `MaxAccounts` and
`MaxLate` in `Provisioning`. `CHECK_DEADLOCK FALSE` is set where the modelled life ends: one call in
`Completion`, the bounded messages in `Messaging`, the bounded turns of `Conversation`, and a client
that is done in `Pagination`.

**Fairness.** Only where a property is a liveness property. `Migrate`: PostgreSQL's
lock queue is first come, first served, so a lock request that is grantable again and
again is granted (strong fairness), and a call goes on or its statement fails (weak).
`TenantDatabase`: the same for the lock, and for pgxpool's queue of waiters; a worker
that has what it needs goes on. `Messaging`: `sync.Mutex` does not starve a waiter (strong
fairness); the broker reads and delivers; whoever owns a consumer closes it when
`Consume` returns and opens another: an assumption about the library's callers,
as it has no reconnection of its own and its messages would wait for ever otherwise. `Completion`: goroutines that can
go on do, a reader that reads goes on reading unless it leaves, and the body ends
because `http.Client.Timeout` covers it. `Conversation`: a caller that has an error asks again,
and a server that has a request answers or refuses it; that each single call ends is `CallEnds` of `Completion`.
`Pagination`: a client goes on with its walk, and its queries return. No failure is ever assumed to happen or to stop
happening, other than by the bounds.

## 4. Proofs

All leaves are checked by the provers. "Assumes" is what is assumed beyond the named
assumptions of the module, which TLC evaluates in every run.

| Module | Theorem | Assumes | Says |
|---|---|---|---|
| `MigrateProofs` | `Typing` | | `TypeOK` |
| | `Exclusion` | | a session past `pg_advisory_lock` owns its key's lock |
| | `LedgerInvariant` | `SameRelease` | the inductive invariant `LedgerInv` |
| | `LedgerIsAccurate`, `ScriptsAlwaysFit`, `NilIsAlwaysTrue` | `SameRelease` | the three safety properties of `migrate_ledger` |
| | `DirtyIsClosed` | | a dirty table stays as it is, for any mix of releases |
| | `Implementation` | `SameRelease` | `Spec => History!Spec` |
| | `NeverRunTwice` | `Ops = {"up"}` | no script is repeated, for any mix of releases |
| `TenantDatabaseProofs` | `Typing`, `NoLockIsPooled`, `NilIsEarned` | | `TypeOK`, `PooledIsUnlocked`, `NilMeansMigrated` |
| | `EveryoneInTheirSchema` | names that mean, without quotes, themselves or nothing | `OwnSchema` |
| `TenantAuthProofs` | `Typing`, `EntriesAreHonest`, `OnlyAdmissible`, `NewKeysAreFound` | | `TypeOK`, `CacheHonest`, `Admission`, `NewKeyIsFound` |
| `MessagingProofs` | `Typing`, `AcksAreEarned`, `ErrorsAreEarned`, `ResultsAreTrue`, `ExceptionsLeakOnly` | | `TypeOK`, `AckIsEarned`, `RetriesHelp`, `ResultIsTrue`, `OnlyExceptionsLeak` |
| | `Implementation` | | `Spec => Queue!Spec`: `Messaging` implements `Delivery` |
| `ProvisioningProofs` | `Typing`, `NilIsAWholeTenant`, `RepeatingHeals` | | `TypeOK`, `WholeTenant`, `RetryHeals` |
| `ProviderRegistryProofs` | `Typing`, `OneClientForAll`, `NoForeignClient`, `OrderOfResolution` | | `TypeOK`, `OneInstance`, `OwnCredentials`, `ResolvesInOrder` |
| | `MergeAssociates`, `MergeNothing`, `MergeKeepsSet`, `LastWord`, `CallerWins` | | laws of `Merge`, of the requests and of ollama's options (`ChatOptions`) |
| `CompletionProofs` | `Typing`, `AtMostOnce`, `ArgsAreBooked` | | `TypeOK`, `CompletedOnce`, `ArgsFindTheirCall` |
| | `Implementation` | | `Spec => Stream!Spec`: `Completion` implements `ChunkStream` |
| | `BodiesAreClosed` | | at most `MaxRetries + 1` requests, at most one open body, none behind the end |
| | `NothingIsForgotten`, `CallsBeforeResults`, `InstructionsAlwaysReach` | | `WholeConversation`, `ResultsFindTheirCalls`, `InstructionsReach` (`Conversation`) |
| `PaginationProofs` | `PageTyping`, `WalksMissNothing`, `PagesAreDisjoint` | | `TypeOK`, `NothingMissed`, `NothingTwice` |

*Migrate.* `SameRelease` says that all callers ship the same up files (down files may
differ or be missing). It is needed: with two releases the row says less than
what is in the schema (section 5, late files). `LedgerAccurate` alone is not inductive: that `MarkClean`
writes the truth depends on what the session picked earlier, on nobody having moved
the table since, and on the script having run. `LedgerInv` adds what each stage
knows: `LockOwned` (the session owns its key's lock, so no other session is at work on its
table), `InLoop` (the row is clean, `todo` is what is left above or below it, and `cur` is its first),
`InScript` (the row is dirty at `cur`, and `applied` is everything below `cur`, with or
without `cur` depending on direction and stage), and `Returned`. A step of one session
disturbs only its own table (`StepKeeps`, `QuietKeeps`), so the consistency of the
others survives by exclusion (`OthersConsistent`), and its own by the neighbourhood lemmas
(`UpNeighbour`, `DownNeighbour`, `NextSmaller`): the scripts below the next
version are exactly those up to the current one. `DirtyIsClosed` needs only `Guarded`, that nobody in the
loop looks at a dirty row. `NeverRunTwice` needs `ClimbInv`: when everybody only goes up, all that is applied is at
most the row's version, and a script that runs is above it.

*TenantDatabase.* `Held`: a worker that holds a connection is its only user. On it stands `LockInv`:
a lock's session is in use by a worker that is between lock and release, and that worker works for
the lock's tenant; so a connection nobody uses has none. `Migrated` follows a tenant of the query's result
until it is migrated: it is in `todo`, or its schema is current, which no step undoes.

*TenantAuth.* `Honest` follows a key from the realm's answer to the cache: a key the realm serves has been gone for
no time, one in flight at most as long as its flight, and one in an entry at most as long as the entry is old, and an
answer. Concurrent stores need no order, as each of them is as honest as its own flight. `Missing` follows the
other direction: a key that was not in the answer was missing when the realm answered.

*Messaging.* `Jobs` says that what waits for its Ack has been through its handler. `Tally` counts: in `send` on a
good channel a call has had at least `attempt - 1` failures, on a bad one `attempt`; `Holder` (only the owner of the mutex is
in the loop) keeps the calls from counting each other's. `ResultIsTrue` counts places, and a number is not
inductive. `OnePlace` says it by pairs: a message is on one wire at one position, or
held by one consumer, or settled in one way. `InHand` says what `Settle` needs: what a consumer with an open
channel has in hand is what the broker waits for, each delivery once. `CountPlaces` turns it
into the cardinality. For `OnlyExceptionsLeak`, `chan` is on the connection that the publisher holds or on none, and every
other open connection is one whose channel the broker has closed. Each such channel has cost a
call its message, and a call loses at most one in each of its attempts: calls that have returned are finitely many
and are counted once (`Leak`). The refinement of `Delivery` stands on `OnePlace`: what is on the way is what has been
accepted and is nowhere else (`Way`), so a step of the broker is a step of `Delivery` by what it does to the other
sets, whatever the order on the wires. `Limits` adds that a consumer without a channel has no lease and one
with a subscription has its prefetch.

*Provisioning.* `Behind`: what a caller's earlier requests were to make is there, or was there when it was found, and
nothing but accounts is ever taken away. `Told`: an id that a server has answered with stays the id of that name, as no id is given
twice and no name gets a second one; so a request with an id from an earlier answer means the thing that it should. From both,
`Result`: nil is returned behind the last request only, when all that the list asks for is there.
`RetryHeals` adds that a request without trouble of its own is refused only for what `Accepts` accepts.

*ProviderRegistry.* `CacheInv`: an entry has the key it is filed under, and whoever was served under a
key was served that entry, as `LoadOrStore` never replaces one. `OrderInv` carries what a caller knew of the
registry from its first critical section to its second.

*Completion.* `Owed`: a request goes out only when none was carried out, `requests` and `attempt` differ by what
is under way, and an open body belongs to a stage that will close it. For the stream, the invariant names the number k of events
that the goroutine has read (`Read`): `wire` is `sent` without its first k, and what has come out (caller, channel and `out` together)
are the pieces among the first k that can be read. `Clean` adds that a strict client which has not failed could read all of
them, so that nothing that was due is missing, and `Whole` that a client which stops without an error leaves nothing but "end" unread. For tool calls
that come in turn, `Booking` says that `tool` is what `Current` makes of the first k events, the open call or none, and
that arguments have been booked by it. Every step moves one event
from one side of k to the other. The recursive functions are unfolded one event at a time, by an induction in
the form of a set that has 0 and every successor (`Induction`).

*Conversation.* `Spoken` ties the history to what was said: message i contains exactly the things with `at = i`, each once, and a
result belongs to an earlier call. `Tells(said, s, N)` says that the sequence s is the set N in the order of the history, each thing
once, and `Covers` is the weaker fact that holds of a caller which sends its history again: nothing is missing, no tool call comes
twice, each result is behind its call. `RequestTells` is an induction over the messages of a request: whatever the dialect makes
of a message, the things of its items are those of the message, or none (`ItemsTell`, `Omits`). The invariant `TalkInv` says that
the request at the server is what `BuildRequest` makes of the caller's state, and that what a server has stored is what was said
up to the answer that the caller knows. Then `Seeing`: stored and sent together tell the whole conversation. An answer is stored
behind what its model saw, so it keeps the invariant (`CoversAnswer`); whatever is said later does not touch it (`StoredStill`).
`OutputsAssumption` says that an answer is a sequence of texts and calls; the bounds on turns and faults are not needed.

*Pagination.* `GivenSoFar` and `GivenOrRead`: every row of the beginning whose position in the list's order lies
before the next page has been given. Insertions move positions only up, so they keep it; deletions do
not, and are excluded by the property. `LastMeans` is the rounding of `TotalPages`, `WrapExact` that an
offset within the range of an int is exact. For `NothingTwice` the direction is reversed:
deletions move positions down. A client that jumps needs a table that stays as it is, and page numbers up to
`MaxInt \div size`: what the code does with larger ones is no part of the theorem (section 5).

*Out of the provers' reach*, and left to TLC: everything with fairness or `ENABLED` (`EveryCallReturns`, `NobodyStarves`,
`PublishReturns`, `EndToEnd`, `CallEnds`, `EveryTurnIsAnswered`, `WalkEnds`). Every invariant and every action property of the
passing runs, and the three refinements, are theorems. The induction theorems of the library take an operator as a parameter, which the
provers cannot instantiate; what recursive functions and `FlattenSeq` compute is proved all the same, by induction over sets
of numbers (`Induction`, `JoinInduction`), which rests on the well-foundedness of `<` only.

## 5. Findings

1. `tenant_quoting` (`database/tenant.go:33`). `AcquireWithTenant` does not quote the schema's
   name and `Up` does: for a tenant with capitals they mean two schemas, and with a hyphen, as in the
   `my-tenant` of `auth/middleware.go:106`, the request fails. `EveryoneInTheirSchema` proves that nothing else does it:
   with names that mean themselves, everybody is in their schema.
2. `registry_default` (`ai/registry.go:109`). Defaults are filed under `GetProviderName`, in
   small letters for every provider of the repository, and looked up in capitals.

Seen while reading, and not the subject of a run:

- Late files: the version table keeps one number (`migrate.go:52`), so a migration that is
  merged late, under a number below the installed one, is never applied, and `Up` returns
  nil. Whether such a file is "pending" (`migrate.go:27`) is a matter of definition.
- `Down` works on the default version table only (`migrate.go:66`): what `Up` installed under another table
  stays, although it "rolls back all migrations for the given schema" (`migrate.go:64`).
- `Publisher.connect` replaces a connection without closing it (`publisher.go:44`): when only the channel was
  closed, as after a publish to a missing exchange, the connection stays open for the life of the process, beyond
  the reach of `Close`. `OnlyExceptionsLeak` says that nothing else leaves one behind.
- `rabbitmq` has no reconnection for consumers, although the table in `README.md:16` speaks of one for both; callers
  must restart `Consume` with a new consumer, and `EndToEnd` assumes that they do.
- A caller that stops reading a stream leaves its goroutine blocked on a full channel, with the body
  open, for good (`openai/provider.go:340`, likewise the others): the sends do not look at the context.
- The Responses client passes over what does not parse: a text, an added call or arguments are then missing
  from a stream that ends well (`openairesponses/provider.go` 244, 250, 270), and a `response.completed` that does not
  parse ends it without an error and without a finish reason (294-316), so that its caller cannot tell it from one that broke off. `ImplementsStream` says what is left.
- It books arguments on the call that was added last, and does not use the `call_id` of the event, which it decodes
  (`openairesponses/provider.go` 126-130, 268-282): when a server mixes its calls, arguments go to the wrong one; when the
  event that adds a call does not parse, they come without an id. `ArgsFindTheirCall` is about calls that come one after another.
- A stream of openai gives the first tool call of a choice only (`openai/provider.go:325`).
- Error events in the middle of a stream are no case of the anthropic and openai loops:
  such a stream ends like a complete one. anthropic streams do not carry a tool call's id and name.
- `http.Client.Timeout` covers the body as well, although `openai/provider.go:28` speaks of
  headers: a long stream ends with an error after 120 s.
- A Retry-After beyond the range of a `Duration` wraps around (`openai/provider.go:528`).
- A provider that is replaced under its name stays the default of its type
  (`registry.go:37`), and `GetChatModel` reads names and defaults in two critical sections, so that its answer may
  mix two states of the registry; `ResolvesInOrder` says how far.
- `Merge` passes over `CacheControl`, `PreviousResponseID` and `ProviderOptions`, although it speaks of all
  non-zero fields (`model.go:180`); and no layer can set a field back to zero (`MergeKeepsSet`).
- What a dialect does with options is uneven: anthropic sends neither temperature nor top_p, anthropic and responses
  no tool choice (`Carried` in `ChatOptions`).
- anthropic takes the first system message only, and none when `SystemMsg` is set (`anthropic/provider.go:358`);
  openai puts `SystemMsg` in front of a conversation that may already begin with it (`openai/provider.go:357`).
  `InstructionsReach` says what is left.
- With `PreviousResponseID` the responses client sends every message it is given, although only new ones are to
  be appended (`model.go:117`): a caller that passes its whole history has the model see it twice.
  `ResultsFindTheirCalls` says that at least tool calls are not repeated.
- `GetUser` looks for 404 only (`keycloak/user.go:51`): any other refusal with a JSON body
  decodes into an empty user with a nil error. `Accepts` in `Provisioning` has it.
- `CreateUser` takes a conflict for an error, so that an account whose answer was lost cannot
  be had by repeating the call; and two replicas in `EnsureBucket` can get one error for
  a bucket that exists (`storage/client.go:50`).
- An empty `AllowedIssuers` accepts every issuer (`auth/middleware.go:82`), and not only those "under KeycloakBaseURL"
  (`auth/config.go:6`); the keys come from there in any case (`jwks.go:80`). `TenantAuth` has what the code does.
- The key of the instance cache joins type, key and URL with "|" (`registry.go:120`); the model takes the three apart, as
  if none contained one.
- The key cache has no single flight and no negative entries (`jwks.go:63`), and its fetches no timeout of
  their own (`jwks.go:86`).
- The product in `Offset` overflows for pages beyond `MaxInt / size` (`page.go:68`): such a page is an error of the query,
  or has rows of another page. The model has it (pages 8, 11 and 40 of the run); `NothingTwice` stops where it begins.
- A service that counts before it reads may be told of too few rows, and `Last` then comes too early for rows that have been
  inserted since; `NothingMissed` asks that none are. A row may also come twice when rows are inserted before it, or
  when a client goes back after a deletion, as with any offset.
- Without a sort field, or with one that is not allowed, `OrderClause` is empty, and pages of an unordered query may
  miss and repeat rows; the properties of `Pagination` ask for an order that tells all rows apart.

## 6. Not modelled

- Contents: SQL, the JSON of requests and answers, RSA keys, message bodies. A property
  that needed them would need them modelled first.
- `HealthCheck`, `Available`, `env_config.go`: they change nothing.
- Durations: delays and time-outs are events that may come at any time, but for the TTL of the key cache.
- The other operations of I: one call of the MinIO client each. L, M: no shared state and no protocol of their own.
- K: `BindJSON` and the response writers are functions of one request. `scanJSONValue` is the recursion of a parser over
  `encoding/json`'s tokens; what it adds is that no object has a key twice, which unit tests reach.
- Headers that openrouter adds to openai's, usage figures, thinking and effort: data no property is about.

## 7. Plan

Done, in this order: `SchemaHistory` and `Migrate` with their proofs, `TenantDatabase`, `TenantAuth`,
`Messaging`, `ProviderRegistry`, `Completion`, `Provisioning`; then `Pagination` and `ChatOptions` with theirs,
`Conversation`, `ChunkStream` with the refinement by `Completion`, `Delivery` with the one by `Messaging`, and the proofs about `TenantDatabase`, `TenantAuth`,
`Messaging`, `ProviderRegistry`, `Completion` (with the refinement), `Provisioning` and `Conversation`.

Next:

1. The HTTP helpers (K): `scanJSONValue` as a stack machine over tokens, against a reference on trees.
