# A verification of Arla10k in TLA+

Arla10k is an event-sourced server. Every change of an application's data is a
*mutation*. The server runs a mutation in Postgres (through plv8), appends it to
a flat file of JSON lines, and answers. Postgres is ephemeral: each start of the
server creates a new database and replays the file into it. A JavaScript client
sends mutations and queries and polls prepared queries.

This directory models that system, checks the models with TLC on small instances
and proves the central safety properties with TLAPS for all instances.
`PROJECT.json` maps every definition to the lines it models.

## The parts of the system

| part | state | operations | talks to |
|---|---|---|---|
| mutation log (`mutationstore/store.go`) | file, channel `in`, `closed`, `count`, writer goroutine | Open, Write, Close, WriteTo, Len | handlers, Start, Stop |
| HTTP API (`main.go`, `errors.go`) | one goroutine per request | register, authenticate, exec, query, info | engine, log |
| lifecycle (`main.go`) | `s.qs`, `s.ms`, `s.http`, WaitGroup | Start, replayLog, Stop, Wait, postgres watcher | everything |
| connection pool (`github.com/jackc/pgx/conn_pool.go`) | connections, available ones, condition variable | acquire, Release | readers, postgres |
| graceful HTTP server (`gopkg.in/tylerb/graceful.v1`) | listener, open connections, channel of signals | ListenAndServe, Stop, shutdown | clients, signals |
| query engine (`querystore/*.go`) | postgres process, `execConn`, `execMu`, pool, `quit` | Start, Mutate, Query, Register, Authenticate, NewWriter, Stop | postgres, psql |
| plv8 runtime (`querystore/js/index.js`, `sql/`) | schema, listeners, actions, ddl | configure, define, init, exec, replay, query, trigger | application code |
| AQL (`js/graphql.peg`, `index.js`) | none | parse, normalizeProps, mergeProps, sqlForProperty | |
| client (`client/src/client.js`) | `token`, `state`, `info`, pending promises | connect, disconnect, authenticate, register, exec, query, refresh | server |
| polling queries (`client/src/query.js`) | `polling`, timers, runs under way | run, poll, stop | client |
| UUIDs (`schema/uuid.go`) | clock sequence | UUIDFromTime, parsing, formatting | |

What makes it hard:

- handlers run concurrently and hold no lock from one call to the next;
- `s.qs` and `s.ms` are set to nil by Stop and by the watcher of postgres while
  handlers use them;
- a crash can fall between running, writing, syncing and answering;
- the file is replayed by another route (a scanner, SQL text, psql) than the one
  by which its mutations were first run;
- the process leaves goroutines behind (the watcher of postgres, the HTTP server,
  the readiness poll) that read and set the same fields as Start and Stop;
- backends of postgres die under the pool, whose readers wait on a condition
  variable that is signalled outside the lock;
- the schema, the transforms of old mutations and the queries are rewritten by
  recursive code whose inputs come from the application and its clients;
- the client's answers, timers and calls come in any order.

## Modules

| module | models | lines of the model to read first |
|---|---|---|
| `DurableLog` | what the log promises its user | `LogNext` |
| `MutationLog` | the log in detail; implements `DurableLog` | `Writer`, `PowerLoss` |
| `Arla` | handlers, engine, Start, Stop and crashes, composed with `DurableLog` by INSTANCE | `Handle`, `ReplayLine`, `Exit` |
| `Client` | the client's session and requests against a server that grants tokens | `Step`, `Answer` |
| `QueryPoll` | poll, stop, refresh and the promise chains behind them | `Link`, `Timer`, `Stop` |
| `Lifecycle` | Start, Run, Wait and Stop, the start of postgres, the HTTP server and signals | `Main`, `Watcher`, `Shutdown` |
| `ConnPool` | the pool that reads borrow connections from, while backends crash | `Acquire`, `KeepOrDrop`, `Signal` |
| `Schema` | configure, define and the DDL of init | `Define`, `Needs`, `RunStmt` |
| `Exec` | exec and replay with the loop of transforms | `TransformOnce` |
| `Aql` | selections, filters and plucks of a query, each beside its meaning | `MergeOne`, `Hoist`, `Plucked` |
| `Runtime` | start, replay and query, in the order in which the runtime goes through them | `Next` |
| `Queries` | what the compiler of `Aql` makes of the queries of `Runtime` | `FiltersCompose` |
| `MutationLogProofs`, `ArlaProofs`, `ClientProofs`, `QueryPollProofs`, `LifecycleProofs`, `ConnPoolProofs`, `RuntimeProofs` | theorems | |
| `Recursion` | lemmas: induction, recursive functions, machines that take one argument after the other | `RecursionExists`, `LeadsFirst` |
| `MCArla` | a small application for TLC: rows, one of which refers to another | `MCEffect` |
| `MCRuntime` | applications, logs and queries for TLC | `MCInputs` |

Definitions whose comment begins with "Mutant" are faulty variants of the
definition below them. They are part of no specification; each shows that a
property would notice that fault.

### MutationLog and DurableLog

A caller of Write tests `closed`, sends to the channel, increments `count` (a load
and a store, as the code has no lock) and waits. The writer goroutine receives,
encodes, syncs and answers; its answer is a rendezvous, because the channel of a
request has no buffer. After any error, and when it sees `closed`, it returns.
Close is two steps, the flag and the channel.

The file is the sequence of complete records, the positions of the records that
no newline follows (`bare`) and whether a part of a record is at its end (`torn`).
A failed or interrupted write leaves nothing, a part of a record, or a record
without its newline. A loss of power keeps what was synced and any first part of
the rest.

`DurableLog` says the same for the user of the log: calls are open, answered or
gone; the file only grows at its end; a crash may take only records that nobody
was told of. `st` is where a call is, `dead` that the writer has returned.

### Arla

`at[r]` is the next thing the handler of request r does, or its answer. Each
step is one read of a shared field or one call. `Effect` is the application: the
outcome of a mutation on the data, or `Rejected`. Mutations run one at a time
(`execMu`, one SQL statement each, rolled back when it fails). A dead postgres
loses its data because the next start creates a new database (`postgres.init`).

`Replays` is what it takes for a line to be executed again: the scanner takes it
(64KB), it is a valid SQL literal (no single quote), it is one mutation, and the
engine accepts it. psql runs with ON_ERROR_STOP, so the first failure fails Start.
`proc = "failed"` is that; `"broken"` is a Start that failed for another reason.

### Client and QueryPoll

JavaScript runs one callback at a time, so a callback is one step. In `Client` a
call takes the token of the moment it is made, waits for `/info` (tried again
after each failure), is sent, served, perhaps lost, and answered. In `QueryPoll` a
loop is what one call of poll started. The promises of a loop are nested, so they
all resolve when the last one does; `Query.polling` is therefore the loop whose
promise it holds.

### Lifecycle

`p` is the process: where its main goroutine is, its postgres, the fields `s.qs` and
`s.http`, and its goroutines. `data`, the files of the data directory, is what
outlives it; the process runs in a container that takes everything else with it.
A crash of the process leaves every file as it is. A loss of power leaves those in
`disk`, which the kernel had written back, and any of the others, because nothing
syncs them: initdb runs with --nosync, cp and WriteFile do not sync, and postgres
runs with fsync off (`PgWrites`). `outlived` remembers that the marker was left
without the files it stands for. A
test of a field and its use are two steps, as the code reads the field twice; a use
of nil ends the process. `Step(A)` is a step of something else than the main
goroutine while the process runs. graceful.Server is modelled as startHTTP uses it:
`interrupt` is its channel with one place, `busy` its open connections, `timed` and
`drain` the two branches of shutdown.

### ConnPool

A reader is a call of Query, Authenticate or Register. acquire holds the lock from
its tests to its end, so it is one step, and cond.Wait takes the reader out of the
lock. Release is two steps, because it signals after it has unlocked. A crash of a
backend makes postgres end all of them: every connection is then `gone`, and a
reader notices when it uses one. `refused` remembers that a createConnection failed
(see below for what this costs).

### Schema, Exec, Aql, Runtime and Queries

`Schema` keeps the recursion of define as a stack of frames, and the statements as
a set of which any one of the lowest priority may be next, because the sort of that
V8 is not stable. `Needs` is what postgres wants of a statement. An application is a
record of what its classes name, refer to and have; the module's header lists it.

`Exec` replays a log. A mutation is its version, and an application says what
transform makes of each version and which versions its actions reject.
`ReplaysAsTransformed` compares the loop with iterating transform as a function.

`Aql` has an operator for each rearrangement of the compiler and a reference beside
it: a selection means the set of its paths, a chain of filters what it says from
left to right, a chain of plucks the walk along its names. A row is a number, and
a nested query keeps the order of the rows it selects from. The answer to a chain of
filters is its rows and the `format` in which they are returned: an array, one
record, or one column. `Runtime` goes through
`Schema`, `Exec` and one query; `Queries` adds `Aql` and the three properties that
compare a query with its reference. They are apart because the recursive operators
of `Aql` would keep the provers from the rest.

## What the runs check

Passing runs:

| run | question | states |
|---|---|---|
| `mutation_log` | is an acknowledged mutation on the disk for ever, once and readable; does the log implement `DurableLog`; does every Write return while the writer lives, and does Close end the writer? | 150 thousand |
| `arla_serial` | with one request in process at a time and two ends of the process, does the log rebuild the data, and does it always replay? | 306 thousand |
| `arla_concurrent` | with concurrent handlers, shutdown, a dying postgres and a crash, is what the server said of a mutation (200, 503) true of the log and of the data, does the log rebuild the data when mutations commute, is a log that cannot be read to its end served, and is a request refused or dropped before the end? | 679 thousand |
| `client` | is an exec sent at most once, what can bring a session back after a disconnect, does a session that the server honours outlast the failures of its requests, does every call settle? | 183 thousand |
| `query_poll` | is `polling` never stale, does stop halt every source of runs, does polling continue, does the promise of stop resolve? | 1,830 |
| `lifecycle` | with three starts on one data directory, crashes, losses of power, signals and a dying postgres: is the cluster complete, is postgres left behind, does Wait mean what it says, what does a nil dereference need, do Start and Stop return, is the loss of postgres noticed? | 306 thousand |
| `conn_pool` | with five readers, two connections and a crash: does a connection leak, is a waiting reader forgotten, what does a crash cost, does every read return? | 132 thousand |
| `runtime` | are exactly the reachable classes defined, does the DDL run in every order, does the replay do what the transforms say, do queries keep their meaning, does a start end? | 206 thousand |

Runs that show the code to differ from what its comments, tests or docs say:

| run | what happens |
|---|---|
| `log_hang` | a Write queued behind a writer that returned waits for ever |
| `log_newline` | a record that lost its newline in a crash is served, and the next acknowledged record shares its line |
| `arla_order` | two dependent mutations are logged in the other order than they ran, and the server does not start again |
| `arla_quote` | an acknowledged mutation with a single quote in it is not replayed |

The models contain more behaviours that differ from what one may expect and that no
run of their own shows:

- A handler that tested `s.qs` or `s.ms` and reads it again can meet nil, and panics
  instead of answering 503. `ServesUntilTheEnd` says when: only after Stop was called
  or postgres is gone. errors.go:82 promises an answer for these times too.
- The answer to an authenticate or register that was under way at a disconnect
  authenticates the client again, although client.js:72 says that disconnect
  deauthenticates. `LeftStaysOut` says that nothing else does: a token after a
  disconnect is one that such a call was granted.
- A 401 to a request that carried an older token ends the session of the token that
  replaced it. `HonouredSessionLasts` says that the session's own requests do not,
  unless its token has expired.
- stop and then poll, before the timer of the stopped loop fires, revive that loop
  beside the new one (query.js:59 tests only that some loop polls). `StopHalts` says
  that nothing starts a run before poll is called again.
- Concurrent Writes can lose increments of `count`, which only `replayLog` reads,
  before any request.
- A line over 64KB (`Long`) stops the replay as a quote does. `arla_concurrent` has
  one: `AckedVisible` says that the server then does not serve the part before it.
- The promise of stop does not wait for runs that refresh started, although query.js:69
  says that it resolves when no more requests are active; `StopHalts` and
  `StopResolves` are about the loop of poll. A builder that throws in a timer ends the
  polling.
- SIGTERM ends the HTTP server only. Wait goes on waiting for postgres, and so does
  Run, unless postgres ends too. When the port is taken, Run waits without an HTTP
  server.
- A crash during initdb leaves a directory that initdb refuses at every later start.
- A loss of power can leave the marker `.init` and not all that initdb, the copies or
  postgres wrote before it, since none of it is synced; the next start then skips
  initdb and starts postgres on what there is. `CompleteCluster` says that this is the
  only way to an incomplete cluster: errors and crashes of the process never lead to
  it, and neither does a loss of power that takes the marker too.
- Of the steps of Start only the wait for readiness has a timeout. `StartReturns`
  takes createdb, psql and the first connections to end or fail.
- A MaxConnections of 2 or less gives postgres no more connections than it reserves,
  so that it does not start.
- When Stop was preceded by a SIGTERM and GraceDuration is 0, Stop waits for the
  clients, its own timeout of a second being set too late (`StopReturns` excludes it).
- A reader that fails to connect returns without a signal. If it had been woken, the
  next waiting reader may wait although the pool has room, until another connection
  is released; `NoLostWakeup` and `ReadsReturn` exclude what follows such a failure.
- execConn is never made again. After a crash of its backend every mutation fails,
  while the pool heals and queries work.
- A key that is itself a reference has the priority of keys, and its DDL may run
  before that of the key it refers to. A reference by name defines nothing. `Sound`
  excludes both.
- A transform whose result has no version ends the loop, and the action runs with it.
  So does a mutation newer than the application.
- A second where is not valid SQL. Operands of a comparison are sorted without
  turning its operator around. where and sort act before a take, first or slice
  written in front of them. A first after a first returns the first column of the row
  instead of the row (index.js:502). Of several selections in one chain of plucks one
  survives. `FiltersCompose` and `PluckChainsNest` name the queries for which this
  makes no difference.

`arla_serial` tells what is *not* wrong: without a race of
dependent mutations, quotes or long lines, a replay fails only on a damaged file.
A damaged file is one with a torn last record, or with a missing newline between
two records. The code has no recovery from either; an operator has to edit the
file. `TempErrorNotLogged` says that a 503 means the mutation will not come back.
The same is not true of other errors: a failed sync is answered 400 or 500 and the
mutation may be replayed later. A mutation answered 503 after `Mutate` stays in the
data until the next restart, and `LogRebuildsStore` therefore speaks of states in
which everything that ran was logged.

### Bounds

- Three calls of Write, a channel of one place and one restart: one call in the
  writer, one in the buffer, one blocked on the send, and a file that a crash
  damaged is opened and extended again.
- Requests of the server: in `arla_serial` two mutations, of which one depends on
  the other, a query, and two ends of the process, so that a rebuilt database is
  extended and rebuilt again; in `arla_concurrent` a mutation, a registration and
  a login with two in process at a time, and one end of the process; the line of the
  registration is over 64KB, so that a log may replay, stop at it, or have it last.
  Each request is made once; a client that tries again is another request.
- Client: one authenticate, one register, one exec or query and two tokens, so
  that an old token meets a new session; `/info` fails at most once (every call
  that waits may be the one).
- Polling: three loops, so that a revived loop can meet a third; one extra run.
- Lifecycle: three starts, so that a directory that a crash left is met by a start
  that fails and by another; one connection of a client, which is there or not;
  values of MaxConnections on both sides of the three that postgres reserves, and 0.
- Pool: two connections for five readers, so that readers wait behind a woken one
  while both connections are dead; a third identity for a connection that replaces
  a dead one; one crash.
- Runtime: four classes with every way to name at most two others; versions 1 to 3
  with every transform between them, and `MaxTransforms` 1 instead of 1000, so that
  the limit is met; queries of up to three selections three levels deep, up to three
  filters and up to three plucks. Applications, logs and queries vary one at a time,
  because no phase reads the state of another.

Deadlock is not checked in the runs of the log, the server, its life, the pool and
the runtime: with all calls made, all restarts used or the query answered, stopping
is legal.

### Fairness

- `MutationLog`: weak fairness of each caller's steps, of the writer and of the
  second half of Close. They are goroutines that the Go scheduler runs when they
  can run. Nothing forces a call, a Close, a failure or a crash.
- `Client` and `QueryPoll`: weak fairness of answers, timers and callbacks. fetch
  resolves or rejects; timers fire. Nothing forces the application to call.

- `Lifecycle`: weak fairness of the main goroutine (and so of the programs it waits
  for: initdb, createdb, psql), the watcher, the HTTP goroutine
  and the signal handler, of the timers in spawn and shutdown, and of the exit of a
  killed process. Clients need not close their connections, and postgres need not
  become ready.
- `ConnPool`: weak fairness of each reader: its goroutine runs, and a query ends.
- `Runtime`: psql and plv8 go on until they are done or fail.

## What is proved

TLAPS proves, for every set of calls, every channel capacity and every number of
restarts (`MutationLogProofs`):

- `LogTypeCorrect`, `AckedWritesAreDurable`, `MutationsAreLoggedOnce`,
  `LogIsNeverGarbled`, `SyncedPrefixIsStable`;
- `LogImplementsDurableLog`: initial states map to initial states and every step
  to a step of `DurableLog` or to a stutter.

And for every application (`Effect`), every set of requests and every bound
(`ArlaProofs`):

- `ServerTypeCorrect`, `AcknowledgedIsLogged`, `AcknowledgedIsVisible`,
  `TempErrorIsNotLogged`, `ServiceLastsUntilTheEnd`;
- `ServerUsesTheLog`: what handlers, Start, Stop and crashes do with the log is a
  behaviour of `DurableLog`, the specification that `MutationLog` implements. What
  the server relies on is thus what the code of the log was shown to do;
- `AcknowledgedKeepPlace`: the record of an acknowledged mutation stays where it is
  in the log, through later writes, shutdowns and crashes (`AckedInPlace`);
- `LogRebuildsTheStore`: when everything that ran was logged, a replay of the log
  gives the data that postgres has;
- `UndamagedLogIsReplayed`: a replay fails only on a damaged file.

The last two have hypotheses, which are those of the code: either requests come one
at a time (`MaxInFlight = 1`), or a mutation that succeeds after another would have
succeeded before it with the same data at the end (`Commuting`). The second theorem
also needs that no mutation has a quote or is over 64KB. `arla_serial` is an
instance of the first case, and `arla_concurrent` checks `LogRebuildsStore` in the
second. `arla_order` and
`arla_quote` show that the conclusions fail without them.

The other modules have their own proofs, for every value of their constants:

- `ClientProofs`: `ClientTypeCorrect`, `ExecutedAtMostOnce`, `DisconnectLasts`,
  `HonouredSessionsLast`;
- `QueryPollProofs`: `QueryTypeCorrect`, `PollingStaysLive`, `StopIsObeyed`;
- `LifecycleProofs`: `LifecycleTypeCorrect`, `ClusterIsComplete`,
  `NothingIsLeftRunning`, `ConnectionsSuffice`, `WaitIsTrue`, `PanicsNeedRaces`;
- `ConnPoolProofs`: `PoolTypeCorrect`, `PoolNeverLeaks`, `WaitersAreWoken`,
  `PoolHeals`;
- `RuntimeProofs`: `SchemaTypeCorrect`, `ExactlyReachableClasses`,
  `SoundSchemasStart` for every application; `ReplayTransforms` for every log, every
  transform and every limit of the loop; `RuntimeTypeCorrect` and `RuntimeStarts`,
  which say the same of the composition.

The assumptions are the ASSUMEs of the modules: the channel has a place, `Effect` is
total with outcomes in `DB` or `Rejected`, the kinds of requests and of calls are
disjoint, the pool has at least one connection and no more than there are names for,
postgres reserves at least two connections (its default is three), and applications
have the fields that `AppType` lists.

The properties are not inductive as they stand. For the log, `IndInv` adds where
each call can be while its request is in the channel or with the writer: a call is
in one place only, its record is in the file only once the writer is past encode,
and `synced` covers it once the writer is about to answer. For the server,
`CallInv` ties the place of each handler to the state of its call of the log,
`HandlerInv` says that a handler past `Mutate` finds its mutation in `ran` (which
holds because handlers exist only while the server serves), and `ReplayInv` that
the lines up to `pos` were run by this postgres. `ServiceInv` says that the fields are
set while nobody stops a server whose postgres runs.

That the log rebuilds the data needs `StoreInv`: the log replays without an error,
and the mutations that were run and are not in the log, in *some* order, take the
data of the log to the data of postgres (`Takes`). It says "some order" because
handlers take `execMu` and call Write in different orders. Appending one of these
mutations to the log is the step that needs a hypothesis: the mutation must be able
to be the first of them (`TakesFirst`). It can when mutations commute, by moving it
to the front one place at a time, and when it is the only one. For requests that
come one at a time, `SerialInv` says that it is the only one, unless the log has
ended and nothing will be appended. A crash leaves a prefix of the log, and a prefix
of a log that replays replays (`RebuildPrefix`).

For the replay, `LoopInv` ties the loop of transforms to the orbit of the line's
version: after k turns the loop has the k-th value of it. The orbit stays at the
first version that is not older than the application's, so the place where the loop
ends is also where the reference looks.

For the client, an exec that was not answered was not executed; after a disconnect
every login under way was so at that disconnect; and a token for which a request was
refused is not valid again, since the server grants each token once. For polling,
`polling` is set only while poll was called last. For the life of the process, the
files of a start are written in their order, so that the marker comes with all of
them or a loss of power took some; and the invariant ties
the goroutines together: the watcher exists from the moment the engine is connected
and ends only when postgres is gone or was killed, and a postgres that runs is known
to `s.qs`, except during the few steps of Start before the assignment. For the pool,
a connection is in one place; the dead connections still in the pool are counted
against the crashes, `broken + Cardinality(all \cap gone) <= crashes * MaxConnections`,
which is what a read that meets one, a connection that replaces one and a further
crash preserve; and the queue holds each waiting reader once. For the schema, a
recorded class is on the stack or made, never both; what a call has looked at is
recorded; and the statements are those of the classes that were made. The lemmas
follow the actions.

These arguments are about recursive functions: `Rebuild` and the reference of
`ReplaysAsTransformed`. The library's induction theorems take an operator, which the
provers cannot instantiate. `Recursion` therefore starts from the well-foundedness of
the natural numbers, states induction for a *set* of numbers, and derives from it
that a function with a given recursion exists. From there on, the CHOOSE behind a
recursive function has the values that its definition says. The lemmas about
machines (a start, arguments, a point or an error after each) are there too;
`ArlaProofs` uses them with the application as the machine.

`TypeOK`, `SyncedPrefixStable`, `EnoughSlots` and `AckedInPlace` are proved and not
part of a run, apart from the `TypeOK` of `Runtime`, which is both.

Only model-checked:

- `NormalizeMerges`, `FiltersCompose` and `PluckChainsNest`: they are about recursive
  operators and the folds, filters and sorts of the community modules, for which the
  prover has no facts;
- everything about liveness: fairness and ENABLED are out of the prover's reach.

## What is not modelled

- `/info`, CORS and static files: they change nothing.
- Triggers and listeners, and the `with` of a class: they run application code.
- Two classes with one name: define keeps the first and warns (index.js:159). In
  `Schema` a class is its name.
- Parsing of queries, interpolation and the text of the SQL.
- A listener whose Accept fails for good; TLS; the pool's Close, Reset, timeout and
  transactions, none of which the server uses.
- `schema/uuid.go` and the records of `schema/`: conversions between formats. The
  clock sequence of UUIDs is used by no other part of the server.
- The formatting of postgres's log and of the client's output.
- Vendored packages (`src/github.com`, `src/golang.org`, `src/gopkg.in`), apart from
  the pool of pgx and the graceful server. They are most of the lines under `src/`:
  text tables, network protocols, drivers, encodings. The server calls a small part
  of them, and what it calls is I/O or conversion without state of its own. The map
  therefore covers a small share of all lines, but nearly all of the code of Arla
  that changes state.

A composition of `Client` with `Arla`, for what an application can conclude from a
promise, would be the next module: today `Client` has a server that grants, refuses
and loses, and `Arla` has requests that are each made once.
