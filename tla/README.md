# nodemysql in TLA+

A specification of the nodemysql addon: how JavaScript calls, libuv's threads
and event loop, the V8 garbage collector and the MySQL driver interleave, and
what holds whatever they do. Paths such as `src/PoolWrapper.cpp` are those of
the repository.

## 1. The system

| part | state it keeps | operations |
|---|---|---|
| `Scheduler`, `Task` | `m_concurrent`, `m_tasks`, `m_maxConcurrent` | `addTask`, `workCallback`, `afterWorkCallback`, `runNextTask`, `runTask` |
| `PoolWrapper`, `nodemysql.cpp` | static `pools`, `nextPoolId`, `async`; per pool `m_createdConnections`, `m_availableConnections`, `m_waitingCallbacks` | `new Pool`, `getConnection`, `connect`, `releaseConnection`, `connectionCreatedCallback`, `checkWaitingCallbacks`, `addIdle`, `getConnectionCallback`, the destructor |
| `TaskConnection` | options, connection, pool id, callback, exception | `asyncWork` connects, `afterAsyncWork` delivers, the destructor deletes what was not delivered |
| `ConnectionWrapper` | `m_connection`, and the internal field of its JavaScript object | `execute`, `fetchAll`, `fetchRow`, `beginTransaction`, `commit`, `rollback`, `connected`, `release`, the destructor |
| `Connection`, `TaskQuery*`, `TaskTransaction` | the driver's connection, `m_scheduler(1)`, `m_poolId`; per task its rows, exception, callback | the driver calls of each task, the rows made of a result set, the callback with a result or an error |
| `ConnectionOptions` | the options as C++ values | conversion from JavaScript, the copy, getters |

How they interact. JavaScript runs on the main thread only and calls the methods
of `Pool` and `MysqlConnection` objects. A method creates a `Task` and gives it
to a `Scheduler`: the static `PoolWrapper::async` for connecting, the one inside
a `Connection` for statements. Both have a limit of 1. A `Scheduler` gives a
task to `uv_queue_work`; a thread runs `asyncWork`, and the main thread later runs
`afterAsyncWork`, which calls the JavaScript callback, then deletes the task and
starts the next one. A free connection is handed out through a `uv_idle` handle.
The collector destroys `Pool` and `MysqlConnection` objects that JavaScript lost.

What is hard. Three actors move at once: the main thread (whose callbacks
re-enter the addon), libuv's threads, and the collector, which may run in any
JavaScript call. Connections change hands between tasks, idle handles, pools and
JavaScript objects; counters are compared before the events they count have
happened; a task is two driver calls and the connection may break between them;
a driver call may throw in the middle of a result set that three parties have
allocated. `PROJECT.json` lists the hazards at their lines.

What makes each part correct:

* Scheduler: no more tasks at once than the limit, tasks start in order, each is
  run, answered and deleted once, none is left behind.
* Pool: a connection has one owner; a call is answered once, with a connection
  of the pool it asked; nobody waits while a connection is free; the number of
  connections is bounded; waiting calls are served.
* Connection: callbacks come in order; the insert id belongs to the insert; a
  commit or rollback that succeeds ends the transaction.
* A connection that passes from user to user: the next user gets a clean session
  and no answer of the one before.
* A call: the callback gets the whole result or an error, and what the call
  allocated is deleted once.
* Options: the driver is asked to open what the program gave and README documents.

## 2. The modules

    TaskService <--implements-- Scheduler --instance--> Pool --implements--> PoolService
                                    |                    |
                                    |                    +--extended by--> Collector, MCPool
                                    +------instance--> Connection --extended by--> Lease, MCLease
    Statement, MCStatement          Options, MCOptions

    proofs: SchedulerProofs; PoolProofs, PoolServiceProofs, PoolCountProofs (each extends
    the one before it); ConnectionProofs, which LeaseProofs extends; StatementProofs; OptionsProofs

`TaskService` is the promise of a scheduler (`src/Scheduler.h:11-31`): a queue of
accepted tasks and a set of running ones.

`Scheduler` is the code. `addTask` and `afterWorkCallback` run on the main thread
only, so each critical section on `m_tasksLock` is one step. `afterWorkCallback`
is split in `AfterWork` and `AfterWorkDone`, because the JavaScript callback
between them may call `addTask` while the finished task is still counted.
`workCallback` is split in `WorkBegin` and `WorkEnd`, because `asyncWork` blocks.
`uvQueue` and `finished` are libuv's own queues; both are FIFO.

`PoolService` is the promise of `connect`, the pools and `release`, without the
scheduler, the counters, the stacks and the idle handles: a connection is in one
place (gone, in its pool, with a call, with a user, lost), only a user gives it back, to
the pool that opened it or straight to a call that waits there, and a call is
answered once. `Lost` is reached in one way only, by delivering a free connection to a
call without a callback; a closed pool may forget its waiting calls, no open one may.

`Pool` adds everything that obtains and returns connections. Its scheduler is
an instance of `Scheduler` with limit 1, and its steps use that module's actions. A
`call` is one call of `connect` or `getConnection`; its record is what the
`TaskConnection`, the waiting callback or the `CallbackData` holds for it. A
connection is `alive` until deleted; `wrapped` are those a `MysqlConnection`
object owns, `m_availableConnections` those in a pool, `call[r].connection` those
a task or an idle handle carries. Stacks are sequences whose end is the top, as
`back` and `pop_back` use the vectors. `Collect` is the collector; it takes pools and
connections in use at any moment. libuv runs idle handles in no promised order,
so `IdleCallback` takes any. The refinement mapping to `PoolService` is `Service`;
`Place` tells where a connection is.

`Collector` extends `Pool` with the one collection that `Pool` leaves out, that
of a `MysqlConnection` object that was released, because it breaks ownership
(section 4). The properties of `Pool` therefore hold for programs that keep
released objects reachable.

`Connection` is one connection, its tasks and the server's session. Each driver call is
a step: it succeeds, fails without effect, or has its effect and loses the
answer with the connection. The connection may break at any time and, with
the option `reconnect`, the driver opens a new session when the next call is made.

`Lease` is that connection as its pool lends it: the present user, `release`, the next
user, deletion. `CarefulSpec` is a program whose users release when they have
all their answers (they may be in the last callback) and have settled their transactions, and
read `connected` in a callback of the connection or with all calls answered;
`CarelessSpec` is any program: a user may also release, lose its object to the collector, or read
`connected` at any time, tasks or no tasks.

`Statement` follows one call at a time from its arguments to its callback: what the methods
refuse and which task they then forget, `createRow` and the deleter in `fetchAll` when any
driver call may throw, the conversion of values, what the callback gets, and what
`~Task`, `~TaskQuery` and `~TaskQueryFetchAll` delete. `heap` counts live objects of each kind.

`Options` is `ConnectionOptions`: the constructor from a dictionary, the copy constructor a
pool uses for each connection, and the map that `Connection::Connection` makes for the driver.
Integers have their width: `ToUint32` is modulo `2 * Half` and an `int` is in `-Half..Half-1`.
The copy constructor sets no `m_poolSize`; the copy holds any value of `Indeterminate`.

## 3. The runs and their bounds

| run | what it asks | bounds |
|---|---|---|
| SchedulerTasks | refinement of `TaskService`, no task left behind, every task completes, counter, limit, one place per task | 4 tasks, limit 2, 3 threads: the limit binds, not the threads (the addon's limit of 1 is that of the schedulers in the other runs) |
| PoolSafety | ownership, single answers, waiting, counting, one connect at a time, connections do not cross pools, refinement of `PoolService` | 2 calls (slots), 3 connections, 2 pools of size 1, connections of `connect`: a full pool with two waiters, an overshoot, and a third connection of the other pool or of `connect`; larger pools are the theorems' matter |
| PoolServes | liveness for programs that release; a waiter has a provider; no connection is leaked; a pool's count is the number of its connections | 3 calls, 2 connections, 1 pool of size 1: two calls wait at once |
| ConnectionCalls | insert ids, order, transactions with and without reconnection, clean handover to the next user, one thread in the driver, for careful users | 3 tasks, 3 calls of any kind, 3 rows, 2 users |
| Statement | whole answers, no object deleted twice, none leaked while no call of `fetchAll` or `fetchRow` is refused, every queued call ends | each method with each kind of argument, 2 rows, columns `a`, `a b` and `a a`, each value a text, a text with a zero byte or NULL; 2 refused calls |
| Options | what is opened, documented defaults, the socket, the pool's size | every dictionary of at most 3 options; `int` has 4 bits, a second is 3 ms, the default port 5; numbers at both ends of `int` and `unsigned int`, at 0, 1 and one beyond each |

Tasks and calls are slots: a deleted one may be used again, so the runs of Scheduler
and Pool are infinite behaviours over finite states. `Connection` bounds the calls
(`MaxCalls`) and rows (`MaxId`): its properties relate a task to the ones just before
and after it, and three calls in a row include begin, statement, commit. `MaxLeases` bounds the
users: the properties are about a user and the one before. `MaxPools` bounds
the pools a program creates (ids are never reused). `Conn` is also the server's limit: when
all are alive a connect can only fail. `MaxRefused` bounds the tasks that refused calls leave for
ever. Three options are enough in `Options` because the options are converted one by one and only
the socket has a say about two others. Calls, connections and tasks are
interchangeable; the safety runs use that symmetry, the liveness runs do not. Deadlock is
not checked in the two runs of `Lease`: a deleted connection does nothing more, and calls are bounded.

Mutants: operators whose comment begins with `Mutant:` are variants of the code
with one plausible mistake. Each property is violated when one of them replaces the
definition it follows.

Fairness. `Scheduler` assumes that a thread takes a request, that `asyncWork`
returns (the server answers or the connection breaks), that the loop drains
libuv's done list and that a callback returns: weak fairness of each. Adding tasks is not fair.
`Pool!WellBehaved` assumes in addition that the program releases each connection, as the
example of `README.md` does, always gives a callback, and keeps the pool and the connections it
uses. `IdleCallback` is strongly fair: other callbacks disable it for as long as they
run, but each iteration of the loop runs every started idle handle.
Under these assumptions the newest-first service of `checkWaitingCallbacks` still serves some
waiter whenever somebody waits, and all of them when no new call is made. It does not serve each
waiter: with calls that keep coming, an old one may wait forever. `Statement!Spec` assumes that the
driver answers or throws and that the loop calls back and deletes the task; nothing forces a call.

## 4. Where the code differs from what is said of it

Each of these runs expects a violation of one property; PROJECT.json quotes the lines.

| run | property | what the counterexample shows | it holds of programs (theorem) |
|---|---|---|---|
| PoolSize | PoolSizeRespected | the count is compared before the connections being opened are counted, so a pool opens more than its size | that ask a pool only while none of its connections is being opened (`PatientProgramsKeepSize`); `OvershootBound` bounds it for all |
| CollectorRelease | PoolOwnsReleased | a released object still deletes the connection when it is collected | that keep every released object reachable (`KeptObjectsLeaveOwner`) |
| LeaseCollected | TasksHaveConnection | an object that the program lost is collected while one of its tasks is queued: its Connection and Scheduler are deleted under the task | whose users have their answers before they release or lose the object, and whose pool is collected in no callback of its free connection (`AnsweredFirstIsSafe`) |
| ConnectionRollback | TransactionCovers | after a reconnection, statements of a transaction are committed at once | that do not set `reconnect` (`TransactionsCover`) |
| ConnectionCommit | NoTransactionLeft | a failed commit or rollback leaves the session in a transaction | any, while no driver call of a commit or rollback fails (`CommitsByItself`) |
| StatementLeak | NothingLeft | a call of `fetchAll` or `fetchRow` that is refused for the type of an argument leaves its task allocated | that never make such a call (`AcceptedCallsAreDeleted`) |

The last column says how far each statement can be relied on. The discipline is a hypothesis
`[][P]_vars` on the steps of the same specification, so it restricts the program (or, for
`CommitsByItself`, the driver) and changes nothing in the code; for `AcceptedCallsAreDeleted` it is the
state `refused = 0`, that no such call was made. Steps that keep each discipline
exist: a program that makes one call at a time, with the right types, keeps all that are about programs.

Two more differences have no run that shows them:

* `src/Connection.cpp:23` says "Use one thread per connection", and the accessor `connected` calls the
  driver on the main thread whether or not a task is there (`src/ConnectionWrapper.cpp:305`).
  `OneThreadInDriver` is therefore not true of `CarelessSpec`. It is checked for careful users, who read
  `connected` only in a callback of the connection or with all calls answered, and proved of them
  (`CarefulUsersStayAlone`) and of every program that does so (`ConnectedInCallbacks`).
* `README.md:64` documents `connectTimeout` in milliseconds. `src/Connection.cpp:86` divides it by 1000, so
  that 1 to 999 ms become 0, which is no timeout for the driver, and other values lose up to a second.
  `InSeconds` in `Options` models the division; no property is stated about it.

Behaviour worth knowing that contradicts no statement of the repository is part of the models: a free
connection given to a call without a callback is lost (`Lost` in `PoolService`), a value ends at its first
zero byte and NULL is an empty string (`AsText`), of two columns of one name the first is kept
(`WithColumn`), and the insert id is 0 when the driver reconnected in between (`OwnInsertId`).

## 5. What is proved

Every property of the passing runs that is not liveness is also a theorem, for every value of the
constants. Assumptions: finite sets of tasks, calls and connections, limits that are natural
numbers, a pool size of at least 1 (which `PoolSizesAreUsable` proves of `ConnectionOptions`), and
for `Options` and `Statement` dictionaries and columns of the right types. Each module names
them (`SchedulerAssumption`, `PoolAssumption`, `ConnectionAssumption`, ...) and TLC checks them
in the runs.

* `SchedulerProofs`. The inductive invariant is `Inv`: types, one place per task,
  `m_concurrent` equal to the number of tasks in flight, that number within the limit, and no
  task in the vector unless the limit is reached. None of them is inductive alone: the counter
  is exact because a task is in one place, the limit holds because the counter is exact,
  and the vector is non-empty only at the limit because every step that frees a place also
  starts a task. `SchedulerRefinesService`: every step maps to a step of `TaskService` or to a
  stutter, with `pending <- uvQueue \o m_tasks`. `AddTask` may append to either sequence;
  it is an append to the whole because a task goes to libuv only when the vector is empty.
* `PoolProofs`. `AsyncStep` shows that a step of `Pool` is a step of its scheduler or
  leaves it alone, so the scheduler's invariant holds inside `Pool`, and `ConnectsAreSerial`
  follows. `WaitsAreJustified` proves `WaitIsJustified` with the types of the stacks: a
  release finds the stack of free connections empty when somebody waits. The rest is `OwnInv`: the
  scheduler's invariant, types, one place per call, one owner per connection and the pool of each
  connection. A step is first described by what it does to four sets (the tasks, the calls that wait,
  a pool's free connections, what a call carries), and the invariant is proved of that description.
  `PoolServesTasks`: the addon's scheduler keeps the promise of `TaskService` to the tasks of pools and
  of `connect`. `KeptObjectsLeaveOwner` maps the steps of `Collector` to steps of `Pool`.
* `PoolServiceProofs`. Every step of `Pool` is a step of `PoolService` or a stutter
  (`PoolImplementsService`). It needs `OwnInv`, to know that a connection that leaves one place was in no
  other, and `Asked`: what a call asked is known while it is open, ids are given once.
* `PoolCountProofs`. Lemma by lemma, each action `Tallies`, for every pool, its count with what is
  counted (the set of its delivered connections stays, shrinks, or grows by one with the count), and
  opens nothing, or only `getConnection` starts to open one more while the count is below the size.
  Four invariants follow from these facts and not again from the actions: `Overshoot`
  (`OvershootIsBounded`), `Counted` (`ConnectionsAreCounted`; the two together bound the sessions that a
  pool has on the server, `SessionsAreBounded`), `WithinSize` when calls are patient
  (`PatientProgramsKeepSize`), and `CountedExactly` when nothing is deleted (`PlacesAreKept`).
  `Well` is about programs that always give a callback and release: no open call is without
  a callback, no connection is lost, and a pool that counted a connection still has one. With
  `WaitInv`, a pool with a waiter has counted its size, hence has a connection, which is not free:
  `WaitersHaveProviders`.
* `ConnectionProofs`. From the scheduler's invariant with limit 1 (`Places`: at most one task in flight)
  the invariant is: types, tasks numbered in the order of their places (`Order`), a task's driver calls made
  in order (`Progress`), the id of a task in its second call is the session's (`Ids`), and what the last
  transaction task that succeeded says of the session (`Transactions`). `ConnectedInCallbacks` needs that
  with limit 1 a task in its callback, or no task at all, leaves every thread idle; `CommitsByItself` needs
  `NoneLeft`: the session is out of autocommit only from a begin on, or inside one.
  `ConnectionServesTasks`: the scheduler of a connection keeps the promise of `TaskService`.
* `LeaseProofs`. `LeaseIsConnection`: every step of `CarelessSpec` is a step of `Connection` or leaves it
  alone, so what is proved of a connection holds of one that is lent, whatever its users do
  (`CarelessUsersKeepAnswers`, `CarelessUsersKeepTransactions`). `AnsweredFirstIsSafe` is about users who
  only wait for their answers: its invariant `Free` says that a free connection has no task but the one in
  whose callback it was released, which no step of libuv or of the driver can change, so neither the
  collection of the object nor that of the pool takes a connection from a task. For careful users `LeaseInv` then relates the user to the tasks
  (all are the present user's) and the session to what the user was told (out of autocommit only when
  unsettled); `CarefulUsersStayAlone` is `ConnectedInCallbacks` of them.
* `StatementProofs`. The invariant relates `heap` to where the call is: each stage of a call owns exactly
  the task, handle, parameters, list and rows it made (`Accounts`), and the rows made so far are those of
  the result set, in order (`Reading`), for any number of rows and columns. The tasks of refused calls are
  counted apart (`refused`), so that `AcceptedCallsAreDeleted` follows when there are none.
* `OptionsProofs`. The constructor is a function of the dictionary it was given, and the map
  for the driver does not depend on `m_poolSize`; the rest is arithmetic modulo `2 * Half`
  for every width.

Only model-checked, because liveness and fairness are beyond the prover: `EveryTaskCompletes`, the
fairness part of `Scheduler`'s `ImplementsService`, `TasksAnswered`, `SomeWaiterServed`,
`QuietPoolServesAll` and `QueuedCallEnds`.

## 6. Not modelled

* The text of queries, binds and messages. An exception's message is taken to be non-empty:
  the code tells failure by a non-empty `m_exception` (`src/TaskQueryFetchAll.cpp:37`).
* A bind whose `toString` calls the addon again in the middle of a method
  (`src/ConnectionWrapper.cpp:84`): a call is one step in the models.
* Options whose `toString` throws (`src/ConnectionOptions.cpp:16`): a `std::string` is made of NULL.
* The persistent handles of callbacks that wait in a pool or that an idle handle holds: the code
  never disposes of them (`src/PoolWrapper.cpp:93`). Those of tasks are in `Statement`.
* `threadInit` and `threadEnd` of the driver, taken to succeed.
* Insert ids over 2^53, which the conversion to a JavaScript number rounds.
* Calls of `getConnection` and `connect` that throw before they change anything.
* What `connectTimeout` means when it is 2^31 ms or more, where the `int` becomes negative, or below 1000
  (section 4): the model has the conversions and no property is about their result.
* Which waiting call is served when there are several is not promised (`PoolService`). How many places a
  pool loses to collection and to calls without a callback is not bounded by a property; other
  programs lose none (`NoPlaceLost`).
* `tests/`, the build.
