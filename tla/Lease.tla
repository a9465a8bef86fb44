-------------------------------- MODULE Lease --------------------------------
(***************************************************************************)
(* One Connection as its pool lends it to one user after the other: the    *)
(* MysqlConnection objects that own it in turn, release, and its deletion. *)
(* It extends Connection with the one who has the connection. Nothing in   *)
(* the code asks a user to finish before release, nothing keeps the object *)
(* reachable while tasks run, and the accessor connected waits for none.   *)
(* CarefulSpec is a program that sees to all three, CarelessSpec one that  *)
(* releases, loses its object, or reads connected at any time.             *)
(***************************************************************************)
EXTENDS Connection

CONSTANT MaxLeases      \* bound: MysqlConnection objects made for the connection

ASSUME LeaseAssumption == MaxLeases \in Nat \ {0}

VARIABLES
    holder,         \* "user": a MysqlConnection object has it, "pool": it is
                    \* free, "nobody": it was deleted
    lease,          \* the number of the present or last user
    asker,          \* per task, the user who asked for it
    unsettled       \* the user asked for a transaction and no later commit or
                    \* rollback reported success to it

leaseVars == <<holder, lease, asker, unsettled>>
allVars == <<vars, leaseVars>>

Lessee == 1..MaxLeases

LeaseInit ==
    /\ Init
    /\ holder = "user"
    /\ lease = 1
    /\ asker = [j \in Job |-> 1]
    /\ unsettled = FALSE

\* A method of an object that owns the connection. Those of a released object
\* find no ConnectionWrapper and do nothing.
AskThroughObject(j, kind) ==
    /\ holder = "user"
    /\ Ask(j, kind)
    /\ asker' = [asker EXCEPT ![j] = lease]
    /\ unsettled' = (unsettled \/ kind = "begin")
    /\ UNCHANGED <<holder, lease>>

ConnectedThroughObject ==
    /\ holder = "user"
    /\ IsConnectedBegin
    /\ UNCHANGED leaseVars

\* The same of a user who reads it in a callback of the connection, or with all
\* calls answered.
ConnectedSettled == (Sched!After # {} \/ Sched!Known = {}) /\ ConnectedThroughObject

\* A commit or rollback that reports success settles the transactions asked
\* for before it.
AnswerUser ==
    /\ holder # "nobody"
    /\ AfterWork
    /\ unsettled' =
          (unsettled /\ ~(/\ job[inAfter'].kind \in {"commit", "rollback"}
                          /\ ~job[inAfter'].failed
                          /\ \A j \in Sched!Known : job[j].kind # "begin"))
    /\ UNCHANGED <<holder, lease, asker>>

\* Steps of libuv, of the driver and of the server.
Work ==
    /\ holder # "nobody"
    /\ \/ IsConnectedEnd
       \/ WorkBegin
       \/ \E j \in Job :
             \/ ExecuteQuery(j) \/ ExecuteUpdate(j) \/ ExecuteInsert(j) \/ SelectLastInsertId(j)
             \/ BeginTransaction(j) \/ CommitOrRollback(j) \/ EndTransaction(j)
             \/ CallFails(j) \/ Reopen(j) \/ WorkEnd(j)
       \/ AfterWorkDone
       \/ ConnectionBreaks \/ OtherInserts
    /\ UNCHANGED leaseVars

\* connection.release(), of an object that owns the connection; the pool exists.
Release ==
    /\ holder = "user"
    /\ ~mainInDriver
    /\ holder' = "pool"
    /\ UNCHANGED <<vars, lease, asker, unsettled>>

\* The same of a user who has all its answers, except that it may be in the
\* last callback, and has settled its transactions.
ReleaseSettled == ~unsettled /\ Sched!Known \subseteq Sched!After /\ Release

\* Mutant: the pool calls the next user's callback from within release.
LendAtOnce ==
    /\ holder = "pool"
    /\ ~mainInDriver
    /\ lease < MaxLeases
    /\ holder' = "user"
    /\ lease' = lease + 1
    /\ UNCHANGED <<vars, asker, unsettled>>

\* getConnectionCallback: the event loop, in no callback, gives the free
\* connection to the next user in a new MysqlConnection object.
Lend ==
    /\ holder = "pool"
    /\ ~mainInDriver
    /\ inAfter = NoJob
    /\ lease < MaxLeases
    /\ holder' = "user"
    /\ lease' = lease + 1
    /\ UNCHANGED <<vars, asker, unsettled>>

\* The collector takes the object or the pool that owns the connection:
\* ~ConnectionWrapper or ~PoolWrapper deletes the Connection, its scheduler and
\* the driver's connection.
Delete ==
    /\ ~mainInDriver
    /\ holder # "nobody"
    /\ holder' = "nobody"
    /\ session' = Broken(session)
    /\ UNCHANGED <<schedVars, job, calls, m_autoReconnect, begun, mainInDriver, nextId,
                   lease, asker, unsettled>>

\* The same when no task needs the connection.
CollectUnused == Sched!Known = {} /\ Delete

CarefulNext ==
    \/ \E j \in Job, kind \in Kind : AskThroughObject(j, kind)
    \/ ConnectedSettled
    \/ AnswerUser
    \/ Work
    \/ ReleaseSettled
    \/ Lend
    \/ CollectUnused

CarefulSpec == LeaseInit /\ [][CarefulNext]_allVars

\* Any program: the callbacks of the tasks may not refer to the object.
CarelessNext == CarefulNext \/ ConnectedThroughObject \/ Release \/ Delete

CarelessSpec == LeaseInit /\ [][CarelessNext]_allVars

-----------------------------------------------------------------------------
(* Properties *)

\* What a user gets from the pool is as good as a new connection, when every
\* user settles its transactions by what the callbacks told it: the session
\* commits by itself and no change of another user is left uncommitted. This
\* rests on the order of the tasks, on the two driver calls of commit and
\* rollback and on what their errors mean.
CleanHandover == holder = "pool" /\ session.connected =>
    session.autocommit /\ ~session.dirty

\* The callback that runs is one of the present user: nobody is answered
\* after the connection went to somebody else.
AnswersOwnUser == inAfter # NoJob => asker[inAfter] = lease

\* src/Scheduler.h:27-29: "Task::asyncWork() will be called asynchronously in
\* unspecified thread. After it finishes Task::afterAsyncWork will be called in
\* main thread." As long as a task is to run or to be answered, the Connection
\* that it uses, and the scheduler that runs it, exist.
TasksHaveConnection == Sched!Known # {} => holder # "nobody"

=============================================================================
