------------------------------ MODULE Connection ------------------------------
(***************************************************************************)
(* One Connection and the tasks that a MysqlConnection object gives it:    *)
(* execute, fetchAll, fetchRow, beginTransaction, commit, rollback. Each   *)
(* task's asyncWork is one or two calls of the MySQL driver, made on a     *)
(* thread of libuv, one task at a time (m_scheduler(1)); the accessor      *)
(* "connected" calls the driver from the main thread.                      *)
(*                                                                         *)
(* The server's session is external. What is kept of it is what the        *)
(* addon's answers depend on: the autocommit flag, whether there are       *)
(* uncommitted changes, and the last insert id. A driver call may fail     *)
(* without effect, or have its effect and lose the answer with the         *)
(* connection; the connection may break at any time.                       *)
(***************************************************************************)
EXTENDS Integers, Sequences, FiniteSets, Functions

CONSTANTS
    Job,        \* TaskQuery and TaskTransaction objects, reusable
    Threads,    \* threads libuv's pool gives to the connection
    Reconnect,  \* the values of the option reconnect that are considered
    MaxCalls,   \* bound: calls JavaScript makes on the connection
    MaxId,      \* bound: rows inserted, by this session and by others
    NoJob

ASSUME ConnectionAssumption ==
    /\ IsFiniteSet(Job) /\ NoJob \notin Job
    /\ Threads \in Nat \ {0}
    /\ Reconnect \subseteq BOOLEAN
    /\ MaxCalls \in Nat /\ MaxId \in Nat

VARIABLES
    m_concurrent, m_tasks, uvQueue, working, finished, inAfter, \* m_scheduler
    job,            \* per task: kind, number of the call, driver calls made,
                    \* failed (m_exception), row inserted, id read
    calls,          \* calls made by JavaScript
    m_autoReconnect, \* ConnectionOptions::isAutoReconnect
    mainInDriver,   \* the main thread is in isConnected
    begun,          \* the last transaction task that ended is a begin that
                    \* did not fail
    session,        \* the server's side of the connection
    nextId          \* AUTO_INCREMENT of the table

schedVars == <<m_concurrent, m_tasks, uvQueue, working, finished, inAfter>>
vars == <<schedVars, job, calls, m_autoReconnect, mainInDriver, begun, session, nextId>>

Sched == INSTANCE Scheduler WITH
    Task <- Job, MaxConcurrent <- 1, NoTask <- NoJob

\* Mutant: commit and rollback do not restore the autocommit mode.
DriverCallsNoReset ==
    [ fetch     |-> <<"executeQuery">>,
      execute   |-> <<"executeUpdate">>,
      executeId |-> <<"executeUpdate", "selectLastInsertId">>,
      begin     |-> <<"setAutoCommitFalse">>,
      commit    |-> <<"commit">>,
      rollback  |-> <<"rollback">> ]

\* Mutant: beginTransaction calls setAutoCommit(true).
DriverCallsBeginTrue ==
    [ fetch     |-> <<"executeQuery">>,
      execute   |-> <<"executeUpdate">>,
      executeId |-> <<"executeUpdate", "selectLastInsertId">>,
      begin     |-> <<"setAutoCommitTrue">>,
      commit    |-> <<"commit", "setAutoCommitTrue">>,
      rollback  |-> <<"rollback", "setAutoCommitTrue">> ]

\* The driver calls of each kind of task, in order. An execute with the flag
\* fetchLastInsertId runs a second query in the same task; commit and
\* rollback are followed by setAutoCommit(true).
DriverCalls ==
    [ fetch     |-> <<"executeQuery">>,
      execute   |-> <<"executeUpdate">>,
      executeId |-> <<"executeUpdate", "selectLastInsertId">>,
      begin     |-> <<"setAutoCommitFalse">>,
      commit    |-> <<"commit", "setAutoCommitTrue">>,
      rollback  |-> <<"rollback", "setAutoCommitTrue">> ]

Kind == DOMAIN DriverCalls

NewTask(kind, number) ==
    [kind |-> kind, number |-> number, made |-> 0, failed |-> FALSE,
     inserted |-> 0, lastId |-> 0]

NewSession == [connected |-> TRUE, autocommit |-> TRUE, dirty |-> FALSE, lastId |-> 0]

Broken(s) == [s EXCEPT !.connected = FALSE, !.dirty = FALSE]

Init ==
    /\ Sched!Init
    /\ job = [j \in Job |-> NewTask("fetch", 0)]
    /\ calls = 0
    /\ m_autoReconnect \in Reconnect
    /\ mainInDriver = FALSE
    /\ begun = FALSE
    /\ session = NewSession
    /\ nextId = 1

\* A method of the MysqlConnection object adds a task.
Ask(j, kind) ==
    /\ ~mainInDriver
    /\ calls < MaxCalls
    /\ Sched!AddTask(j)
    /\ calls' = calls + 1
    /\ job' = [job EXCEPT ![j] = NewTask(kind, calls + 1)]
    /\ UNCHANGED <<m_autoReconnect, mainInDriver, begun, session, nextId>>

\* connection.connected: isClosed() of the driver, on the main thread.
IsConnectedBegin ==
    /\ ~mainInDriver
    /\ mainInDriver' = TRUE
    /\ UNCHANGED <<schedVars, job, calls, m_autoReconnect, begun, session, nextId>>

IsConnectedEnd ==
    /\ mainInDriver
    /\ mainInDriver' = FALSE
    /\ UNCHANGED <<schedVars, job, calls, m_autoReconnect, begun, session, nextId>>

WorkBegin ==
    /\ Sched!WorkBegin
    /\ UNCHANGED <<job, calls, m_autoReconnect, mainInDriver, begun, session, nextId>>

\* The task on a thread that has a driver call to make.
Busy(j) == j \in working /\ ~job[j].failed /\ job[j].made < Len(DriverCalls[job[j].kind])

NextCall(j) == DriverCalls[job[j].kind][job[j].made + 1]

\* Task j makes driver call c: the server's session becomes s and the task t.
\* The answer comes, or it is lost with the connection and the driver throws.
DriverCall(j, c, s, t) ==
    /\ Busy(j) /\ NextCall(j) = c
    /\ session.connected
    /\ \E lost \in BOOLEAN :
          /\ session' = IF lost THEN Broken(s) ELSE s
          /\ job' = [job EXCEPT ![j] = [t EXCEPT !.made = @ + 1, !.failed = lost]]
    /\ UNCHANGED <<schedVars, calls, m_autoReconnect, mainInDriver, begun>>

\* A statement that changes data: the change is committed at once or not.
Written == [session EXCEPT !.dirty = ~session.autocommit]

ExecuteQuery(j) ==
    DriverCall(j, "executeQuery", session, job[j]) /\ UNCHANGED nextId

ExecuteUpdate(j) ==
    DriverCall(j, "executeUpdate", Written, job[j]) /\ UNCHANGED nextId

\* An executeUpdate that inserts a row with an AUTO_INCREMENT column.
ExecuteInsert(j) ==
    /\ nextId <= MaxId
    /\ DriverCall(j, "executeUpdate", [Written EXCEPT !.lastId = nextId],
                  [job[j] EXCEPT !.inserted = nextId])
    /\ nextId' = nextId + 1

SelectLastInsertId(j) ==
    /\ DriverCall(j, "selectLastInsertId", session,
                  [job[j] EXCEPT !.lastId = session.lastId])
    /\ UNCHANGED nextId

BeginTransaction(j) ==
    /\ DriverCall(j, "setAutoCommitFalse", [session EXCEPT !.autocommit = FALSE], job[j])
    /\ UNCHANGED nextId

CommitOrRollback(j) ==
    /\ \E c \in {"commit", "rollback"} :
          DriverCall(j, c, [session EXCEPT !.dirty = FALSE], job[j])
    /\ UNCHANGED nextId

\* The second call of a commit or rollback; the server commits what is open.
EndTransaction(j) ==
    /\ DriverCall(j, "setAutoCommitTrue",
                  [session EXCEPT !.autocommit = TRUE, !.dirty = FALSE], job[j])
    /\ UNCHANGED nextId

\* A driver call of task j throws and has no effect.
CallFails(j) ==
    /\ Busy(j)
    /\ job' = [job EXCEPT ![j].failed = TRUE]
    /\ UNCHANGED <<schedVars, calls, m_autoReconnect, mainInDriver, begun, session, nextId>>

\* The driver, asked to make a call on a broken connection, opens a new session.
Reopen(j) ==
    /\ Busy(j)
    /\ m_autoReconnect /\ ~session.connected
    /\ session' = NewSession
    /\ UNCHANGED <<schedVars, job, calls, m_autoReconnect, mainInDriver, begun, nextId>>

\* asyncWork returns.
WorkEnd(j) ==
    /\ ~Busy(j)
    /\ Sched!WorkEnd(j)
    /\ begun' = CASE job[j].kind = "begin" /\ ~job[j].failed -> TRUE
                  [] job[j].kind \in {"commit", "rollback"} -> FALSE
                  [] OTHER -> begun
    /\ UNCHANGED <<job, calls, m_autoReconnect, mainInDriver, session, nextId>>

\* afterAsyncWork: the JavaScript callback of the task runs.
AfterWork ==
    /\ ~mainInDriver
    /\ Sched!AfterWork
    /\ UNCHANGED <<job, calls, m_autoReconnect, mainInDriver, begun, session, nextId>>

AfterWorkDone ==
    /\ ~mainInDriver
    /\ Sched!AfterWorkDone
    /\ job' = [job EXCEPT ![inAfter] = NewTask("fetch", 0)]
    /\ UNCHANGED <<calls, m_autoReconnect, mainInDriver, begun, session, nextId>>

\* The connection breaks; the server rolls the open transaction back.
ConnectionBreaks ==
    /\ session.connected
    /\ session' = Broken(session)
    /\ UNCHANGED <<schedVars, job, calls, m_autoReconnect, mainInDriver, begun, nextId>>

\* Another session inserts a row.
OtherInserts ==
    /\ nextId <= MaxId
    /\ nextId' = nextId + 1
    /\ UNCHANGED <<schedVars, job, calls, m_autoReconnect, mainInDriver, begun, session>>

Next ==
    \/ \E j \in Job, kind \in Kind : Ask(j, kind)
    \/ IsConnectedBegin \/ IsConnectedEnd
    \/ WorkBegin
    \/ \E j \in Job :
          \/ ExecuteQuery(j) \/ ExecuteUpdate(j) \/ ExecuteInsert(j) \/ SelectLastInsertId(j)
          \/ BeginTransaction(j) \/ CommitOrRollback(j) \/ EndTransaction(j)
          \/ CallFails(j) \/ Reopen(j) \/ WorkEnd(j)
    \/ AfterWork \/ AfterWorkDone
    \/ ConnectionBreaks \/ OtherInserts

Safe == Init /\ [][Next]_vars

-----------------------------------------------------------------------------
(* Properties *)

TypeOK ==
    /\ Sched!TypeOK
    /\ job \in [Job -> [kind : Kind, number : 0..MaxCalls, made : 0..2, failed : BOOLEAN,
                        inserted : 0..MaxId, lastId : 0..MaxId]]
    /\ calls \in 0..MaxCalls
    /\ m_autoReconnect \in BOOLEAN
    /\ mainInDriver \in BOOLEAN
    /\ begun \in BOOLEAN
    /\ session \in [connected : BOOLEAN, autocommit : BOOLEAN, dirty : BOOLEAN,
                    lastId : 0..MaxId]
    /\ nextId \in 1..MaxId + 1

\* Tasks whose asyncWork returned and that did not fail.
Succeeded == {j \in Range(finished) \cup Sched!After : ~job[j].failed}

\* README.md: with fetchLastInsertId the callback gets "a Number of last
\* inserted id". The id is the one of the row that this very call inserted:
\* no task of the connection comes between the two queries of the task. A
\* driver that reconnects between them makes the id 0, never another row's.
OwnInsertId == \A j \in Succeeded :
    job[j].kind = "executeId" /\ job[j].inserted # 0
        => job[j].lastId = job[j].inserted \/ (m_autoReconnect /\ job[j].lastId = 0)

\* Callbacks of a connection run in the order in which its methods were called.
AnsweredInOrder == \A j \in Sched!Known :
    inAfter # NoJob /\ j # inAfter => job[inAfter].number < job[j].number

\* When the callback of a commit or a rollback reports no error, nothing is
\* left uncommitted and the session commits by itself again: the two driver
\* calls of the task were made, and no later task has run.
EndedTransaction == \A j \in Succeeded :
    job[j].kind \in {"commit", "rollback"} /\ session.connected
        => session.autocommit /\ ~session.dirty

\* The server executes the statement of task j.
Updates(j) ==
    /\ job[j].kind \in {"execute", "executeId"}
    /\ job[j].made = 0 /\ job'[j].made = 1

\* Without reconnection, a statement that the server executes after a begin
\* that reported no error, and before a commit or rollback, is left uncommitted.
CoversWithoutReconnect == [][\A j \in Job :
    ~m_autoReconnect /\ begun /\ Updates(j) /\ session'.connected => session'.dirty]_vars

\* README.md: "All queries made after beginTransaction can be rolled back".
\* A statement that the server executes after a begin is left uncommitted,
\* whatever the option reconnect.
TransactionCovers == [][\A j \in Job :
    begun /\ Updates(j) /\ session'.connected => session'.dirty]_vars

\* src/Connection.h:53-56: "After this calls setAutoCommit(true), so you need to
\* call beginTransaction() again if you want new transaction." Without a begin
\* since the last commit or rollback, the session commits by itself.
NoTransactionLeft == ~begun /\ working = {} /\ session.connected => session.autocommit

\* src/Connection.cpp:23: "Use one thread per connection". The driver's
\* connection is never used by two threads. The accessor connected does not wait
\* for a task in progress, so this is for programs that read it in a callback of
\* the connection, which may have queued tasks by then, or with all calls answered.
OneThreadInDriver == mainInDriver => \A j \in Job : ~Busy(j)

=============================================================================
