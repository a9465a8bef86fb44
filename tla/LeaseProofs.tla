----------------------------- MODULE LeaseProofs -----------------------------
(***************************************************************************)
(* Proofs about Lease, for any number of users. A connection that is lent  *)
(* is a Connection: what ConnectionProofs shows holds of it too. LeaseInv  *)
(* relates the user, its tasks and the session.                            *)
(***************************************************************************)
EXTENDS Lease, ConnectionProofs

AllInv == SchedProofs!Inv /\ Inv

LEMMA KnownTasks ==
    /\ Sched!Known = Range(m_tasks) \cup InFlight
    /\ Sched!Known' = Range(m_tasks') \cup InFlight'
BY DEF Sched!Known, Sched!InFlight, Sched!Range, Sched!After, Range, InFlight, Ended

LEMMA AllInit == LeaseInit => AllInv
<1>1. Init => SchedProofs!Inv
    BY SchedAssumption, SchedProofs!InitInv DEF Init, Sched!Init, SchedProofs!Init
<1>. QED  BY <1>1, InitInv DEF LeaseInit, AllInv

\* To delete the connection is, for its session, to break.
LEMMA LeaseStep == AllInv /\ [CarelessNext]_allVars => [Next]_vars
<1>. SUFFICES ASSUME AllInv, [CarelessNext]_allVars PROVE [Next]_vars
    OBVIOUS
<1>1. CASE UNCHANGED allVars
    BY <1>1 DEF allVars
<1>2. ASSUME NEW j \in Job, NEW kind \in Kind, AskThroughObject(j, kind) PROVE Next
    BY <1>2 DEF AskThroughObject, Next
<1>3. CASE ConnectedThroughObject \/ AnswerUser \/ Work
    BY <1>3 DEF ConnectedThroughObject, AnswerUser, Work, Next
<1>4. CASE Release \/ Lend
    BY <1>4 DEF Release, Lend
<1>5. ASSUME Delete PROVE [Next]_vars
    <2>1. /\ UNCHANGED <<schedVars, job, calls, m_autoReconnect, begun, mainInDriver, nextId>>
          /\ session' = Broken(session)
        BY <1>5 DEF Delete
    <2>2. CASE session.connected
        BY <2>1, <2>2 DEF ConnectionBreaks, Next
    <2>3. CASE ~session.connected
        <3>1. session \in SessionRecord /\ ~session.dirty
            BY <2>3 DEF AllInv, Inv, Types, Transactions
        <3>2. Broken(session) = session
            BY <2>3, <3>1 DEF Broken, SessionRecord
        <3>. QED  BY <2>1, <3>2 DEF vars
    <2>. QED  BY <2>2, <2>3
<1>. QED
    BY <1>1, <1>2, <1>3, <1>4, <1>5 DEF CarelessNext, CarefulNext, ConnectedSettled,
       ReleaseSettled, CollectUnused

LEMMA AllNext == AllInv /\ [CarelessNext]_allVars => AllInv'
<1>. SUFFICES ASSUME AllInv, [Next]_vars PROVE AllInv'
    BY LeaseStep
<1>1. SchedProofs!Inv'
    BY SchedAssumption, SchedProofs!NextInv, SchedStep DEF AllInv
<1>2. Places /\ Places'
    <2>1. Places
        BY InvPlaces DEF AllInv
    <2>2. Places'
        <3>1. SchedProofs!Inv' => Places'
            BY InvPlaces, PTL
        <3>. QED  BY <1>1, <3>1
    <2>. QED  BY <2>1, <2>2
<1>. QED  BY <1>1, <1>2, NextInv DEF AllInv

LEMMA AllInvariant == CarelessSpec => []AllInv
BY AllInit, AllNext, PTL DEF CarelessSpec

\* A connection that is lent behaves as a Connection, whatever its users and the
\* collector do: src/PoolWrapper.cpp:41-49, src/ConnectionWrapper.cpp:246-262.
THEOREM LeaseIsConnection == CarelessSpec => Safe
<1>1. LeaseInit => Init
    BY DEF LeaseInit
<1>. QED  BY <1>1, LeaseStep, AllInvariant, PTL DEF CarelessSpec, Safe

\* So a user who releases with calls that are not answered, or loses the object,
\* disturbs neither the order of the callbacks, nor the ids of the inserted rows,
\* nor what the success of a commit or rollback means, for itself or for the
\* next user: src/Connection.cpp:93-95, src/TaskQueryExecute.cpp:10-59.
THEOREM CarelessUsersKeepAnswers ==
    CarelessSpec => [](AnsweredInOrder /\ OwnInsertId /\ EndedTransaction)
BY LeaseIsConnection, AnswersInOrder, IdsAreOwn, TransactionsEnd, PTL

\* The same of transactions without reconnection: src/TaskTransaction.cpp:11-61.
THEOREM CarelessUsersKeepTransactions == CarelessSpec => CoversWithoutReconnect
BY LeaseIsConnection, TransactionsCover, PTL

-----------------------------------------------------------------------------
(* Users who wait for their answers.                                       *)

\* An object is released when its tasks are answered, except that the last
\* callback may run, and collected when they all are; a pool is collected in no
\* callback of its free connection.
AnswersFirst ==
    /\ Release => Sched!Known \subseteq Sched!After
    /\ Delete /\ holder = "user" => Sched!Known = {}
    /\ Delete /\ holder = "pool" => inAfter = NoJob

\* A free connection has no task, but for the one whose callback released it.
Free ==
    /\ holder = "pool" => Sched!Known \subseteq Sched!After
    /\ holder \in {"user", "pool", "nobody"}
    /\ TasksHaveConnection

LEMMA FreeQueues ==
    ASSUME Places, Sched!Known \subseteq Sched!After
    PROVE  m_tasks = <<>> /\ uvQueue = <<>> /\ working = {} /\ finished = <<>>
<1>1. Range(m_tasks) \cup InFlight \subseteq Sched!After
    BY KnownTasks
<1>2. /\ Range(m_tasks) = {} /\ Range(uvQueue) = {} /\ working = {} /\ Range(finished) = {}
    BY <1>1 DEF Places, InFlight, Ended
<1>3. \A s \in Seq(Job) : Range(s) = {} => s = <<>>
    <2>. SUFFICES ASSUME NEW s \in Seq(Job), Range(s) = {} PROVE s = <<>>
        OBVIOUS
    <2>1. s # <<>> => Head(s) \in Range(s)
        BY TailOf
    <2>. QED  BY <2>1
<1>. QED  BY <1>2, <1>3 DEF Places

LEMMA UnchangedTasks ==
    ASSUME UNCHANGED schedVars
    PROVE  Sched!Known' = Sched!Known /\ Sched!After' = Sched!After
BY KnownTasks DEF schedVars, InFlight, Ended, Sched!After

LEMMA FreeWork ==
    ASSUME Places, Sched!Known \subseteq Sched!After, Work
    PROVE  Sched!Known' \subseteq Sched!After'
<1>1. m_tasks = <<>> /\ uvQueue = <<>> /\ working = {} /\ finished = <<>>
    BY FreeQueues
<1>2. ~WorkBegin /\ \A j \in Job : ~WorkEnd(j)
    BY <1>1 DEF WorkBegin, Sched!WorkBegin, WorkEnd, Sched!WorkEnd
<1>3. CASE AfterWorkDone
    <2>1. UNCHANGED <<m_tasks, uvQueue, working, finished>> /\ inAfter' = NoJob
        BY <1>1, <1>3 DEF AfterWorkDone, Sched!AfterWorkDone, Sched!RunNextTask
    <2>. QED  BY <1>1, <2>1, KnownTasks DEF InFlight, Ended, Sched!After, Range
<1>4. CASE UNCHANGED schedVars
    BY <1>4, UnchangedTasks
<1>5. AfterWorkDone \/ UNCHANGED schedVars
    BY <1>2 DEF Work, IsConnectedEnd, ExecuteQuery, ExecuteUpdate, ExecuteInsert,
       SelectLastInsertId, BeginTransaction, CommitOrRollback, EndTransaction, DriverCall,
       CallFails, Reopen, ConnectionBreaks, OtherInserts
<1>. QED  BY <1>3, <1>4, <1>5

LEMMA FreeNext ==
    Places /\ Free /\ [CarelessNext]_allVars /\ [AnswersFirst]_allVars => Free'
<1>. SUFFICES ASSUME Places, Free, [CarelessNext]_allVars, [AnswersFirst]_allVars
              PROVE  Free'
    OBVIOUS
<1>1. CASE UNCHANGED allVars
    BY <1>1, UnchangedTasks DEF allVars, vars, leaseVars, Free, TasksHaveConnection
<1>2. ASSUME NEW j \in Job, NEW kind \in Kind, AskThroughObject(j, kind) PROVE Free'
    BY <1>2 DEF AskThroughObject, Free, TasksHaveConnection
<1>3. CASE ConnectedThroughObject
    BY <1>3 DEF ConnectedThroughObject, leaseVars, Free, TasksHaveConnection
<1>4. CASE AnswerUser
    <2>1. holder' = holder /\ holder # "nobody" /\ finished # <<>>
        BY <1>4 DEF AnswerUser, AfterWork, Sched!AfterWork
    <2>2. holder # "pool"
        BY <2>1, FreeQueues DEF Free
    <2>. QED  BY <2>1, <2>2 DEF Free, TasksHaveConnection
<1>5. CASE Work
    BY <1>5, FreeWork DEF Work, leaseVars, Free, TasksHaveConnection
<1>6. ASSUME Release PROVE Free'
    <2>1. holder' = "pool" /\ holder = "user" /\ UNCHANGED schedVars
        BY <1>6 DEF Release, vars
    <2>2. Sched!Known \subseteq Sched!After
        BY <1>6, <2>1 DEF AnswersFirst, allVars, leaseVars
    <2>. QED  BY <2>1, <2>2, UnchangedTasks DEF Free, TasksHaveConnection
<1>7. CASE Lend
    BY <1>7 DEF Lend, Free, TasksHaveConnection
<1>8. ASSUME Delete PROVE Free'
    <2>1. holder' = "nobody" /\ holder # "nobody" /\ UNCHANGED schedVars
        BY <1>8 DEF Delete
    <2>2. AnswersFirst
        BY <2>1 DEF allVars, leaseVars
    <2>3. CASE holder = "pool"
        <3>1. Sched!Known \subseteq Sched!After /\ inAfter = NoJob
            BY <1>8, <2>2, <2>3 DEF AnswersFirst, Free
        <3>. QED  BY <2>1, <3>1, UnchangedTasks DEF Sched!After, Free, TasksHaveConnection
    <2>4. CASE holder = "user"
        BY <1>8, <2>1, <2>2, <2>4, UnchangedTasks DEF AnswersFirst, Free, TasksHaveConnection
    <2>. QED  BY <2>1, <2>3, <2>4 DEF Free
<1>. QED
    BY <1>1, <1>2, <1>3, <1>4, <1>5, <1>6, <1>7, <1>8 DEF CarelessNext, CarefulNext,
       ConnectedSettled, ReleaseSettled, CollectUnused

\* src/Scheduler.h:27-29: each task is run and answered. Its Connection is there
\* when users wait for their answers before they release or drop the object,
\* whatever else they do: nothing that a task still needs is left when the
\* connection goes back to the pool, so that the pool may be collected as soon
\* as no callback runs.
THEOREM AnsweredFirstIsSafe == CarelessSpec /\ [][AnswersFirst]_allVars => []TasksHaveConnection
<1>1. LeaseInit => Free
    BY DEF LeaseInit, Free, TasksHaveConnection
<1>2. Free => TasksHaveConnection
    BY DEF Free
<1>3. AllInv => Places
    BY InvPlaces DEF AllInv
<1>. QED  BY <1>1, <1>2, <1>3, FreeNext, AllInvariant, PTL DEF CarelessSpec

-----------------------------------------------------------------------------
(* Careful users.                                                          *)

LEMMA CarefulIsCareless == CarefulSpec => CarelessSpec
<1>1. [CarefulNext]_allVars => [CarelessNext]_allVars
    BY DEF CarelessNext
<1>. QED  BY <1>1, PTL DEF CarefulSpec, CarelessSpec

LeaseInv ==
    /\ \A j \in Sched!Known : asker[j] = lease
    /\ (\E j \in Sched!Known : job[j].kind = "begin") => unsettled
    /\ session.connected /\ ~session.autocommit => unsettled
    /\ holder = "pool" => ~unsettled /\ Sched!Known \subseteq Sched!After
    /\ asker \in [Job -> Lessee]
    /\ lease \in Lessee

LEMMA LeaseInvInit == LeaseInit => LeaseInv
<1>. SUFFICES ASSUME LeaseInit PROVE LeaseInv
    OBVIOUS
<1>1. Sched!Known = {}
    BY KnownTasks DEF LeaseInit, Init, Sched!Init, InFlight, Ended, Sched!After, Range
<1>. QED  BY <1>1, LeaseAssumption DEF LeaseInit, LeaseInv, Init, NewSession, Lessee

LEMMA LeaseAsk ==
    ASSUME Places, Inv, LeaseInv, NEW j \in Job, NEW kind \in Kind, AskThroughObject(j, kind)
    PROVE  LeaseInv'
<1>1. /\ holder = "user" /\ UNCHANGED <<holder, lease, session>>
      /\ asker' = [asker EXCEPT ![j] = lease]
      /\ unsettled' = (unsettled \/ kind = "begin")
      /\ job' = [job EXCEPT ![j] = NewTask(kind, calls + 1)]
    BY DEF AskThroughObject, Ask
<1>2. Sched!Known' \subseteq Sched!Known \cup {j}
    <2>1. /\ UNCHANGED <<working, finished, inAfter>>
          /\ \/ m_tasks' = Append(m_tasks, j) /\ UNCHANGED uvQueue
             \/ m_tasks' = m_tasks /\ uvQueue' = Append(uvQueue, j)
        BY DEF AskThroughObject, Ask, Sched!AddTask, Sched!RunTask
    <2>2. /\ Range(m_tasks') \subseteq Range(m_tasks) \cup {j}
          /\ Range(uvQueue') \subseteq Range(uvQueue) \cup {j}
        BY <2>1, RangeAppend DEF Places
    <2>3. Sched!Known' = Range(m_tasks') \cup InFlight'
        BY KnownTasks
    <2>4. Ended' = Ended
        BY <2>1 DEF Ended, Sched!After
    <2>. QED  BY <2>1, <2>2, <2>3, <2>4, KnownTasks DEF InFlight
<1>3. Sched!Known \subseteq Job
    BY KnownTasks, TasksAreJobs
<1>4. /\ job'[j].kind = kind
      /\ \A x \in Job : x # j => job'[x] = job[x]
    BY <1>1 DEF Inv, Types, NewTask
<1>5. /\ asker' \in [Job -> Lessee] /\ asker'[j] = lease
      /\ \A x \in Job : x # j => asker'[x] = asker[x]
    BY <1>1 DEF LeaseInv
<1>6. \A x \in Sched!Known' : asker'[x] = lease'
    BY <1>1, <1>2, <1>3, <1>5 DEF LeaseInv
<1>7. (\E x \in Sched!Known' : job'[x].kind = "begin") => unsettled'
    BY <1>1, <1>2, <1>3, <1>4 DEF LeaseInv
<1>. QED  BY <1>1, <1>5, <1>6, <1>7 DEF LeaseInv

\* Steps of the scheduler and the driver bring no new task, make no task a
\* begin, and only a begin takes the session out of autocommit mode.
LEMMA LeaseWork ==
    ASSUME Places, Inv, LeaseInv, Work
    PROVE  LeaseInv'
<1>1. UNCHANGED leaseVars
    BY DEF Work
<1>2. Sched!Known' = Range(m_tasks') \cup InFlight'
    BY KnownTasks
<1>3. ASSUME UNCHANGED schedVars
      PROVE  Sched!Known' = Sched!Known /\ Sched!After' = Sched!After
    BY <1>3, UnchangedTasks
<1>4. ASSUME Sched!Known' \subseteq Sched!Known,
             \A x \in Job : job'[x].kind = "begin" => job[x].kind = "begin",
             session'.connected /\ ~session'.autocommit => unsettled,
             holder = "pool" => Sched!Known' \subseteq Sched!After'
      PROVE  LeaseInv'
    <2>1. Sched!Known \subseteq Job
        BY KnownTasks, TasksAreJobs
    <2>. QED  BY <1>1, <1>4, <2>1 DEF LeaseInv, leaseVars
<1>5. holder = "pool" => m_tasks = <<>> /\ uvQueue = <<>> /\ working = {} /\ finished = <<>>
    BY FreeQueues DEF LeaseInv
<1>6. ASSUME UNCHANGED <<schedVars, job>>,
             session'.connected /\ ~session'.autocommit => unsettled
      PROVE  LeaseInv'
    BY <1>3, <1>4, <1>6 DEF LeaseInv
<1>7. CASE IsConnectedEnd \/ OtherInserts
    BY <1>6, <1>7 DEF IsConnectedEnd, OtherInserts, LeaseInv
<1>8. CASE ConnectionBreaks
    BY <1>6, <1>8, BrokenType DEF ConnectionBreaks, LeaseInv, Inv, Types
<1>9. ASSUME NEW j \in Job, Reopen(j) PROVE LeaseInv'
    BY <1>6, <1>9 DEF Reopen, NewSession
<1>10. CASE WorkBegin
    <2>1. uvQueue # <<>> /\ UNCHANGED <<m_tasks, job, session>>
        BY <1>10 DEF WorkBegin, Sched!WorkBegin
    <2>2. PICK h \in Range(uvQueue) : working' = working \cup {h}
        BY <1>10, TailOf DEF WorkBegin, Sched!WorkBegin, Places
    <2>3. Range(uvQueue') \subseteq Range(uvQueue) /\ Ended' = Ended
        BY <1>10, TailOf DEF WorkBegin, Sched!WorkBegin, Places, Ended, Sched!After
    <2>4. Sched!Known' \subseteq Sched!Known
        BY <2>1, <2>2, <2>3, KnownTasks DEF InFlight
    <2>. QED  BY <1>4, <1>5, <2>1, <2>4 DEF LeaseInv
<1>11. ASSUME NEW j \in Job, WorkEnd(j) PROVE LeaseInv'
    <2>1. j \in working /\ working' = working \ {j} /\ UNCHANGED <<m_tasks, uvQueue, job, session>>
          /\ finished' = Append(finished, j) /\ inAfter' = inAfter
        BY <1>11 DEF WorkEnd, Sched!WorkEnd
    <2>2. Ended' = Ended \cup {j}
        BY <2>1, RangeAppend DEF Ended, Sched!After, Places
    <2>3. Sched!Known' \subseteq Sched!Known
        BY <2>1, <2>2, KnownTasks DEF InFlight
    <2>. QED  BY <1>4, <1>5, <2>1, <2>3 DEF LeaseInv
<1>12. CASE AfterWorkDone
    <2>1. /\ UNCHANGED <<working, finished, session>> /\ inAfter' = NoJob /\ inAfter # NoJob
          /\ job' = [job EXCEPT ![inAfter] = NewTask("fetch", 0)]
          /\ \/ /\ m_tasks # <<>> /\ m_tasks' = Tail(m_tasks)
                /\ uvQueue' = Append(uvQueue, Head(m_tasks))
             \/ m_tasks = <<>> /\ UNCHANGED <<m_tasks, uvQueue>>
             \/ ~Sched!HasRoom(m_concurrent - 1) /\ UNCHANGED <<m_tasks, uvQueue>>
        BY <1>12 DEF AfterWorkDone, Sched!AfterWorkDone, Sched!RunNextTask, Sched!RunTask
    <2>2. Ended' \subseteq Ended /\ inAfter \in Job
        BY <2>1 DEF Ended, Sched!After, Places
    <2>3. ASSUME m_tasks # <<>>, m_tasks' = Tail(m_tasks),
                 uvQueue' = Append(uvQueue, Head(m_tasks))
          PROVE  Sched!Known' \subseteq Sched!Known
        <3>1. Head(m_tasks) \in Range(m_tasks) /\ Range(Tail(m_tasks)) \subseteq Range(m_tasks)
              /\ Range(m_tasks) \subseteq Job
            BY <2>3, TailOf, TasksAreJobs DEF Places
        <3>2. Range(uvQueue') = Range(uvQueue) \cup {Head(m_tasks)}
            BY <2>3, <3>1, RangeAppend DEF Places
        <3>. QED  BY <2>1, <2>2, <2>3, <3>1, <3>2, KnownTasks DEF InFlight
    <2>4. ASSUME UNCHANGED <<m_tasks, uvQueue>> PROVE Sched!Known' \subseteq Sched!Known
        BY <2>1, <2>2, <2>4, KnownTasks DEF InFlight
    <2>5. \A x \in Job : job'[x].kind = "begin" => job[x].kind = "begin"
        BY <2>1, <2>2 DEF Inv, Types, NewTask
    <2>6. holder = "pool" => Sched!Known' \subseteq Sched!After'
        BY FreeWork DEF LeaseInv
    <2>. QED  BY <1>4, <2>1, <2>3, <2>4, <2>5, <2>6 DEF LeaseInv
<1>13. ASSUME NEW j \in Job,
              \/ ExecuteQuery(j) \/ ExecuteUpdate(j) \/ ExecuteInsert(j) \/ SelectLastInsertId(j)
              \/ BeginTransaction(j) \/ CommitOrRollback(j) \/ EndTransaction(j)
       PROVE  LeaseInv'
    <2>1. /\ UNCHANGED schedVars /\ \A x \in Job : job'[x].kind = job[x].kind
          /\ session.connected
          /\ session'.connected => \/ session'.autocommit
                                   \/ session'.autocommit = session.autocommit
                                   \/ job[j].kind = "begin" /\ j \in working
        BY <1>13, DriverKeeps
    <2>2. job[j].kind = "begin" /\ j \in working => unsettled
        BY KnownTasks DEF LeaseInv, InFlight
    <2>3. session'.connected /\ ~session'.autocommit => unsettled
        BY <2>1, <2>2 DEF LeaseInv
    <2>. QED  BY <1>3, <1>4, <2>1, <2>3 DEF LeaseInv
<1>14. ASSUME NEW j \in Job, CallFails(j) PROVE LeaseInv'
    <2>1. UNCHANGED <<schedVars, session>> /\ job' = [job EXCEPT ![j].failed = TRUE]
        BY <1>14 DEF CallFails
    <2>2. \A x \in Job : job'[x].kind = job[x].kind
        BY <2>1 DEF Inv, Types, TaskRecord
    <2>. QED  BY <1>3, <1>4, <2>1, <2>2 DEF LeaseInv
<1>. QED
    BY <1>7, <1>8, <1>9, <1>10, <1>11, <1>12, <1>13, <1>14 DEF Work

\* The callback of a commit or rollback settles only what EndedTransaction
\* says is settled.
LEMMA LeaseAnswer ==
    ASSUME Places, Inv, Places', Inv', LeaseInv, AnswerUser
    PROVE  LeaseInv'
<1>1. /\ UNCHANGED <<holder, lease, asker, job, session, m_tasks, uvQueue, working>>
      /\ inAfter = NoJob /\ finished # <<>>
      /\ inAfter' = Head(finished) /\ finished' = Tail(finished)
    BY DEF AnswerUser, AfterWork, Sched!AfterWork
<1>2. Ended' \subseteq Ended /\ inAfter' \in Range(finished)
    BY <1>1, TailOf DEF Places, Ended, Sched!After
<1>3. Sched!Known' \subseteq Sched!Known
    BY <1>1, <1>2, KnownTasks DEF InFlight
<1>4. holder # "pool"
    <2>1. inAfter' \in Sched!Known /\ Sched!After = {}
        BY <1>1, <1>2, KnownTasks DEF InFlight, Ended, Sched!After
    <2>. QED  BY <2>1 DEF LeaseInv
<1>. DEFINE settles == /\ job[inAfter'].kind \in {"commit", "rollback"}
                       /\ ~job[inAfter'].failed
                       /\ \A j \in Sched!Known : job[j].kind # "begin"
<1>5. unsettled' = (unsettled /\ ~settles)
    BY DEF AnswerUser
<1>6. settles /\ session.connected => session.autocommit
    <2>. SUFFICES ASSUME settles, session.connected PROVE session.autocommit
        OBVIOUS
    <2>1. inAfter' \in Job /\ inAfter' \in Ended
        BY <1>2, TasksAreJobs DEF Ended
    <2>2. job[inAfter'].made = 2
        BY <2>1, CallsOfKinds DEF Inv, Progress, Total, Types, TaskRecord
    <2>. QED  BY <2>1, <2>2 DEF Inv, Transactions, Ends
<1>. HIDE DEF settles
<1>7. settles => \A j \in Sched!Known : job[j].kind # "begin"
    BY DEF settles
<1>. QED  BY <1>1, <1>3, <1>4, <1>5, <1>6, <1>7 DEF LeaseInv

LEMMA LeaseHands ==
    ASSUME Places, Inv, LeaseInv, ReleaseSettled \/ Lend \/ CollectUnused \/ ConnectedThroughObject
    PROVE  LeaseInv'
<1>1. CASE ReleaseSettled
    <2>1. Sched!Known' = Sched!Known /\ Sched!After' = Sched!After
        BY <1>1, KnownTasks DEF ReleaseSettled, Release, vars, schedVars, InFlight, Ended, Sched!After
    <2>. QED  BY <1>1, <2>1 DEF ReleaseSettled, Release, vars, LeaseInv
<1>2. CASE Lend
    <2>1. Sched!Known' = Sched!Known
        BY <1>2, KnownTasks DEF Lend, vars, schedVars, InFlight, Ended, Sched!After
    <2>2. Sched!Known = {}
        BY <1>2 DEF Lend, LeaseInv, Sched!After
    <2>3. lease' \in Lessee
        BY <1>2, LeaseAssumption DEF Lend, LeaseInv, Lessee
    <2>. QED  BY <1>2, <2>1, <2>2, <2>3 DEF Lend, vars, LeaseInv
<1>3. CASE CollectUnused
    <2>1. Sched!Known' = {} /\ Sched!Known = {}
        BY <1>3, KnownTasks DEF CollectUnused, Delete, schedVars, InFlight, Ended, Sched!After
    <2>2. ~session'.connected
        BY <1>3, BrokenType DEF CollectUnused, Delete, Inv, Types
    <2>. QED  BY <1>3, <2>1, <2>2 DEF CollectUnused, Delete, LeaseInv
<1>4. CASE ConnectedThroughObject
    <2>1. Sched!Known' = Sched!Known /\ Sched!After' = Sched!After
        BY <1>4, KnownTasks DEF ConnectedThroughObject, IsConnectedBegin, schedVars, InFlight,
           Ended, Sched!After
    <2>. QED  BY <1>4, <2>1 DEF ConnectedThroughObject, IsConnectedBegin, leaseVars, LeaseInv
<1>. QED  BY <1>1, <1>2, <1>3, <1>4

LEMMA LeaseInvNext ==
    Places /\ Places' /\ Inv /\ Inv' /\ LeaseInv /\ [CarefulNext]_allVars => LeaseInv'
<1>1. LeaseInv /\ UNCHANGED allVars => LeaseInv'
    BY KnownTasks DEF allVars, vars, schedVars, leaseVars, LeaseInv, InFlight, Ended, Sched!After
<1>. QED  BY <1>1, LeaseAsk, LeaseWork, LeaseAnswer, LeaseHands DEF CarefulNext, ConnectedSettled

LEMMA LeaseInvariant == CarefulSpec => [](Places /\ Inv /\ LeaseInv)
<1>1. CarefulSpec => []AllInv
    BY CarefulIsCareless, AllInvariant, PTL
<1>2. AllInv => Places /\ Inv
    BY InvPlaces DEF AllInv
<1>. QED  BY <1>1, <1>2, LeaseInvInit, LeaseInvNext, PTL DEF CarefulSpec

\* What a careful user gives back is as good as new: src/PoolWrapper.cpp:41-49.
THEOREM HandoversAreClean == CarefulSpec => []CleanHandover
<1>1. Places /\ Inv /\ LeaseInv => CleanHandover
    BY DEF Inv, Transactions, LeaseInv, CleanHandover
<1>. QED  BY <1>1, LeaseInvariant, PTL

\* No answer goes to a later user: src/PoolWrapper.cpp:152-159.
THEOREM AnswersAreOwn == CarefulSpec => []AnswersOwnUser
<1>1. Places /\ Inv /\ LeaseInv => AnswersOwnUser
    BY KnownTasks DEF LeaseInv, AnswersOwnUser, InFlight, Ended, Sched!After
<1>. QED  BY <1>1, LeaseInvariant, PTL

\* A careful user calls connected with nothing at work, and what the callback in
\* which it does so asks for is not started before it returns: the driver is
\* entered by one thread at a time (src/Connection.cpp:23,
\* src/ConnectionWrapper.cpp:295-306).
THEOREM CarefulUsersStayAlone == CarefulSpec => []OneThreadInDriver
<1>1. [CarefulNext]_allVars => [IsConnectedBegin => Sched!After # {} \/ Sched!Known = {}]_vars
    <2>. SUFFICES ASSUME [CarefulNext]_allVars, IsConnectedBegin
                  PROVE  Sched!After # {} \/ Sched!Known = {}
        OBVIOUS
    <2>1. ~mainInDriver /\ mainInDriver'
        BY DEF IsConnectedBegin
    <2>2. ~UNCHANGED allVars
        BY <2>1 DEF allVars, vars
    <2>3. \A j \in Job, kind \in Kind : ~AskThroughObject(j, kind)
        BY <2>1 DEF AskThroughObject, Ask
    <2>4. ~AnswerUser /\ ~ReleaseSettled /\ ~Lend /\ ~CollectUnused
        BY <2>1 DEF AnswerUser, AfterWork, ReleaseSettled, Release, Lend, CollectUnused, Delete,
           vars
    <2>5. ~Work
        BY <2>1 DEF Work, IsConnectedEnd, WorkBegin, ExecuteQuery, ExecuteUpdate, ExecuteInsert,
           SelectLastInsertId, BeginTransaction, CommitOrRollback, EndTransaction, DriverCall,
           CallFails, Reopen, WorkEnd, AfterWorkDone, ConnectionBreaks, OtherInserts
    <2>. QED  BY <2>2, <2>3, <2>4, <2>5 DEF CarefulNext, ConnectedSettled
<1>. QED  BY <1>1, CarefulIsCareless, LeaseIsConnection, ConnectedInCallbacks, PTL DEF CarefulSpec

=============================================================================
