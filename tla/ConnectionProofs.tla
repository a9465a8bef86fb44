--------------------------- MODULE ConnectionProofs ---------------------------
(***************************************************************************)
(* Proofs about Connection, for any set of tasks, any number of threads    *)
(* and calls, and both values of the option reconnect. The scheduler in it *)
(* is an instance of Scheduler with one place: SchedulerProofs gives that  *)
(* at most one task is in flight (Places). Inv adds what the task in       *)
(* flight has done to the session.                                         *)
(***************************************************************************)
EXTENDS Connection, FiniteSetTheorems, SequenceTheorems, TLAPS

SchedProofs == INSTANCE SchedulerProofs WITH
    Task <- Job, MaxConcurrent <- 1, NoTask <- NoJob

Ended == Range(finished) \cup Sched!After

InFlight == Range(uvQueue) \cup working \cup Ended

\* Where the tasks are.
Places ==
    /\ m_tasks \in Seq(Job) /\ uvQueue \in Seq(Job) /\ finished \in Seq(Job)
    /\ working \subseteq Job /\ inAfter \in Job \cup {NoJob}
    /\ \A a, b \in InFlight : a = b
    /\ Range(m_tasks) \cap InFlight = {}
    /\ Range(uvQueue) \cap (working \cup Ended) = {}
    /\ working \cap Ended = {}
    /\ Range(finished) \cap Sched!After = {}
    /\ m_concurrent = 0 => InFlight = {} /\ m_tasks = <<>>
    /\ Sched!HasRoom(m_concurrent) => m_concurrent = 0

TaskRecord ==
    [kind : Kind, number : 0..MaxCalls, made : 0..2, failed : BOOLEAN,
     inserted : 0..MaxId, lastId : 0..MaxId]

SessionRecord ==
    [connected : BOOLEAN, autocommit : BOOLEAN, dirty : BOOLEAN, lastId : 0..MaxId]

Types ==
    /\ job \in [Job -> TaskRecord]
    /\ calls \in 0..MaxCalls
    /\ m_autoReconnect \in BOOLEAN
    /\ mainInDriver \in BOOLEAN
    /\ begun \in BOOLEAN
    /\ session \in SessionRecord
    /\ nextId \in 1..MaxId + 1

\* The tasks were asked for in the order of the vector, the one in flight first.
Order ==
    /\ \A i, k \in DOMAIN m_tasks : i < k => job[m_tasks[i]].number < job[m_tasks[k]].number
    /\ \A j \in InFlight, t \in Range(m_tasks) : job[j].number < job[t].number
    /\ \A j \in InFlight \cup Range(m_tasks) : job[j].number <= calls

Total(j) == Len(DriverCalls[job[j].kind])

\* How far each task is.
Progress ==
    /\ \A j \in Job : job[j].made <= Total(j)
    /\ \A j \in Range(m_tasks) \cup Range(uvQueue) :
          job[j].made = 0 /\ ~job[j].failed /\ job[j].inserted = 0
    /\ \A j \in Ended : job[j].failed \/ job[j].made = Total(j)

\* The id of the inserted row is in the session until the task has read it.
OwnOrNone(id, j) == id = job[j].inserted \/ (m_autoReconnect /\ id = 0)

Ids == \A j \in working \cup Ended :
    ~job[j].failed /\ job[j].kind = "executeId" =>
        /\ job[j].made = 0 => job[j].inserted = 0
        /\ job[j].made = 1 /\ job[j].inserted # 0 => OwnOrNone(session.lastId, j)
        /\ job[j].made = 2 /\ job[j].inserted # 0 => OwnOrNone(job[j].lastId, j)

Ends(j) == job[j].kind \in {"commit", "rollback"}

\* What the session is after each transaction task.
Transactions ==
    /\ ~session.connected \/ session.autocommit => ~session.dirty
    /\ \A j \in working \cup Ended :
          ~job[j].failed /\ session.connected =>
              /\ Ends(j) /\ job[j].made = 2 => session.autocommit
              /\ ~m_autoReconnect /\ job[j].kind = "begin" /\ job[j].made = 1
                    => ~session.autocommit
    /\ begun /\ ~m_autoReconnect /\ session.connected =>
          ~session.autocommit \/ \E j \in working : Ends(j) /\ job[j].made = 2

Inv == Types /\ Order /\ Progress /\ Ids /\ Transactions

-----------------------------------------------------------------------------
(* Every step of the connection is a step of its scheduler or leaves it    *)
(* alone.                                                                  *)

LEMMA SchedAssumption == SchedProofs!SchedulerAssumption
BY ConnectionAssumption
   DEF SchedProofs!SchedulerAssumption, SchedProofs!IsFiniteSet, IsFiniteSet

LEMMA SameAddTask == \A j \in Job : Sched!AddTask(j) => SchedProofs!AddTask(j)
BY DEF Sched!AddTask, SchedProofs!AddTask, Sched!Known, SchedProofs!Known,
       Sched!InFlight, SchedProofs!InFlight, Sched!After, SchedProofs!After,
       Sched!Range, SchedProofs!Range, Sched!HasRoom, SchedProofs!HasRoom,
       Sched!RunTask, SchedProofs!RunTask

LEMMA SameWorkBegin == Sched!WorkBegin => SchedProofs!WorkBegin
BY DEF Sched!WorkBegin, SchedProofs!WorkBegin, Sched!Cardinality, SchedProofs!Cardinality

LEMMA SameWorkEnd == \A j \in Job : Sched!WorkEnd(j) => SchedProofs!WorkEnd(j)
BY DEF Sched!WorkEnd, SchedProofs!WorkEnd

LEMMA SameAfterWork == Sched!AfterWork => SchedProofs!AfterWork
BY DEF Sched!AfterWork, SchedProofs!AfterWork

LEMMA SameAfterWorkDone == Sched!AfterWorkDone => SchedProofs!AfterWorkDone
BY DEF Sched!AfterWorkDone, SchedProofs!AfterWorkDone,
       Sched!RunNextTask, SchedProofs!RunNextTask, Sched!HasRoom, SchedProofs!HasRoom,
       Sched!RunTask, SchedProofs!RunTask

LEMMA SchedStep == [Next]_vars => [SchedProofs!Next]_(SchedProofs!vars)
<1>. SUFFICES ASSUME [Next]_vars PROVE SchedProofs!Next \/ UNCHANGED schedVars
    BY DEF schedVars, SchedProofs!vars
<1>1. CASE UNCHANGED vars
    BY <1>1 DEF vars
<1>2. ASSUME NEW j \in Job, NEW kind \in Kind, Ask(j, kind)
      PROVE  SchedProofs!Next \/ UNCHANGED schedVars
    BY <1>2, SameAddTask DEF Ask, SchedProofs!Next
<1>3. CASE IsConnectedBegin \/ IsConnectedEnd \/ ConnectionBreaks \/ OtherInserts
    BY <1>3 DEF IsConnectedBegin, IsConnectedEnd, ConnectionBreaks, OtherInserts
<1>4. CASE WorkBegin \/ AfterWork \/ AfterWorkDone
    BY <1>4, SameWorkBegin, SameAfterWork, SameAfterWorkDone
       DEF WorkBegin, AfterWork, AfterWorkDone, SchedProofs!Next
<1>5. ASSUME NEW j \in Job, WorkEnd(j) PROVE SchedProofs!Next \/ UNCHANGED schedVars
    BY <1>5, SameWorkEnd DEF WorkEnd, SchedProofs!Next
<1>6. ASSUME NEW j \in Job, CallFails(j) \/ Reopen(j) PROVE UNCHANGED schedVars
    BY <1>6 DEF CallFails, Reopen
<1>7. ASSUME NEW j \in Job,
             \/ ExecuteQuery(j) \/ ExecuteUpdate(j) \/ ExecuteInsert(j) \/ SelectLastInsertId(j)
             \/ BeginTransaction(j) \/ CommitOrRollback(j) \/ EndTransaction(j)
      PROVE  UNCHANGED schedVars
    BY <1>7 DEF ExecuteQuery, ExecuteUpdate, ExecuteInsert, SelectLastInsertId,
                BeginTransaction, CommitOrRollback, EndTransaction, DriverCall
<1>. QED  BY <1>1, <1>2, <1>3, <1>4, <1>5, <1>6, <1>7 DEF Next

LEMMA SchedInvariant == Safe => []SchedProofs!Inv
<1>1. Init => SchedProofs!Inv
    BY SchedAssumption, SchedProofs!InitInv DEF Init, Sched!Init, SchedProofs!Init
<1>2. SchedProofs!Inv /\ [Next]_vars => SchedProofs!Inv'
    BY SchedAssumption, SchedProofs!NextInv, SchedStep
<1>. QED  BY <1>1, <1>2, PTL DEF Safe

LEMMA SameInFlight == Sched!InFlight = InFlight /\ SchedProofs!InFlight = InFlight
BY DEF Sched!InFlight, SchedProofs!InFlight, InFlight, Ended, Sched!Range, SchedProofs!Range,
       Range, Sched!After, SchedProofs!After

\* One place: the counter is the number of tasks in flight, and at most 1.
LEMMA InvPlaces == SchedProofs!Inv => Places
<1>. SUFFICES ASSUME SchedProofs!Inv PROVE Places
    OBVIOUS
<1>1. SchedProofs!TypeOK /\ SchedProofs!OnePlace /\ SchedProofs!CountExact
      /\ SchedProofs!CounterBound /\ SchedProofs!NoStrandedTask
    BY DEF SchedProofs!Inv
<1>2. /\ m_tasks \in Seq(Job) /\ uvQueue \in Seq(Job) /\ finished \in Seq(Job)
      /\ working \subseteq Job /\ inAfter \in Job \cup {NoJob} /\ m_concurrent \in Nat
    BY <1>1 DEF SchedProofs!TypeOK
<1>3. IsFiniteSet(InFlight)
    <2>1. Range(uvQueue) \subseteq Job /\ Range(finished) \subseteq Job
        BY <1>2, LenProperties DEF Range
    <2>2. InFlight \subseteq Job
        BY <1>2, <2>1 DEF InFlight, Ended, Sched!After
    <2>. QED  BY <2>2, FS_Subset, ConnectionAssumption
<1>4. m_concurrent = Cardinality(InFlight) /\ m_concurrent \in {0, 1}
    <2>1. m_concurrent <= 1
        BY <1>1 DEF SchedProofs!CounterBound
    <2>2. m_concurrent = SchedProofs!Cardinality(InFlight)
        BY <1>1, SameInFlight DEF SchedProofs!CountExact
    <2>. QED  BY <1>2, <2>1, <2>2 DEF SchedProofs!Cardinality, Cardinality
<1>5. \A a, b \in InFlight : a = b
    <2>1. CASE Cardinality(InFlight) = 0
        BY <1>3, <2>1, FS_EmptySet
    <2>2. CASE Cardinality(InFlight) = 1
        <3>1. \E x : InFlight = {x}
            BY <1>3, <2>2, FS_Singleton
        <3>. QED  BY <3>1
    <2>. QED  BY <1>4, <2>1, <2>2
<1>6. m_concurrent = 0 => InFlight = {} /\ m_tasks = <<>>
    <2>1. m_concurrent = 0 => InFlight = {}
        BY <1>3, <1>4, FS_EmptySet
    <2>2. m_concurrent = 0 => m_tasks = <<>>
        BY <1>1 DEF SchedProofs!NoStrandedTask
    <2>. QED  BY <2>1, <2>2
<1>7. Sched!HasRoom(m_concurrent) => m_concurrent = 0
    BY <1>2 DEF Sched!HasRoom
<1>8. /\ Range(m_tasks) \cap InFlight = {}
      /\ Range(uvQueue) \cap (working \cup Ended) = {}
      /\ working \cap Ended = {}
      /\ Range(finished) \cap Sched!After = {}
    BY <1>1, SameInFlight
       DEF SchedProofs!OnePlace, SchedProofs!Range, SchedProofs!After, Range, Ended, Sched!After
<1>. QED  BY <1>2, <1>5, <1>6, <1>7, <1>8 DEF Places

LEMMA PlacesAlways == Safe => []Places
BY SchedInvariant, InvPlaces, PTL

-----------------------------------------------------------------------------
(* Sequences, driver calls, and the one task in flight.                    *)

LEMMA RangeAppend ==
    ASSUME NEW s \in Seq(Job), NEW x \in Job
    PROVE  Range(Append(s, x)) = Range(s) \cup {x}
BY SchedAssumption, SchedProofs!RangeAppend DEF Range, SchedProofs!Range

LEMMA TailOf ==
    ASSUME NEW s \in Seq(Job), s # <<>>
    PROVE  /\ Tail(s) \in Seq(Job) /\ Head(s) = s[1] /\ 1 \in DOMAIN s
           /\ \A i \in DOMAIN Tail(s) : i + 1 \in DOMAIN s /\ Tail(s)[i] = s[i + 1]
           /\ Head(s) \in Range(s) /\ Range(Tail(s)) \subseteq Range(s)
           /\ DOMAIN s \subseteq Nat \ {0} /\ DOMAIN Tail(s) \subseteq Nat \ {0}
<1>1. /\ Tail(s) \in Seq(Job) /\ Len(s) \in Nat \ {0} /\ Len(Tail(s)) = Len(s) - 1
      /\ DOMAIN s = 1..Len(s) /\ DOMAIN Tail(s) = 1..Len(Tail(s))
      /\ \A i \in 1..Len(Tail(s)) : Tail(s)[i] = s[i + 1]
      /\ Head(s) = s[1]
    BY HeadTailProperties, LenProperties, EmptySeq
<1>. QED  BY <1>1 DEF Range

\* What the next driver call of a task tells about it: src/TaskQueryExecute.cpp,
\* src/TaskTransaction.cpp.
LEMMA CallsOfKinds ==
    ASSUME NEW k \in Kind
    PROVE  /\ k \in {"fetch", "execute", "executeId", "begin", "commit", "rollback"}
           /\ Len(DriverCalls[k]) =
                 IF k \in {"executeId", "commit", "rollback"} THEN 2 ELSE 1
<1>1. Kind = {"fetch", "execute", "executeId", "begin", "commit", "rollback"}
    BY DEF Kind, DriverCalls
<1>2. /\ DriverCalls["fetch"] = <<"executeQuery">>
      /\ DriverCalls["execute"] = <<"executeUpdate">>
      /\ DriverCalls["executeId"] = <<"executeUpdate", "selectLastInsertId">>
      /\ DriverCalls["begin"] = <<"setAutoCommitFalse">>
      /\ DriverCalls["commit"] = <<"commit", "setAutoCommitTrue">>
      /\ DriverCalls["rollback"] = <<"rollback", "setAutoCommitTrue">>
    BY DEF DriverCalls
<1>3. /\ Len(DriverCalls["fetch"]) = 1 /\ Len(DriverCalls["execute"]) = 1
      /\ Len(DriverCalls["executeId"]) = 2 /\ Len(DriverCalls["begin"]) = 1
      /\ Len(DriverCalls["commit"]) = 2 /\ Len(DriverCalls["rollback"]) = 2
    BY <1>2
<1>. QED  BY <1>1, <1>3

LEMMA NextCalls ==
    ASSUME Types, NEW j \in Job, Busy(j)
    PROVE  /\ job[j].made \in {0, 1}
           /\ NextCall(j) = "executeQuery" => job[j].kind = "fetch"
           /\ NextCall(j) = "executeUpdate" =>
                 job[j].kind \in {"execute", "executeId"} /\ job[j].made = 0
           /\ NextCall(j) = "selectLastInsertId" => job[j].kind = "executeId" /\ job[j].made = 1
           /\ NextCall(j) = "setAutoCommitFalse" => job[j].kind = "begin" /\ job[j].made = 0
           /\ NextCall(j) \in {"commit", "rollback"} => Ends(j) /\ job[j].made = 0
           /\ NextCall(j) = "setAutoCommitTrue" => Ends(j) /\ job[j].made = 1
<1>1. job[j].kind \in Kind /\ job[j].made \in 0..2 /\ job[j].made < Len(DriverCalls[job[j].kind])
    BY DEF Types, TaskRecord, Busy
<1>2. job[j].made \in {0, 1}
    BY <1>1, CallsOfKinds
<1>. QED
    BY <1>1, <1>2, CallsOfKinds DEF NextCall, DriverCalls, Ends

LEMMA OneInFlight ==
    ASSUME Places, NEW a \in working \cup Ended, NEW b \in working \cup Ended
    PROVE  a = b
BY DEF Places, InFlight

LEMMA TasksAreJobs ==
    ASSUME Places
    PROVE  /\ Range(m_tasks) \subseteq Job /\ Range(uvQueue) \subseteq Job
           /\ Ended \subseteq Job /\ InFlight \subseteq Job
<1>1. \A s \in Seq(Job) : Range(s) \subseteq Job
    BY LenProperties DEF Range
<1>2. Range(m_tasks) \subseteq Job /\ Range(uvQueue) \subseteq Job /\ Range(finished) \subseteq Job
    BY <1>1 DEF Places
<1>3. Ended \subseteq Job
    BY <1>2 DEF Places, Ended, Sched!After
<1>. QED  BY <1>2, <1>3 DEF Places, InFlight

-----------------------------------------------------------------------------
(* One lemma per step: the invariant after it. Places and Places' are      *)
(* known, so only where the tasks of the step go has to be said.           *)

LEMMA NewTaskType ==
    ASSUME NEW kind \in Kind, NEW n \in 0..MaxCalls
    PROVE  NewTask(kind, n) \in TaskRecord
BY ConnectionAssumption DEF NewTask, TaskRecord

LEMMA InitInv == Init => Inv
<1>. SUFFICES ASSUME Init PROVE Inv
    OBVIOUS
<1>1. Range(<<>>) = {}
    BY DEF Range
<1>2. "fetch" \in Kind
    BY DEF Kind, DriverCalls
<1>3. Types
    <2>1. job \in [Job -> TaskRecord]
        <3>1. NewTask("fetch", 0) \in TaskRecord
            BY <1>2, NewTaskType, ConnectionAssumption
        <3>. QED  BY <3>1 DEF Init
    <2>2. session \in SessionRecord
        BY ConnectionAssumption DEF Init, NewSession, SessionRecord
    <2>3. m_autoReconnect \in BOOLEAN
        BY ConnectionAssumption DEF Init
    <2>4. nextId \in 1..MaxId + 1 /\ calls \in 0..MaxCalls
        BY ConnectionAssumption DEF Init
    <2>5. mainInDriver \in BOOLEAN /\ begun \in BOOLEAN
        BY DEF Init
    <2>. QED  BY <2>1, <2>2, <2>3, <2>4, <2>5 DEF Types
<1>4. InFlight = {} /\ Ended = {} /\ working = {} /\ Range(m_tasks) = {} /\ Range(uvQueue) = {}
    BY <1>1 DEF Init, Sched!Init, InFlight, Ended, Sched!After
<1>5. Order
    <2>1. m_tasks = <<>>
        BY DEF Init, Sched!Init
    <2>. QED  BY <1>4, <2>1 DEF Order
<1>6. Progress
    <2>1. \A j \in Job : job[j] = NewTask("fetch", 0)
        BY DEF Init
    <2>2. Len(DriverCalls["fetch"]) = 1
        BY <1>2, CallsOfKinds
    <2>. QED  BY <1>4, <2>1, <2>2 DEF Progress, NewTask, Total
<1>7. Ids /\ Transactions
    BY <1>4 DEF Init, Ids, Transactions, NewSession
<1>. QED  BY <1>3, <1>5, <1>6, <1>7 DEF Inv

\* Nothing but the scheduler changes.
Still == UNCHANGED <<job, calls, m_autoReconnect, mainInDriver, session, nextId>>

LEMMA WorkBeginInv ==
    ASSUME Places, Inv, WorkBegin
    PROVE  Inv'
<1>1. Still /\ UNCHANGED <<m_tasks, begun>>
    BY DEF WorkBegin, Sched!WorkBegin, Still
<1>2. PICK h \in Range(uvQueue) : working' = working \cup {h}
    BY TailOf DEF WorkBegin, Sched!WorkBegin, Places
<1>3. Range(uvQueue') \subseteq Range(uvQueue) /\ Ended' = Ended
    BY TailOf DEF WorkBegin, Sched!WorkBegin, Places, Ended, Sched!After
<1>4. InFlight' \subseteq InFlight
    BY <1>2, <1>3 DEF InFlight
<1>5. Types' /\ Order'
    BY <1>1, <1>4 DEF Inv, Types, Order, Still
<1>6. Progress'
    BY <1>1, <1>3 DEF Inv, Progress, Total, Still
<1>7. Ids'
    BY <1>1, <1>2, <1>3 DEF Inv, Ids, OwnOrNone, Progress, Still
<1>8. Transactions'
    BY <1>1, <1>2, <1>3 DEF Inv, Transactions, Ends, Progress, Still
<1>. QED  BY <1>5, <1>6, <1>7, <1>8 DEF Inv

LEMMA AfterWorkInv ==
    ASSUME Places, Inv, AfterWork
    PROVE  Inv'
<1>1. Still /\ UNCHANGED <<m_tasks, uvQueue, working, begun>>
    BY DEF AfterWork, Sched!AfterWork, Still
<1>2. Ended' \subseteq Ended
    BY TailOf DEF AfterWork, Sched!AfterWork, Places, Ended, Sched!After
<1>3. InFlight' \subseteq InFlight
    BY <1>1, <1>2 DEF InFlight
<1>4. Types' /\ Order'
    BY <1>1, <1>3 DEF Inv, Types, Order, Still
<1>5. Progress'
    BY <1>1, <1>2 DEF Inv, Progress, Total, Still
<1>6. Ids'
    BY <1>1, <1>2 DEF Inv, Ids, OwnOrNone, Still
<1>7. Transactions'
    BY <1>1, <1>2 DEF Inv, Transactions, Ends, Still
<1>. QED  BY <1>4, <1>5, <1>6, <1>7 DEF Inv

\* A begin that did not fail leaves the session out of autocommit mode; after
\* a commit or a rollback it is no longer the last transaction task.
LEMMA WorkEndInv ==
    ASSUME Places, Inv, NEW j \in Job, WorkEnd(j)
    PROVE  Inv'
<1>1. Still /\ UNCHANGED <<m_tasks, uvQueue>> /\ j \in working /\ working' = working \ {j}
    BY DEF WorkEnd, Sched!WorkEnd, Still
<1>2. Ended' = Ended \cup {j}
    <2>1. finished' = Append(finished, j) /\ inAfter' = inAfter
        BY DEF WorkEnd, Sched!WorkEnd
    <2>2. Range(finished') = Range(finished) \cup {j}
        BY <2>1, RangeAppend DEF Places
    <2>. QED  BY <2>1, <2>2 DEF Ended, Sched!After
<1>3. InFlight' = InFlight
    BY <1>1, <1>2 DEF InFlight
<1>4. Order'
    BY <1>1, <1>3 DEF Inv, Order, Still
<1>5. job[j].failed \/ job[j].made = Total(j)
    BY <1>1, CallsOfKinds DEF WorkEnd, Busy, Total, Inv, Types, TaskRecord, Progress
<1>6. Progress'
    BY <1>1, <1>2, <1>5 DEF Inv, Progress, Total, Still
<1>7. Ids'
    BY <1>1, <1>2 DEF Inv, Ids, OwnOrNone, Still
<1>8. begun' = CASE job[j].kind = "begin" /\ ~job[j].failed -> TRUE
                 [] Ends(j) -> FALSE
                 [] OTHER -> begun
    BY DEF WorkEnd, Ends
<1>9. begun' \in BOOLEAN
    BY <1>8 DEF Inv, Types
<1>10. Types'
    BY <1>1, <1>9 DEF Inv, Types, Still
<1>11. begun' /\ ~m_autoReconnect /\ session.connected => ~session.autocommit
    <2>. SUFFICES ASSUME begun', ~m_autoReconnect, session.connected
                  PROVE  ~session.autocommit
        OBVIOUS
    <2>1. CASE job[j].kind = "begin" /\ ~job[j].failed
        <3>1. job[j].made = 1
            BY <1>5, <2>1, CallsOfKinds DEF Total, Inv, Types, TaskRecord
        <3>. QED  BY <1>1, <2>1, <3>1 DEF Inv, Transactions
    <2>2. CASE ~(job[j].kind = "begin" /\ ~job[j].failed)
        <3>1. ~Ends(j) /\ begun
            BY <1>8, <2>2 DEF Ends
        <3>2. ~\E i \in working : Ends(i) /\ job[i].made = 2
            BY <1>1, <3>1, OneInFlight
        <3>. QED  BY <3>1, <3>2 DEF Inv, Transactions
    <2>. QED  BY <2>1, <2>2
<1>12. Transactions'
    BY <1>1, <1>2, <1>11 DEF Inv, Transactions, Ends, Still
<1>. QED  BY <1>4, <1>6, <1>7, <1>10, <1>12 DEF Inv

\* A call of JavaScript: the task is the last of the vector, or it is the only
\* one and goes to libuv.
LEMMA AskInv ==
    ASSUME Places, Places', Inv, NEW j \in Job, NEW kind \in Kind, Ask(j, kind)
    PROVE  Inv'
<1>1. /\ UNCHANGED <<m_autoReconnect, mainInDriver, begun, session, nextId>>
      /\ calls' = calls + 1 /\ calls < MaxCalls
      /\ job' = [job EXCEPT ![j] = NewTask(kind, calls + 1)]
    BY DEF Ask
<1>2. Types'
    <2>1. calls' \in 0..MaxCalls
        BY <1>1, ConnectionAssumption DEF Inv, Types
    <2>2. NewTask(kind, calls + 1) \in TaskRecord
        BY <1>1, <2>1, NewTaskType
    <2>3. job' \in [Job -> TaskRecord]
        BY <1>1, <2>2 DEF Inv, Types
    <2>4. Types => UNCHANGED <<m_autoReconnect, mainInDriver, begun, session, nextId>>
        BY <1>1
    <2>. QED  BY <2>1, <2>3, <2>4 DEF Inv, Types
<1>3. j \notin Range(m_tasks) /\ j \notin InFlight
    BY SameInFlight DEF Ask, Sched!AddTask, Sched!Known, Sched!Range, Range
<1>4. UNCHANGED <<working, finished, inAfter>> /\ Ended' = Ended
    BY DEF Ask, Sched!AddTask, Ended, Sched!After
<1>5. /\ job'[j] = NewTask(kind, calls + 1)
      /\ \A x \in Job : x # j => job'[x] = job[x]
    BY <1>1 DEF Inv, Types
<1>6. \/ m_tasks' = Append(m_tasks, j) /\ UNCHANGED uvQueue
      \/ m_tasks = <<>> /\ m_tasks' = m_tasks /\ uvQueue' = Append(uvQueue, j) /\ InFlight = {}
    BY DEF Ask, Sched!AddTask, Sched!RunTask, Places
<1>7. /\ m_tasks \in Seq(Job) /\ uvQueue \in Seq(Job) /\ InFlight \subseteq Job
      /\ Range(m_tasks) \subseteq Job
    BY TasksAreJobs DEF Places
<1>8. Order'
    <2>1. CASE m_tasks' = Append(m_tasks, j) /\ UNCHANGED uvQueue
        <3>1. InFlight' = InFlight /\ Range(m_tasks') = Range(m_tasks) \cup {j}
            BY <1>4, <1>7, <2>1, RangeAppend DEF InFlight
        <3>2. \A x \in InFlight \cup Range(m_tasks) : job'[x] = job[x] /\ job[x].number <= calls
            BY <1>3, <1>5, <1>7 DEF Inv, Order
        <3>3. job'[j].number = calls + 1
            BY <1>5 DEF NewTask
        <3>4. \A i, k \in DOMAIN m_tasks' : i < k =>
                 job'[m_tasks'[i]].number < job'[m_tasks'[k]].number
            <4>1. /\ Len(m_tasks) \in Nat /\ DOMAIN m_tasks = 1..Len(m_tasks)
                  /\ DOMAIN m_tasks' = 1..Len(m_tasks) + 1
                  /\ \A i \in 1..Len(m_tasks) : m_tasks'[i] = m_tasks[i]
                  /\ m_tasks'[Len(m_tasks) + 1] = j
                BY <1>7, <2>1, AppendProperties, LenProperties
            <4>2. \A i \in DOMAIN m_tasks : m_tasks[i] \in Range(m_tasks)
                BY DEF Range
            <4>3. \A x \in Range(m_tasks) : job[x].number \in Nat
                BY <1>7, ConnectionAssumption DEF Inv, Types, TaskRecord
            <4>. QED
                BY <1>1, <3>2, <3>3, <4>1, <4>2, <4>3 DEF Inv, Order, Types
        <3>5. \A x \in InFlight \cup Range(m_tasks) : job[x].number \in Nat
            BY <1>7, ConnectionAssumption DEF Inv, Types, TaskRecord
        <3>6. calls \in Nat
            BY ConnectionAssumption DEF Inv, Types
        <3>. QED  BY <1>1, <3>1, <3>2, <3>3, <3>4, <3>5, <3>6 DEF Inv, Order
    <2>2. CASE /\ m_tasks = <<>> /\ m_tasks' = m_tasks
               /\ uvQueue' = Append(uvQueue, j) /\ InFlight = {}
        <3>1. InFlight' = {j}
            BY <1>4, <1>7, <2>2, RangeAppend DEF InFlight
        <3>2. Range(m_tasks') = {} /\ DOMAIN m_tasks' = {}
            BY <2>2 DEF Range
        <3>3. job'[j].number <= calls'
            BY <1>1, <1>5 DEF NewTask, Inv, Types
        <3>. QED  BY <3>1, <3>2, <3>3 DEF Order
    <2>. QED  BY <1>6, <2>1, <2>2
<1>9. Progress'
    <2>1. Range(m_tasks') \cup Range(uvQueue') \subseteq Range(m_tasks) \cup Range(uvQueue) \cup {j}
        BY <1>6, <1>7, RangeAppend
    <2>2. Len(DriverCalls[kind]) >= 0
        BY CallsOfKinds
    <2>3. Range(uvQueue) \subseteq Job /\ Ended \subseteq Job /\ j \notin Ended
        BY <1>3, <1>7 DEF InFlight
    <2>4. job'[j].made <= Len(DriverCalls[job'[j].kind])
        BY <1>5, <2>2 DEF NewTask
    <2>5. \A x \in Job : job'[x].made <= Len(DriverCalls[job'[x].kind])
        BY <1>5, <2>4 DEF Inv, Progress, Total
    <2>6. job'[j].made = 0 /\ ~job'[j].failed /\ job'[j].inserted = 0
        BY <1>5 DEF NewTask
    <2>7. \A x \in Range(m_tasks') \cup Range(uvQueue') :
             job'[x].made = 0 /\ ~job'[x].failed /\ job'[x].inserted = 0
        BY <1>5, <1>7, <2>1, <2>3, <2>6 DEF Inv, Progress
    <2>8. \A x \in Ended' : job'[x].failed \/ job'[x].made = Len(DriverCalls[job'[x].kind])
        BY <1>4, <1>5, <2>3 DEF Inv, Progress, Total
    <2>. QED  BY <2>5, <2>7, <2>8 DEF Progress, Total
<1>10. working \cup Ended \subseteq Job /\ \A x \in working \cup Ended : job'[x] = job[x]
    BY <1>3, <1>5, <1>7 DEF InFlight
<1>11. Ids'
    BY <1>1, <1>4, <1>10 DEF Inv, Ids, OwnOrNone
<1>12. Transactions'
    BY <1>1, <1>4, <1>10 DEF Inv, Transactions, Ends
<1>. QED  BY <1>2, <1>8, <1>9, <1>11, <1>12 DEF Inv

\* The task is deleted, and the oldest of the vector goes to libuv.
LEMMA AfterWorkDoneInv ==
    ASSUME Places, Places', Inv, AfterWorkDone
    PROVE  Inv'
<1>1. /\ UNCHANGED <<calls, m_autoReconnect, mainInDriver, begun, session, nextId>>
      /\ job' = [job EXCEPT ![inAfter] = NewTask("fetch", 0)]
    BY DEF AfterWorkDone
<1>2. "fetch" \in Kind /\ Len(DriverCalls["fetch"]) = 1
    BY CallsOfKinds DEF Kind, DriverCalls
<1>3. Types'
    <2>1. NewTask("fetch", 0) \in TaskRecord
        BY <1>2, NewTaskType, ConnectionAssumption
    <2>. QED  BY <1>1, <2>1 DEF Inv, Types
<1>4. inAfter # NoJob /\ inAfter' = NoJob /\ UNCHANGED <<working, finished>>
    BY DEF AfterWorkDone, Sched!AfterWorkDone
<1>5. inAfter \in Ended /\ inAfter \in InFlight
    BY <1>4 DEF Ended, InFlight, Sched!After
<1>6. inAfter \notin Range(m_tasks)
    BY <1>5 DEF Places
<1>7. /\ working = {} /\ Range(uvQueue) = {} /\ \A x \in Ended : x = inAfter
    BY <1>5 DEF Places, InFlight
<1>8. Ended' \subseteq {inAfter} /\ working' = {}
    BY <1>4, <1>7 DEF Ended, Sched!After
<1>9. \A x \in Job : x # inAfter => job'[x] = job[x]
    BY <1>1 DEF Inv, Types
<1>10. /\ m_tasks \in Seq(Job) /\ uvQueue \in Seq(Job) /\ Range(m_tasks) \subseteq Job
       /\ inAfter \in Job
    BY <1>5, TasksAreJobs DEF Places
<1>11. job'[inAfter] = NewTask("fetch", 0)
    BY <1>1, <1>10 DEF Inv, Types
<1>12. \/ /\ m_tasks # <<>> /\ m_tasks' = Tail(m_tasks)
          /\ uvQueue' = Append(uvQueue, Head(m_tasks))
       \/ UNCHANGED <<m_tasks, uvQueue>>
    BY DEF AfterWorkDone, Sched!AfterWorkDone, Sched!RunNextTask, Sched!RunTask
<1>13. /\ Range(m_tasks') \subseteq Range(m_tasks)
       /\ Range(uvQueue') \subseteq Range(m_tasks)
    <2>1. CASE /\ m_tasks # <<>> /\ m_tasks' = Tail(m_tasks)
               /\ uvQueue' = Append(uvQueue, Head(m_tasks))
        <3>1. Head(m_tasks) \in Range(m_tasks) /\ Range(Tail(m_tasks)) \subseteq Range(m_tasks)
            BY <1>10, <2>1, TailOf
        <3>2. Range(uvQueue') = Range(uvQueue) \cup {Head(m_tasks)}
            BY <1>10, <2>1, <3>1, RangeAppend
        <3>. QED  BY <1>7, <2>1, <3>1, <3>2
    <2>. QED  BY <1>7, <1>12, <2>1
<1>14. Ended' = {}
    BY <1>4, <1>5, <1>8 DEF Ended, Sched!After, Places
<1>15. \A x \in Range(m_tasks) : x \in Job /\ job'[x] = job[x]
    BY <1>6, <1>9, <1>10
<1>16. InFlight' = Range(uvQueue')
    BY <1>8, <1>14 DEF InFlight
<1>17. Order'
    <2>1. CASE /\ m_tasks # <<>> /\ m_tasks' = Tail(m_tasks)
               /\ uvQueue' = Append(uvQueue, Head(m_tasks))
        <3>. DEFINE h == Head(m_tasks)
        <3>1. /\ h = m_tasks[1] /\ 1 \in DOMAIN m_tasks /\ h \in Range(m_tasks)
              /\ \A i \in DOMAIN m_tasks' : i + 1 \in DOMAIN m_tasks /\ m_tasks'[i] = m_tasks[i + 1]
              /\ DOMAIN m_tasks' \subseteq Nat \ {0}
            BY <1>10, <2>1, TailOf
        <3>2. Range(uvQueue') = {h}
            BY <1>7, <1>10, <2>1, <3>1, RangeAppend
        <3>3. \A i \in DOMAIN m_tasks : m_tasks[i] \in Range(m_tasks)
            BY DEF Range
        <3>4. \A i, k \in DOMAIN m_tasks' : i < k =>
                 job'[m_tasks'[i]].number < job'[m_tasks'[k]].number
            BY <1>15, <3>1, <3>3 DEF Inv, Order
        <3>5. \A i \in DOMAIN m_tasks' : job'[h].number < job'[m_tasks'[i]].number
            BY <1>15, <3>1, <3>3 DEF Inv, Order
        <3>6. \A t \in Range(m_tasks') : \E i \in DOMAIN m_tasks' : t = m_tasks'[i]
            BY DEF Range
        <3>7. \A x \in {h} \cup Range(m_tasks') : job'[x].number <= calls'
            BY <1>1, <1>13, <1>15, <3>1 DEF Inv, Order
        <3>. QED  BY <1>16, <3>2, <3>4, <3>5, <3>6, <3>7 DEF Order
    <2>2. CASE UNCHANGED <<m_tasks, uvQueue>>
        <3>1. InFlight' = {}
            BY <1>7, <1>16, <2>2
        <3>2. \A i \in DOMAIN m_tasks : m_tasks[i] \in Range(m_tasks)
            BY DEF Range
        <3>. QED  BY <1>1, <1>15, <2>2, <3>1, <3>2 DEF Inv, Order
    <2>. QED  BY <1>12, <2>1, <2>2
<1>18. Progress'
    <2>1. \A x \in Job : job'[x].made <= Len(DriverCalls[job'[x].kind])
        <3>1. job'[inAfter].made <= Len(DriverCalls[job'[inAfter].kind])
            BY <1>2, <1>11 DEF NewTask
        <3>. QED  BY <1>9, <3>1 DEF Inv, Progress, Total
    <2>. QED  BY <1>13, <1>14, <1>15, <2>1 DEF Inv, Progress, Total
<1>19. Ids'
    BY <1>8, <1>14 DEF Ids
<1>20. Transactions'
    BY <1>1, <1>7, <1>8, <1>14 DEF Inv, Transactions
<1>. QED  BY <1>3, <1>17, <1>18, <1>19, <1>20 DEF Inv

LEMMA BrokenType ==
    ASSUME NEW s \in SessionRecord
    PROVE  /\ Broken(s) \in SessionRecord
           /\ ~Broken(s).connected /\ ~Broken(s).dirty
           /\ Broken(s).lastId = s.lastId
BY DEF Broken, SessionRecord

AfterCall(t, m, lost) == [t EXCEPT !.made = m, !.failed = lost]

LEMMA TaskAfterCall ==
    ASSUME NEW t \in TaskRecord, NEW m \in 0..2, NEW lost \in BOOLEAN
    PROVE  /\ AfterCall(t, m, lost) \in TaskRecord
           /\ AfterCall(t, m, lost).failed = lost
           /\ AfterCall(t, m, lost).kind = t.kind
           /\ AfterCall(t, m, lost).number = t.number
           /\ AfterCall(t, m, lost).made = m
           /\ AfterCall(t, m, lost).inserted = t.inserted
           /\ AfterCall(t, m, lost).lastId = t.lastId
<1>. DEFINE u == [t EXCEPT !.made = m, !.failed = lost]
<1>1. u \in TaskRecord
    BY DEF TaskRecord
<1>2. u.failed = lost
    BY DEF TaskRecord
<1>3. u.kind = t.kind /\ u.number = t.number
    BY DEF TaskRecord
<1>4. u.made = m
    BY DEF TaskRecord
<1>5. u.inserted = t.inserted /\ u.lastId = t.lastId
    BY DEF TaskRecord
<1>6. AfterCall(t, m, lost) = u
    BY DEF AfterCall
<1>. HIDE DEF u
<1>. QED  BY <1>1, <1>2, <1>3, <1>4, <1>5, <1>6, Zenon

\* What every driver call has in common: only the task in flight and the
\* session change.
LEMMA DriverStep ==
    ASSUME Places, Inv, NEW j \in Job, NEW c, NEW s \in SessionRecord, NEW t \in TaskRecord,
           DriverCall(j, c, s, t), nextId' \in 1..MaxId + 1,
           t.kind = job[j].kind, t.number = job[j].number, t.made = job[j].made
    PROVE  /\ Types' /\ Order' /\ Progress'
           /\ Busy(j) /\ NextCall(j) = c /\ session.connected
           /\ working' = working /\ Ended' = Ended
           /\ j \in working /\ j \notin Ended /\ \A x \in working \cup Ended : x = j
           /\ UNCHANGED <<m_autoReconnect, begun>>
           /\ job'[j].kind = job[j].kind /\ job'[j].made = job[j].made + 1
           /\ job'[j].inserted = t.inserted /\ job'[j].lastId = t.lastId
           /\ (job'[j].failed /\ session' = Broken(s)) \/ session' = s
<1>1. /\ Busy(j) /\ NextCall(j) = c /\ session.connected
      /\ UNCHANGED <<schedVars, calls, m_autoReconnect, mainInDriver, begun>>
    BY DEF DriverCall
<1>2. PICK lost \in BOOLEAN :
         /\ session' = IF lost THEN Broken(s) ELSE s
         /\ job' = [job EXCEPT ![j] = AfterCall(t, t.made + 1, lost)]
    BY Zenon DEF DriverCall, AfterCall
<1>3. UNCHANGED <<m_tasks, uvQueue, working, finished, inAfter>> /\ InFlight' = InFlight
      /\ Ended' = Ended
    BY <1>1 DEF schedVars, InFlight, Ended, Sched!After
<1>4. j \in working /\ j \notin Ended /\ \A x \in working \cup Ended : x = j
    BY <1>1 DEF Busy, Places, InFlight
<1>5. job[j].made \in {0, 1} /\ job[j].made < Total(j) /\ Total(j) \in {1, 2}
    BY <1>1, NextCalls, CallsOfKinds DEF Inv, Busy, Total, Types, TaskRecord
<1>. DEFINE u == AfterCall(t, t.made + 1, lost)
<1>6. /\ u \in TaskRecord /\ u.kind = t.kind /\ u.number = t.number /\ u.made = t.made + 1
      /\ u.inserted = t.inserted /\ u.lastId = t.lastId /\ u.failed = lost
    <2>1. t.made + 1 \in 0..2
        BY <1>5
    <2>2. u.kind = t.kind /\ u.number = t.number
        BY <2>1, TaskAfterCall
    <2>5. u \in TaskRecord
        BY <2>1, TaskAfterCall, Zenon
    <2>3. u.made = t.made + 1 /\ u.inserted = t.inserted /\ u.lastId = t.lastId
        BY <2>1, TaskAfterCall
    <2>4. u.failed = lost
        BY <2>1, TaskAfterCall
    <2>. QED  BY <2>2, <2>3, <2>4, <2>5, Zenon
<1>. HIDE DEF u
<1>7. job' \in [Job -> TaskRecord] /\ job'[j] = u /\ \A x \in Job : x # j => job'[x] = job[x]
    BY <1>2, <1>6 DEF Inv, Types, u
<1>8. session' \in SessionRecord
    BY <1>2, BrokenType
<1>9. Types'
    <2>1. UNCHANGED <<calls, m_autoReconnect, mainInDriver, begun>>
        BY <1>1
    <2>2. calls' \in 0..MaxCalls /\ m_autoReconnect' \in BOOLEAN
        BY <2>1 DEF Inv, Types
    <2>3. mainInDriver' \in BOOLEAN /\ begun' \in BOOLEAN
        BY <2>1 DEF Inv, Types
    <2>. QED  BY <1>7, <1>8, <2>2, <2>3 DEF Types
<1>10. /\ InFlight \subseteq Job /\ Range(m_tasks) \subseteq Job /\ Range(uvQueue) \subseteq Job
       /\ Ended \subseteq Job
    BY TasksAreJobs DEF Places
<1>11. \A x \in Job : job'[x].number = job[x].number /\ job'[x].kind = job[x].kind
    BY <1>6, <1>7
<1>12. Order'
    <2>1. \A i \in DOMAIN m_tasks : m_tasks[i] \in Range(m_tasks)
        BY DEF Range
    <2>. QED  BY <1>1, <1>3, <1>10, <1>11, <2>1 DEF Inv, Order
<1>13. Progress'
    <2>1. \A x \in Job : job'[x].made <= Len(DriverCalls[job'[x].kind])
        BY <1>5, <1>6, <1>7 DEF Inv, Progress, Total
    <2>2. \A x \in Range(m_tasks) \cup Range(uvQueue) \cup Ended : x \in Job /\ job'[x] = job[x]
        BY <1>4, <1>7, <1>10 DEF Places, InFlight
    <2>. QED  BY <1>3, <2>1, <2>2 DEF Inv, Progress, Total
<1>. QED  BY <1>1, <1>2, <1>3, <1>4, <1>6, <1>7, <1>9, <1>12, <1>13

LEMMA SessionOfTask ==
    ASSUME Inv, NEW j \in Job
    PROVE  /\ job[j] \in TaskRecord /\ session \in SessionRecord /\ Written \in SessionRecord
           /\ Written.autocommit = session.autocommit /\ Written.dirty = ~session.autocommit
           /\ Written.connected = session.connected /\ Written.lastId = session.lastId
<1>1. job[j] \in TaskRecord /\ session \in SessionRecord
    BY DEF Inv, Types
<1>. QED  BY <1>1 DEF Written, SessionRecord

LEMMA ExecuteQueryInv ==
    ASSUME Places, Inv, NEW j \in Job, ExecuteQuery(j)
    PROVE  Inv'
<1>1. DriverCall(j, "executeQuery", session, job[j]) /\ nextId' = nextId
    BY DEF ExecuteQuery
<1>2. nextId' \in 1..MaxId + 1
    BY <1>1 DEF Inv, Types
<1>3. /\ Types' /\ Order' /\ Progress' /\ working' = working /\ Ended' = Ended
      /\ Busy(j) /\ NextCall(j) = "executeQuery" /\ session.connected
      /\ \A x \in working \cup Ended : x = j
      /\ UNCHANGED <<m_autoReconnect, begun>> /\ job'[j].kind = job[j].kind
      /\ (job'[j].failed /\ session' = Broken(session)) \/ session' = session
    BY <1>1, <1>2, SessionOfTask, DriverStep
<1>4. job[j].kind = "fetch"
    BY <1>3, NextCalls DEF Inv
<1>5. Ids'
    BY <1>3, <1>4 DEF Ids
<1>6. Transactions'
    BY <1>3, <1>4, BrokenType, SessionOfTask DEF Inv, Transactions, Ends
<1>. QED  BY <1>3, <1>5, <1>6 DEF Inv

LEMMA ExecuteUpdateInv ==
    ASSUME Places, Inv, NEW j \in Job, ExecuteUpdate(j)
    PROVE  Inv'
<1>. DEFINE s == Written
            t == job[j]
<1>1. DriverCall(j, "executeUpdate", s, t) /\ nextId' = nextId
    BY DEF ExecuteUpdate
<1>2. /\ s \in SessionRecord /\ t \in TaskRecord /\ nextId' \in 1..MaxId + 1
      /\ t.kind = job[j].kind /\ t.number = job[j].number /\ t.made = job[j].made
    BY <1>1, SessionOfTask DEF Inv, Types
<1>3. /\ Types' /\ Order' /\ Progress' /\ working' = working /\ Ended' = Ended
      /\ Busy(j) /\ NextCall(j) = "executeUpdate" /\ session.connected
      /\ j \in working /\ \A x \in working \cup Ended : x = j
      /\ UNCHANGED <<m_autoReconnect, begun>>
      /\ job'[j].kind = job[j].kind /\ job'[j].made = job[j].made + 1
      /\ job'[j].inserted = t.inserted /\ job'[j].lastId = t.lastId
      /\ (job'[j].failed /\ session' = Broken(s)) \/ session' = s
    <2>. HIDE DEF s, t
    <2>. QED  BY <1>1, <1>2, DriverStep
<1>4. job[j].kind \in {"execute", "executeId"} /\ job[j].made = 0 /\ ~job[j].failed
    BY <1>3, NextCalls DEF Inv, Busy
<1>5. Ids'
    BY <1>3, <1>4 DEF Inv, Ids
<1>6. Transactions'
    <2>1. CASE session' = Broken(s)
        BY <1>2, <1>3, <2>1, BrokenType DEF Transactions
    <2>2. CASE session' = s
        BY <1>3, <1>4, <2>2, SessionOfTask DEF Inv, Transactions, Ends
    <2>. QED  BY <1>3, <2>1, <2>2
<1>. QED  BY <1>3, <1>5, <1>6 DEF Inv

LEMMA ExecuteInsertInv ==
    ASSUME Places, Inv, NEW j \in Job, ExecuteInsert(j)
    PROVE  Inv'
<1>. DEFINE s == [Written EXCEPT !.lastId = nextId]
            t == [job[j] EXCEPT !.inserted = nextId]
<1>1. DriverCall(j, "executeUpdate", s, t) /\ nextId <= MaxId /\ nextId' = nextId + 1
    BY DEF ExecuteInsert
<1>2. /\ s \in SessionRecord /\ t \in TaskRecord /\ nextId' \in 1..MaxId + 1
      /\ t.kind = job[j].kind /\ t.number = job[j].number /\ t.made = job[j].made
      /\ t.inserted = nextId /\ s.lastId = nextId
      /\ s.connected = session.connected /\ s.autocommit = session.autocommit
      /\ s.dirty = ~session.autocommit
    <2>1. nextId \in 0..MaxId /\ nextId' \in 1..MaxId + 1
        BY <1>1, ConnectionAssumption DEF ExecuteInsert, Inv, Types
    <2>2. Written \in SessionRecord /\ Written.dirty = ~session.autocommit
          /\ Written.connected = session.connected /\ Written.autocommit = session.autocommit
        BY SessionOfTask
    <2>3. s \in SessionRecord /\ s.lastId = nextId
        BY <2>1, <2>2 DEF SessionRecord
    <2>4. s.connected = Written.connected /\ s.autocommit = Written.autocommit
          /\ s.dirty = Written.dirty
        BY <2>2 DEF SessionRecord
    <2>5. /\ t \in TaskRecord /\ t.kind = job[j].kind /\ t.number = job[j].number
          /\ t.made = job[j].made /\ t.inserted = nextId
        BY <2>1, SessionOfTask DEF TaskRecord
    <2>. QED  BY <2>1, <2>2, <2>3, <2>4, <2>5
<1>3. /\ Types' /\ Order' /\ Progress' /\ working' = working /\ Ended' = Ended
      /\ Busy(j) /\ NextCall(j) = "executeUpdate" /\ session.connected
      /\ j \in working /\ \A x \in working \cup Ended : x = j
      /\ UNCHANGED <<m_autoReconnect, begun>>
      /\ job'[j].kind = job[j].kind /\ job'[j].made = job[j].made + 1
      /\ job'[j].inserted = t.inserted /\ job'[j].lastId = t.lastId
      /\ (job'[j].failed /\ session' = Broken(s)) \/ session' = s
    <2>. HIDE DEF s, t
    <2>. QED  BY <1>1, <1>2, DriverStep
<1>4. job[j].kind \in {"execute", "executeId"} /\ job[j].made = 0 /\ ~job[j].failed
    BY <1>3, NextCalls DEF Inv, Busy
<1>5. Ids'
    <2>. HIDE DEF s, t
    <2>1. job'[j].failed \/ session'.lastId = job'[j].inserted
        BY <1>2, <1>3
    <2>. QED  BY <1>3, <1>4, <2>1 DEF Ids, OwnOrNone
<1>6. Transactions'
    <2>1. CASE session' = Broken(s)
        BY <1>2, <1>3, <2>1, BrokenType DEF Transactions
    <2>2. CASE session' = s
        BY <1>2, <1>3, <1>4, <2>2 DEF Inv, Transactions, Ends
    <2>. QED  BY <1>3, <2>1, <2>2
<1>. QED  BY <1>3, <1>5, <1>6 DEF Inv

LEMMA SelectLastInsertIdInv ==
    ASSUME Places, Inv, NEW j \in Job, SelectLastInsertId(j)
    PROVE  Inv'
<1>. DEFINE s == session
            t == [job[j] EXCEPT !.lastId = session.lastId]
<1>1. DriverCall(j, "selectLastInsertId", s, t) /\ nextId' = nextId
    BY DEF SelectLastInsertId
<1>2. /\ s \in SessionRecord /\ t \in TaskRecord /\ nextId' \in 1..MaxId + 1
      /\ t.kind = job[j].kind /\ t.number = job[j].number /\ t.made = job[j].made
      /\ t.inserted = job[j].inserted /\ t.lastId = session.lastId
    <2>1. session.lastId \in 0..MaxId /\ s \in SessionRecord
        BY SessionOfTask DEF SessionRecord
    <2>2. nextId' \in 1..MaxId + 1
        BY <1>1 DEF Inv, Types
    <2>3. /\ t \in TaskRecord /\ t.kind = job[j].kind /\ t.number = job[j].number
          /\ t.made = job[j].made /\ t.inserted = job[j].inserted
          /\ t.lastId = session.lastId
        BY <2>1, SessionOfTask DEF TaskRecord
    <2>. QED  BY <2>1, <2>2, <2>3
<1>3. /\ Types' /\ Order' /\ Progress' /\ working' = working /\ Ended' = Ended
      /\ Busy(j) /\ NextCall(j) = "selectLastInsertId" /\ session.connected
      /\ j \in working /\ \A x \in working \cup Ended : x = j
      /\ UNCHANGED <<m_autoReconnect, begun>>
      /\ job'[j].kind = job[j].kind /\ job'[j].made = job[j].made + 1
      /\ job'[j].inserted = t.inserted /\ job'[j].lastId = t.lastId
      /\ (job'[j].failed /\ session' = Broken(s)) \/ session' = s
    <2>. HIDE DEF s, t
    <2>. QED  BY <1>1, <1>2, DriverStep
<1>4. job[j].kind = "executeId" /\ job[j].made = 1 /\ ~job[j].failed
    BY <1>3, NextCalls DEF Inv, Busy
<1>5. Ids'
    BY <1>2, <1>3, <1>4 DEF Inv, Ids, OwnOrNone
<1>6. Transactions'
    <2>1. CASE session' = Broken(s)
        BY <1>2, <1>3, <2>1, BrokenType DEF Transactions
    <2>2. CASE session' = s
        BY <1>3, <1>4, <2>2, SessionOfTask DEF Inv, Transactions, Ends
    <2>. QED  BY <1>3, <2>1, <2>2
<1>. QED  BY <1>3, <1>5, <1>6 DEF Inv

LEMMA BeginTransactionInv ==
    ASSUME Places, Inv, NEW j \in Job, BeginTransaction(j)
    PROVE  Inv'
<1>. DEFINE s == [session EXCEPT !.autocommit = FALSE]
            t == job[j]
<1>1. DriverCall(j, "setAutoCommitFalse", s, t) /\ nextId' = nextId
    BY DEF BeginTransaction
<1>2. /\ s \in SessionRecord /\ t \in TaskRecord /\ nextId' \in 1..MaxId + 1
      /\ t.kind = job[j].kind /\ t.number = job[j].number /\ t.made = job[j].made
      /\ s.connected = session.connected /\ s.autocommit = FALSE
    <2>1. /\ s \in SessionRecord /\ s.connected = session.connected /\ s.autocommit = FALSE
        BY SessionOfTask DEF SessionRecord
    <2>. QED  BY <1>1, <2>1, SessionOfTask DEF Inv, Types
<1>3. /\ Types' /\ Order' /\ Progress' /\ working' = working /\ Ended' = Ended
      /\ Busy(j) /\ NextCall(j) = "setAutoCommitFalse" /\ session.connected
      /\ j \in working /\ \A x \in working \cup Ended : x = j
      /\ UNCHANGED <<m_autoReconnect, begun>>
      /\ job'[j].kind = job[j].kind /\ job'[j].made = job[j].made + 1
      /\ job'[j].inserted = t.inserted /\ job'[j].lastId = t.lastId
      /\ (job'[j].failed /\ session' = Broken(s)) \/ session' = s
    <2>. HIDE DEF s, t
    <2>. QED  BY <1>1, <1>2, DriverStep
<1>4. job[j].kind = "begin" /\ job[j].made = 0 /\ ~job[j].failed
    BY <1>3, NextCalls DEF Inv, Busy
<1>5. Ids'
    BY <1>3, <1>4 DEF Ids
<1>6. Transactions'
    <2>1. CASE session' = Broken(s)
        BY <1>2, <1>3, <2>1, BrokenType DEF Transactions
    <2>2. CASE session' = s
        BY <1>2, <1>3, <1>4, <2>2 DEF Inv, Transactions, Ends
    <2>. QED  BY <1>3, <2>1, <2>2
<1>. QED  BY <1>3, <1>5, <1>6 DEF Inv

LEMMA EndTransactionInv ==
    ASSUME Places, Inv, NEW j \in Job, EndTransaction(j)
    PROVE  Inv'
<1>. DEFINE s == [session EXCEPT !.autocommit = TRUE, !.dirty = FALSE]
            t == job[j]
<1>1. DriverCall(j, "setAutoCommitTrue", s, t) /\ nextId' = nextId
    BY DEF EndTransaction
<1>2. /\ s \in SessionRecord /\ t \in TaskRecord /\ nextId' \in 1..MaxId + 1
      /\ t.kind = job[j].kind /\ t.number = job[j].number /\ t.made = job[j].made
      /\ s.connected = session.connected
      /\ s.autocommit = TRUE /\ s.dirty = FALSE
    <2>1. /\ s \in SessionRecord /\ s.connected = session.connected
          /\ s.autocommit = TRUE /\ s.dirty = FALSE
        BY SessionOfTask DEF SessionRecord
    <2>. QED  BY <1>1, <2>1, SessionOfTask DEF Inv, Types
<1>3. /\ Types' /\ Order' /\ Progress' /\ working' = working /\ Ended' = Ended
      /\ Busy(j) /\ NextCall(j) = "setAutoCommitTrue" /\ session.connected
      /\ j \in working /\ \A x \in working \cup Ended : x = j
      /\ UNCHANGED <<m_autoReconnect, begun>>
      /\ job'[j].kind = job[j].kind /\ job'[j].made = job[j].made + 1
      /\ job'[j].inserted = t.inserted /\ job'[j].lastId = t.lastId
      /\ (job'[j].failed /\ session' = Broken(s)) \/ session' = s
    <2>. HIDE DEF s, t
    <2>. QED  BY <1>1, <1>2, DriverStep
<1>4. Ends(j) /\ job[j].made = 1 /\ ~job[j].failed
    BY <1>3, NextCalls DEF Inv, Busy
<1>5. Ids'
    BY <1>3, <1>4 DEF Ids, Ends
<1>6. Transactions'
    <2>1. CASE session' = Broken(s)
        BY <1>2, <1>3, <2>1, BrokenType DEF Transactions
    <2>2. CASE session' = s
        BY <1>2, <1>3, <1>4, <2>2 DEF Inv, Transactions, Ends
    <2>. QED  BY <1>3, <2>1, <2>2
<1>. QED  BY <1>3, <1>5, <1>6 DEF Inv

LEMMA CommitOrRollbackInv ==
    ASSUME Places, Inv, NEW j \in Job, CommitOrRollback(j)
    PROVE  Inv'
<1>. DEFINE s == [session EXCEPT !.dirty = FALSE]
            t == job[j]
<1>1. PICK c \in {"commit", "rollback"} : DriverCall(j, c, s, t) /\ nextId' = nextId
    BY DEF CommitOrRollback
<1>2. /\ s \in SessionRecord /\ t \in TaskRecord /\ nextId' \in 1..MaxId + 1
      /\ t.kind = job[j].kind /\ t.number = job[j].number /\ t.made = job[j].made
      /\ s.connected = session.connected /\ s.autocommit = session.autocommit /\ s.dirty = FALSE
    <2>1. /\ s \in SessionRecord /\ s.connected = session.connected
          /\ s.autocommit = session.autocommit /\ s.dirty = FALSE
        BY SessionOfTask DEF SessionRecord
    <2>. QED  BY <1>1, <2>1, SessionOfTask DEF Inv, Types
<1>3. /\ Types' /\ Order' /\ Progress' /\ working' = working /\ Ended' = Ended
      /\ Busy(j) /\ NextCall(j) = c /\ session.connected
      /\ j \in working /\ \A x \in working \cup Ended : x = j
      /\ UNCHANGED <<m_autoReconnect, begun>>
      /\ job'[j].kind = job[j].kind /\ job'[j].made = job[j].made + 1
      /\ job'[j].inserted = t.inserted /\ job'[j].lastId = t.lastId
      /\ (job'[j].failed /\ session' = Broken(s)) \/ session' = s
    <2>. HIDE DEF s, t
    <2>. QED  BY <1>1, <1>2, DriverStep
<1>4. Ends(j) /\ job[j].made = 0 /\ ~job[j].failed
    BY <1>3, NextCalls DEF Inv, Busy
<1>5. Ids'
    BY <1>3, <1>4 DEF Ids, Ends
<1>6. Transactions'
    <2>1. CASE session' = Broken(s)
        BY <1>2, <1>3, <2>1, BrokenType DEF Transactions
    <2>2. CASE session' = s
        BY <1>2, <1>3, <1>4, <2>2 DEF Inv, Transactions, Ends
    <2>. QED  BY <1>3, <2>1, <2>2
<1>. QED  BY <1>3, <1>5, <1>6 DEF Inv

LEMMA CallFailsInv ==
    ASSUME Places, Inv, NEW j \in Job, CallFails(j)
    PROVE  Inv'
<1>1. /\ UNCHANGED <<m_tasks, uvQueue, working, finished, inAfter>>
      /\ UNCHANGED <<calls, m_autoReconnect, mainInDriver, begun, session, nextId>>
      /\ Busy(j) /\ job' = [job EXCEPT ![j].failed = TRUE]
    BY DEF CallFails, schedVars
<1>2. Ended' = Ended /\ InFlight' = InFlight
    BY <1>1 DEF Ended, InFlight, Sched!After
<1>3. /\ job' \in [Job -> TaskRecord] /\ job'[j].failed
      /\ \A x \in Job : /\ job'[x].kind = job[x].kind /\ job'[x].number = job[x].number
                        /\ job'[x].made = job[x].made /\ job'[x].inserted = job[x].inserted
      /\ \A x \in Job : x # j => job'[x] = job[x]
    BY <1>1 DEF Inv, Types, TaskRecord
<1>4. j \in working /\ \A x \in working \cup Ended : x = j
    BY <1>1 DEF Busy, Places, InFlight
<1>5. j \notin Range(m_tasks) \cup Range(uvQueue) \cup Ended
    BY <1>4 DEF Places, InFlight
<1>6. Types'
    BY <1>1, <1>3 DEF Inv, Types
<1>7. Order'
    <2>1. \A i \in DOMAIN m_tasks : m_tasks[i] \in Range(m_tasks)
        BY DEF Range
    <2>. QED  BY <1>1, <1>2, <1>3, <2>1, TasksAreJobs DEF Inv, Order
<1>8. Progress'
    BY <1>1, <1>2, <1>3, <1>5, TasksAreJobs DEF Inv, Progress, Total
<1>9. Ids'
    BY <1>1, <1>2, <1>3, <1>4 DEF Ids
<1>10. Transactions'
    <2>1. working \subseteq Job
        BY DEF Places
    <2>. QED  BY <1>1, <1>2, <1>3, <1>4, <2>1 DEF Inv, Transactions, Ends
<1>. QED  BY <1>6, <1>7, <1>8, <1>9, <1>10 DEF Inv

\* Steps that leave the tasks and the scheduler alone.
LEMMA SameTasks ==
    ASSUME Inv, UNCHANGED <<schedVars, job, calls>>
    PROVE  /\ Order' /\ Progress' /\ working' = working /\ Ended' = Ended
<1>1. UNCHANGED <<m_tasks, uvQueue, working, finished, inAfter>>
    BY DEF schedVars
<1>2. Ended' = Ended /\ InFlight' = InFlight
    BY <1>1 DEF Ended, InFlight, Sched!After
<1>. QED  BY <1>1, <1>2 DEF Inv, Order, Progress, Total

LEMMA ReopenInv ==
    ASSUME Places, Inv, NEW j \in Job, Reopen(j)
    PROVE  Inv'
<1>1. /\ UNCHANGED <<schedVars, job, calls, m_autoReconnect, mainInDriver, begun, nextId>>
      /\ Busy(j) /\ m_autoReconnect /\ session' = NewSession
    BY DEF Reopen
<1>2. Order' /\ Progress' /\ working' = working /\ Ended' = Ended
    BY <1>1, SameTasks
<1>3. NewSession \in SessionRecord
    BY ConnectionAssumption DEF NewSession, SessionRecord
<1>4. Types'
    BY <1>1, <1>3 DEF Inv, Types
<1>5. \A x \in working \cup Ended : x = j
    BY <1>1 DEF Busy, Places, InFlight
<1>6. job[j].made \in {0, 1} /\ job[j].made < Total(j)
    BY <1>1, NextCalls DEF Inv, Busy, Total
<1>7. Ids'
    BY <1>1, <1>2, <1>5, <1>6 DEF Inv, Ids, OwnOrNone, NewSession
<1>8. Transactions'
    BY <1>1, <1>2, <1>5, <1>6 DEF Inv, Transactions, Ends, NewSession
<1>. QED  BY <1>2, <1>4, <1>7, <1>8 DEF Inv

LEMMA ConnectionBreaksInv ==
    ASSUME Places, Inv, ConnectionBreaks
    PROVE  Inv'
<1>1. /\ UNCHANGED <<schedVars, job, calls, m_autoReconnect, mainInDriver, begun, nextId>>
      /\ session' = Broken(session)
    BY DEF ConnectionBreaks
<1>2. Order' /\ Progress' /\ working' = working /\ Ended' = Ended
    BY <1>1, SameTasks
<1>3. session' \in SessionRecord /\ ~session'.connected /\ ~session'.dirty
      /\ session'.lastId = session.lastId
    BY <1>1, BrokenType DEF Inv, Types
<1>4. Types'
    BY <1>1, <1>3 DEF Inv, Types
<1>5. Ids'
    BY <1>1, <1>2, <1>3 DEF Inv, Ids, OwnOrNone
<1>6. Transactions'
    BY <1>3 DEF Transactions
<1>. QED  BY <1>2, <1>4, <1>5, <1>6 DEF Inv

\* The accessor "connected", and the inserts of other sessions.
LEMMA AsideInv ==
    ASSUME Places, Inv,
           UNCHANGED <<schedVars, job, calls, m_autoReconnect, begun, session>>,
           mainInDriver' \in BOOLEAN, nextId' \in 1..MaxId + 1
    PROVE  Inv'
<1>1. Order' /\ Progress' /\ working' = working /\ Ended' = Ended
    BY SameTasks
<1>2. Types'
    BY DEF Inv, Types
<1>3. Ids' /\ Transactions'
    BY <1>1 DEF Inv, Ids, OwnOrNone, Transactions, Ends
<1>. QED  BY <1>1, <1>2, <1>3 DEF Inv

LEMMA NextInv == Places /\ Places' /\ Inv /\ [Next]_vars => Inv'
<1>. SUFFICES ASSUME Places, Places', Inv, [Next]_vars PROVE Inv'
    OBVIOUS
<1>1. CASE UNCHANGED vars
    BY <1>1, AsideInv DEF vars, Inv, Types
<1>2. ASSUME NEW j \in Job, NEW kind \in Kind, Ask(j, kind) PROVE Inv'
    BY <1>2, AskInv
<1>3. CASE IsConnectedBegin \/ IsConnectedEnd
    BY <1>3, AsideInv DEF IsConnectedBegin, IsConnectedEnd, Inv, Types
<1>4. CASE OtherInserts
    <2>1. nextId' \in 1..MaxId + 1
        BY <1>4, ConnectionAssumption DEF OtherInserts, Inv, Types
    <2>. QED  BY <1>4, <2>1, AsideInv DEF OtherInserts, Inv, Types
<1>5. ASSUME NEW j \in Job,
             \/ ExecuteQuery(j) \/ ExecuteUpdate(j) \/ ExecuteInsert(j) \/ SelectLastInsertId(j)
             \/ BeginTransaction(j) \/ CommitOrRollback(j) \/ EndTransaction(j)
             \/ CallFails(j) \/ Reopen(j) \/ WorkEnd(j)
      PROVE  Inv'
    BY <1>5, ExecuteQueryInv, ExecuteUpdateInv, ExecuteInsertInv, SelectLastInsertIdInv,
       BeginTransactionInv, CommitOrRollbackInv, EndTransactionInv, CallFailsInv, ReopenInv,
       WorkEndInv
<1>. QED
    BY <1>1, <1>2, <1>3, <1>4, <1>5, WorkBeginInv, AfterWorkInv, AfterWorkDoneInv,
       ConnectionBreaksInv DEF Next

LEMMA ConnectionInvariant == Safe => [](Places /\ Inv)
BY InitInv, NextInv, PlacesAlways, PTL DEF Safe

\* A driver call makes no task of another kind, and only a begin takes the
\* session out of autocommit mode: src/TaskTransaction.cpp:11-61.
LEMMA DriverKeepsKinds ==
    ASSUME Places, Inv, NEW j \in Job, NEW c, NEW s \in SessionRecord, NEW t \in TaskRecord,
           t.kind = job[j].kind, t.made = job[j].made, DriverCall(j, c, s, t)
    PROVE  /\ UNCHANGED schedVars /\ begun' = begun
           /\ Busy(j) /\ NextCall(j) = c /\ session.connected
           /\ \A x \in Job : job'[x].kind = job[x].kind
           /\ session'.connected => /\ session' = s /\ ~job'[j].failed
                                    /\ job'[j].made = job[j].made + 1
<1>1. PICK lost \in BOOLEAN :
         /\ session' = IF lost THEN Broken(s) ELSE s
         /\ job' = [job EXCEPT ![j] = AfterCall(t, t.made + 1, lost)]
    BY Zenon DEF DriverCall, AfterCall
<1>2. Busy(j) /\ t.made + 1 \in 0..2
    BY NextCalls DEF DriverCall, Inv
<1>. DEFINE u == AfterCall(t, t.made + 1, lost)
<1>3. u.kind = t.kind /\ u.made = t.made + 1 /\ u.failed = lost
    BY <1>2, TaskAfterCall
<1>. HIDE DEF u
<1>4. job'[j] = u /\ \A x \in Job : x # j => job'[x] = job[x]
    BY <1>1 DEF Inv, Types, u
<1>5. session'.connected => session' = s /\ lost = FALSE
    BY <1>1, BrokenType
<1>. QED  BY <1>2, <1>3, <1>4, <1>5 DEF DriverCall

LEMMA DriverKeeps ==
    ASSUME Places, Inv, NEW j \in Job,
           \/ ExecuteQuery(j) \/ ExecuteUpdate(j) \/ ExecuteInsert(j) \/ SelectLastInsertId(j)
           \/ BeginTransaction(j) \/ CommitOrRollback(j) \/ EndTransaction(j)
    PROVE  /\ UNCHANGED schedVars /\ begun' = begun
           /\ session.connected /\ Busy(j) /\ j \in working
           /\ \A x \in Job : job'[x].kind = job[x].kind
           /\ session'.connected => /\ ~job'[j].failed
                                    /\ job'[j].made = job[j].made + 1
                                    /\ \/ session'.autocommit
                                       \/ session'.autocommit = session.autocommit
                                       \/ job[j].kind = "begin" /\ job[j].made = 0
<1>0. /\ job[j] \in TaskRecord /\ session \in SessionRecord /\ Written \in SessionRecord
      /\ Written.autocommit = session.autocommit
    BY SessionOfTask
<1>b. Busy(j) => j \in working
    BY DEF Busy
<1>1. CASE ExecuteQuery(j)
    BY <1>0, <1>b, <1>1, DriverKeepsKinds DEF ExecuteQuery
<1>2. CASE ExecuteUpdate(j)
    BY <1>0, <1>b, <1>2, DriverKeepsKinds DEF ExecuteUpdate
<1>3. CASE ExecuteInsert(j)
    <2>. DEFINE s == [Written EXCEPT !.lastId = nextId]
                t == [job[j] EXCEPT !.inserted = nextId]
    <2>1. DriverCall(j, "executeUpdate", s, t) /\ nextId \in 0..MaxId
        BY <1>3, ConnectionAssumption DEF ExecuteInsert, Inv, Types
    <2>2. s \in SessionRecord /\ s.autocommit = session.autocommit
        BY <1>0, <1>b, <2>1 DEF SessionRecord
    <2>3. t \in TaskRecord /\ t.kind = job[j].kind /\ t.made = job[j].made
        BY <1>0, <2>1 DEF TaskRecord
    <2>. HIDE DEF s, t
    <2>. QED  BY <1>b, <2>1, <2>2, <2>3, DriverKeepsKinds
<1>4. CASE SelectLastInsertId(j)
    <2>. DEFINE t == [job[j] EXCEPT !.lastId = session.lastId]
    <2>1. DriverCall(j, "selectLastInsertId", session, t)
        BY <1>4 DEF SelectLastInsertId
    <2>2. t \in TaskRecord /\ t.kind = job[j].kind /\ t.made = job[j].made
        BY <1>0 DEF TaskRecord, SessionRecord
    <2>. HIDE DEF t
    <2>. QED  BY <1>0, <1>b, <2>1, <2>2, DriverKeepsKinds
<1>5. CASE BeginTransaction(j)
    <2>. DEFINE s == [session EXCEPT !.autocommit = FALSE]
    <2>1. DriverCall(j, "setAutoCommitFalse", s, job[j])
        BY <1>5 DEF BeginTransaction
    <2>2. s \in SessionRecord
        BY <1>0 DEF SessionRecord
    <2>3. job[j].kind = "begin" /\ job[j].made = 0
        BY <2>1, NextCalls DEF DriverCall, Inv, Busy
    <2>. HIDE DEF s
    <2>. QED  BY <1>0, <1>b, <2>1, <2>2, <2>3, DriverKeepsKinds
<1>6. CASE CommitOrRollback(j)
    <2>. DEFINE s == [session EXCEPT !.dirty = FALSE]
    <2>1. PICK c : DriverCall(j, c, s, job[j])
        BY <1>6 DEF CommitOrRollback
    <2>2. s \in SessionRecord /\ s.autocommit = session.autocommit
        BY <1>0 DEF SessionRecord
    <2>. HIDE DEF s
    <2>. QED  BY <1>0, <1>b, <2>1, <2>2, DriverKeepsKinds
<1>7. CASE EndTransaction(j)
    <2>. DEFINE s == [session EXCEPT !.autocommit = TRUE, !.dirty = FALSE]
    <2>1. DriverCall(j, "setAutoCommitTrue", s, job[j])
        BY <1>7 DEF EndTransaction
    <2>2. s \in SessionRecord /\ s.autocommit
        BY <1>0 DEF SessionRecord
    <2>. HIDE DEF s
    <2>. QED  BY <1>0, <1>b, <2>1, <2>2, DriverKeepsKinds
<1>. QED  BY <1>1, <1>2, <1>3, <1>4, <1>5, <1>6, <1>7

-----------------------------------------------------------------------------
(* Theorems.                                                               *)

\* Tasks, session and scheduler keep their types; the counter of the
\* scheduler, an unsigned int, is not decreased below 0.
THEOREM TypesAreKept == Safe => []TypeOK
<1>1. Inv /\ SchedProofs!Inv => TypeOK
    <2>. SUFFICES ASSUME Inv, SchedProofs!Inv PROVE TypeOK
        OBVIOUS
    <2>1. Sched!TypeOK
        BY DEF SchedProofs!Inv, SchedProofs!TypeOK, Sched!TypeOK
    <2>. QED  BY <2>1 DEF TypeOK, Inv, Types, TaskRecord, SessionRecord
<1>. QED  BY <1>1, ConnectionInvariant, SchedInvariant, PTL

\* Callbacks run in the order of the calls: src/Connection.cpp:93-95,
\* src/Scheduler.cpp:6-69.
THEOREM AnswersInOrder == Safe => []AnsweredInOrder
<1>1. Places /\ Inv => AnsweredInOrder
    <2>. SUFFICES ASSUME Places, Inv, NEW j \in Sched!Known, inAfter # NoJob, j # inAfter
                  PROVE  job[inAfter].number < job[j].number
        BY DEF AnsweredInOrder
    <2>1. inAfter \in InFlight
        BY DEF InFlight, Ended, Sched!After
    <2>2. j \in Range(m_tasks)
        <3>1. j \in Range(m_tasks) \cup InFlight
            BY SameInFlight DEF Sched!Known, Sched!Range, Range
        <3>. QED  BY <2>1, <3>1 DEF Places
    <2>. QED  BY <2>1, <2>2 DEF Inv, Order
<1>. QED  BY <1>1, ConnectionInvariant, PTL

LEMMA SucceededTasks ==
    ASSUME Places, Inv, NEW j \in Succeeded
    PROVE  j \in Job /\ j \in Ended /\ ~job[j].failed /\ job[j].made = Total(j)
           /\ job[j].kind \in Kind
BY TasksAreJobs DEF Succeeded, Ended, Inv, Progress, Types, TaskRecord

\* With fetchLastInsertId a callback gets the id of its own row:
\* src/TaskQueryExecute.cpp:10-59.
THEOREM IdsAreOwn == Safe => []OwnInsertId
<1>1. Places /\ Inv => OwnInsertId
    <2>. SUFFICES ASSUME Places, Inv, NEW j \in Succeeded,
                         job[j].kind = "executeId", job[j].inserted # 0
                  PROVE  OwnOrNone(job[j].lastId, j)
        BY DEF OwnInsertId, OwnOrNone
    <2>1. j \in Ended /\ ~job[j].failed /\ job[j].made = 2
        BY SucceededTasks, CallsOfKinds DEF Total
    <2>. QED  BY <2>1 DEF Inv, Ids
<1>. QED  BY <1>1, ConnectionInvariant, PTL

\* A commit or rollback that reports success has ended the transaction:
\* src/TaskTransaction.cpp:11-61.
THEOREM TransactionsEnd == Safe => []EndedTransaction
<1>1. Places /\ Inv => EndedTransaction
    <2>. SUFFICES ASSUME Places, Inv, NEW j \in Succeeded, Ends(j), session.connected
                  PROVE  session.autocommit /\ ~session.dirty
        BY DEF EndedTransaction, Ends
    <2>1. j \in Ended /\ ~job[j].failed /\ job[j].made = 2
        BY SucceededTasks, CallsOfKinds DEF Total, Ends
    <2>. QED  BY <2>1 DEF Inv, Transactions
<1>. QED  BY <1>1, ConnectionInvariant, PTL

\* The only steps in which the server executes an update of task j.
LEMMA OnlyUpdates ==
    ASSUME Places, Inv, Next, NEW j \in Job,
           job[j].kind \in {"execute", "executeId"}, job[j].made = 0, job'[j].made = 1
    PROVE  ExecuteUpdate(j) \/ ExecuteInsert(j)
<1>1. job \in [Job -> TaskRecord]
    BY DEF Inv, Types
<1>2. job' # job
    OBVIOUS
<1>3. ASSUME NEW x \in Job, NEW kind \in Kind, Ask(x, kind) PROVE FALSE
    <2>1. job'[j].made = 0
        BY <1>1, <1>3 DEF Ask, NewTask
    <2>. QED  BY <2>1
<1>4. ~AfterWorkDone
    <2>. SUFFICES ASSUME AfterWorkDone PROVE FALSE
        OBVIOUS
    <2>1. job'[j].made = 0
        BY <1>1 DEF AfterWorkDone, NewTask
    <2>. QED  BY <2>1
<1>5. ASSUME NEW x \in Job, CallFails(x) PROVE FALSE
    <2>1. job'[j].made = job[j].made
        BY <1>1, <1>5 DEF CallFails, TaskRecord
    <2>. QED  BY <2>1
<1>6. ASSUME NEW x \in Job, NEW c, NEW s, NEW t, DriverCall(x, c, s, t)
      PROVE  x = j /\ Busy(j) /\ NextCall(j) = c
    BY <1>1, <1>6 DEF DriverCall
<1>7. ASSUME NEW x \in Job,
             \/ ExecuteQuery(x) \/ ExecuteUpdate(x) \/ ExecuteInsert(x) \/ SelectLastInsertId(x)
             \/ BeginTransaction(x) \/ CommitOrRollback(x) \/ EndTransaction(x)
      PROVE  ExecuteUpdate(j) \/ ExecuteInsert(j)
    <2>1. CASE ExecuteUpdate(x) \/ ExecuteInsert(x)
        BY <1>6, <2>1 DEF ExecuteUpdate, ExecuteInsert
    <2>2. CASE ExecuteQuery(x)
        BY <1>6, <2>2, NextCalls DEF ExecuteQuery, Inv
    <2>3. CASE SelectLastInsertId(x)
        BY <1>6, <2>3, NextCalls DEF SelectLastInsertId, Inv
    <2>4. CASE BeginTransaction(x)
        BY <1>6, <2>4, NextCalls DEF BeginTransaction, Inv
    <2>5. CASE CommitOrRollback(x)
        BY <1>6, <2>5, NextCalls DEF CommitOrRollback, Inv, Ends
    <2>6. CASE EndTransaction(x)
        BY <1>6, <2>6, NextCalls DEF EndTransaction, Inv, Ends
    <2>. QED  BY <1>7, <2>1, <2>2, <2>3, <2>4, <2>5, <2>6
<1>8. ASSUME NEW x \in Job, Reopen(x) \/ WorkEnd(x) PROVE FALSE
    BY <1>2, <1>8 DEF Reopen, WorkEnd
<1>9. ~(IsConnectedBegin \/ IsConnectedEnd \/ WorkBegin \/ AfterWork \/ ConnectionBreaks
        \/ OtherInserts)
    BY <1>2 DEF IsConnectedBegin, IsConnectedEnd, WorkBegin, AfterWork, ConnectionBreaks,
                OtherInserts
<1>. QED  BY <1>3, <1>4, <1>5, <1>7, <1>8, <1>9 DEF Next

\* Without reconnection, what runs between a begin and a commit or rollback is
\* in the transaction: src/TaskTransaction.cpp:11-61.
THEOREM TransactionsCover == Safe => CoversWithoutReconnect
<1>1. Places /\ Inv /\ [Next]_vars =>
         [\A j \in Job : ~m_autoReconnect /\ begun /\ Updates(j) /\ session'.connected
                            => session'.dirty]_vars
    <2>. SUFFICES ASSUME Places, Inv, Next, NEW j \in Job, ~m_autoReconnect, begun,
                         Updates(j), session'.connected
                  PROVE  session'.dirty
        OBVIOUS
    <2>1. job[j].kind \in {"execute", "executeId"} /\ job[j].made = 0 /\ job'[j].made = 1
        BY DEF Updates
    <2>2. ExecuteUpdate(j) \/ ExecuteInsert(j)
        BY <2>1, OnlyUpdates
    <2>3. Busy(j) /\ NextCall(j) = "executeUpdate" /\ session.connected
        BY <2>2 DEF ExecuteUpdate, ExecuteInsert, DriverCall
    <2>4. ~session.autocommit
        <3>1. \A x \in working : x = j
            BY <2>3 DEF Busy, Places, InFlight
        <3>. QED  BY <2>1, <2>3, <3>1 DEF Inv, Transactions, Ends
    <2>5. Written.dirty /\ Written \in SessionRecord
        BY <2>4, SessionOfTask
    <2>6. CASE ExecuteUpdate(j)
        <3>1. session' = Written \/ session' = Broken(Written)
            BY <2>6 DEF ExecuteUpdate, DriverCall
        <3>. QED  BY <2>5, <3>1, BrokenType
    <2>7. CASE ExecuteInsert(j)
        <3>. DEFINE s == [Written EXCEPT !.lastId = nextId]
        <3>1. session' = s \/ session' = Broken(s)
            BY <2>7 DEF ExecuteInsert, DriverCall
        <3>2. nextId \in 0..MaxId
            BY <2>7, ConnectionAssumption DEF ExecuteInsert, Inv, Types
        <3>3. s \in SessionRecord /\ s.dirty
            BY <2>5, <3>2 DEF SessionRecord
        <3>. HIDE DEF s
        <3>. QED  BY <3>1, <3>3, BrokenType
    <2>. QED  BY <2>2, <2>6, <2>7
<1>. QED  BY <1>1, ConnectionInvariant, PTL DEF Safe, CoversWithoutReconnect

-----------------------------------------------------------------------------
(* What the repository says of the connection and the code does not keep   *)
(* for every program: the programs and the drivers for which it holds.     *)

\* src/Connection.cpp:23: "Use one thread per connection". It is so when the
\* program reads "connected" in a callback of the connection, or when all its
\* calls are answered: no task is on a thread then, and none gets there before
\* the accessor returns.
THEOREM ConnectedInCallbacks ==
    Safe /\ [][IsConnectedBegin => Sched!After # {} \/ Sched!Known = {}]_vars
        => []OneThreadInDriver
<1>. DEFINE Alone == mainInDriver => working = {} /\ uvQueue = <<>>
            Asks == IsConnectedBegin => Sched!After # {} \/ Sched!Known = {}
<1>1. Init => Alone
    BY DEF Init
<1>2. Places /\ Alone /\ [Next]_vars /\ [Asks]_vars => Alone'
    <2>. SUFFICES ASSUME Places, Alone, Next, Asks, mainInDriver'
                  PROVE  working' = {} /\ uvQueue' = <<>>
        BY DEF vars, schedVars
    <2>1. CASE IsConnectedBegin
        <3>1. Range(uvQueue) = {} /\ working = {}
            <4>1. CASE Sched!After # {}
                BY <4>1 DEF Places, InFlight, Ended, Sched!After
            <4>2. CASE Sched!Known = {}
                BY <4>2, SameInFlight DEF Sched!Known, InFlight
            <4>. QED  BY <2>1, <4>1, <4>2
        <3>2. uvQueue = <<>>
            BY <3>1, TailOf DEF Places
        <3>. QED  BY <2>1, <3>1, <3>2 DEF IsConnectedBegin, schedVars
    <2>2. ASSUME ~IsConnectedBegin
          PROVE  mainInDriver /\ working = {} /\ uvQueue = <<>>
        BY <2>2 DEF Next, Ask, IsConnectedEnd, WorkBegin, ExecuteQuery, ExecuteUpdate,
           ExecuteInsert, SelectLastInsertId, BeginTransaction, CommitOrRollback, EndTransaction,
           DriverCall, CallFails, Reopen, WorkEnd, AfterWork, AfterWorkDone, ConnectionBreaks,
           OtherInserts
    <2>3. ASSUME ~IsConnectedBegin PROVE UNCHANGED <<working, uvQueue>>
        BY <2>2, <2>3 DEF Next, Ask, IsConnectedEnd, WorkBegin, Sched!WorkBegin, ExecuteQuery,
           ExecuteUpdate, ExecuteInsert, SelectLastInsertId, BeginTransaction, CommitOrRollback,
           EndTransaction, DriverCall, CallFails, Reopen, WorkEnd, Sched!WorkEnd, AfterWork,
           AfterWorkDone, ConnectionBreaks, OtherInserts, schedVars
    <2>. QED  BY <2>1, <2>2, <2>3
<1>3. Alone => OneThreadInDriver
    BY DEF OneThreadInDriver, Busy
<1>. QED  BY <1>1, <1>2, <1>3, PlacesAlways, PTL DEF Safe

\* A begin that the server has executed and that has not yet returned.
Beginning == \E j \in working : job[j].kind = "begin" /\ job[j].made = 1 /\ ~job[j].failed

\* Out of autocommit mode only after a begin; a commit or rollback that failed
\* lost the connection.
NoneLeft ==
    /\ session.connected /\ ~session.autocommit => begun \/ Beginning
    /\ \A j \in working : Ends(j) /\ job[j].failed => ~session.connected

\* What commit and rollback must not do, and the driver may.
EndFails == \E j \in Job : Ends(j) /\ CallFails(j)

LEMMA NoneLeftSame ==
    ASSUME Places, Inv, NoneLeft, working' \subseteq working, begun' = begun,
           session' = session, \A j \in working : job'[j] = job[j] /\ j \in working'
    PROVE  NoneLeft'
BY DEF NoneLeft, Beginning, Ends

LEMMA NoneLeftWorkEnd ==
    ASSUME Places, Inv, NoneLeft, NEW j \in Job, WorkEnd(j)
    PROVE  NoneLeft'
<1>1. /\ UNCHANGED <<job, session>> /\ working' = working \ {j} /\ j \in working /\ ~Busy(j)
      /\ begun' = CASE job[j].kind = "begin" /\ ~job[j].failed -> TRUE
                    [] Ends(j) -> FALSE
                    [] OTHER -> begun
    BY DEF WorkEnd, Sched!WorkEnd, Ends
<1>2. working' = {}
    BY <1>1, OneInFlight
<1>3. Ends(j) /\ session.connected => session.autocommit
    <2>. SUFFICES ASSUME Ends(j), session.connected PROVE session.autocommit
        OBVIOUS
    <2>1. ~job[j].failed
        BY <1>1 DEF NoneLeft
    <2>2. job[j].made = 2
        BY <1>1, <2>1, CallsOfKinds DEF Busy, Inv, Progress, Total, Types, TaskRecord, Ends
    <2>. QED  BY <1>1, <2>1, <2>2 DEF Inv, Transactions
<1>4. Beginning => job[j].kind = "begin" /\ ~job[j].failed
    BY <1>1, OneInFlight DEF Beginning
<1>5. Ends(j) => job[j].kind # "begin"
    BY DEF Ends
<1>6. session.connected /\ ~session.autocommit => begun'
    BY <1>1, <1>3, <1>4, <1>5 DEF NoneLeft
<1>. QED  BY <1>1, <1>2, <1>6 DEF NoneLeft

LEMMA NoneLeftNext ==
    Places /\ Inv /\ NoneLeft /\ [Next]_vars /\ [~EndFails]_vars => NoneLeft'
<1>. SUFFICES ASSUME Places, Inv, NoneLeft, [Next]_vars, [~EndFails]_vars PROVE NoneLeft'
    OBVIOUS
<1>1. CASE UNCHANGED vars
    BY <1>1 DEF vars, schedVars, NoneLeft, Beginning, Ends
<1>2. ASSUME NEW j \in Job, NEW kind \in Kind, Ask(j, kind) PROVE NoneLeft'
    <2>1. j \notin working /\ UNCHANGED <<working, begun, session>>
        BY <1>2, SameInFlight DEF Ask, Sched!AddTask, Sched!Known, InFlight
    <2>2. \A x \in working : job'[x] = job[x]
        BY <1>2, <2>1 DEF Ask, Inv, Types, Places
    <2>. QED  BY <2>1, <2>2, NoneLeftSame
<1>3. CASE IsConnectedBegin \/ IsConnectedEnd \/ OtherInserts
    BY <1>3, NoneLeftSame DEF IsConnectedBegin, IsConnectedEnd, OtherInserts, schedVars
<1>4. CASE WorkBegin
    <2>1. UNCHANGED <<job, begun, session>>
        BY <1>4 DEF WorkBegin
    <2>2. PICK h \in Range(uvQueue) : working' = working \cup {h}
        BY <1>4, TailOf DEF WorkBegin, Sched!WorkBegin, Places
    <2>3. ~job[h].failed
        BY <2>2 DEF Inv, Progress
    <2>. QED  BY <2>1, <2>2, <2>3 DEF NoneLeft, Beginning, Ends
<1>5. CASE AfterWork
    BY <1>5, NoneLeftSame DEF AfterWork, Sched!AfterWork
<1>6. CASE AfterWorkDone
    <2>1. inAfter \in Ended /\ UNCHANGED <<working, begun, session>>
        BY <1>6 DEF AfterWorkDone, Sched!AfterWorkDone, Ended, Sched!After
    <2>2. \A x \in working : job'[x] = job[x]
        BY <1>6, <2>1 DEF AfterWorkDone, Inv, Types, Places
    <2>. QED  BY <2>1, <2>2, NoneLeftSame
<1>7. CASE ConnectionBreaks
    <2>1. ~session'.connected /\ UNCHANGED <<working, job>>
        BY <1>7, BrokenType DEF ConnectionBreaks, schedVars, Inv, Types
    <2>. QED  BY <2>1 DEF NoneLeft
<1>8. ASSUME NEW j \in Job, WorkEnd(j) PROVE NoneLeft'
    BY <1>8, NoneLeftWorkEnd
<1>9. ASSUME NEW j \in Job, Reopen(j) PROVE NoneLeft'
    <2>1. session'.autocommit /\ UNCHANGED <<working, job>> /\ j \in working /\ ~job[j].failed
        BY <1>9 DEF Reopen, NewSession, schedVars, Busy
    <2>. QED  BY <2>1, OneInFlight DEF NoneLeft
<1>10. ASSUME NEW j \in Job, CallFails(j) PROVE NoneLeft'
    <2>1. /\ UNCHANGED <<working, begun, session>> /\ Busy(j) /\ j \in working
          /\ job' = [job EXCEPT ![j].failed = TRUE]
        BY <1>10 DEF CallFails, schedVars, Busy
    <2>2. job'[j].kind = job[j].kind /\ job[j] \in TaskRecord
        BY <2>1 DEF Inv, Types, TaskRecord
    <2>3. job' # job
        BY <2>1 DEF Inv, Types, TaskRecord, Busy
    <2>4. ~Ends(j)
        BY <1>10, <2>3 DEF EndFails, vars
    <2>5. ~Beginning
        <3>1. job[j].kind = "begin" => job[j].made = 0
            BY <2>1, CallsOfKinds, NextCalls DEF Busy, Inv, Types, TaskRecord
        <3>. QED  BY <2>1, <3>1, OneInFlight DEF Beginning
    <2>. QED  BY <2>1, <2>2, <2>4, <2>5, OneInFlight DEF NoneLeft, Ends
<1>11. ASSUME NEW j \in Job,
              \/ ExecuteQuery(j) \/ ExecuteUpdate(j) \/ ExecuteInsert(j) \/ SelectLastInsertId(j)
              \/ BeginTransaction(j) \/ CommitOrRollback(j) \/ EndTransaction(j)
       PROVE  NoneLeft'
    <2>1. /\ UNCHANGED schedVars /\ begun' = begun /\ session.connected
          /\ Busy(j) /\ j \in working
          /\ \A x \in Job : job'[x].kind = job[x].kind
          /\ session'.connected => /\ ~job'[j].failed
                                   /\ job'[j].made = job[j].made + 1
                                   /\ \/ session'.autocommit
                                      \/ session'.autocommit = session.autocommit
                                      \/ job[j].kind = "begin" /\ job[j].made = 0
        BY <1>11, DriverKeeps
    <2>2. working' = working /\ \A x \in working : x = j
        BY <2>1, OneInFlight DEF schedVars
    <2>3. CASE ~session'.connected
        BY <2>3 DEF NoneLeft
    <2>4. CASE session'.connected
        <3>1. session'.autocommit = session.autocommit => session'.autocommit \/ begun'
            <4>1. ~Beginning
                <5>1. job[j].kind = "begin" => job[j].made = 0
                    BY <2>1, CallsOfKinds DEF Busy, Inv, Types, TaskRecord
                <5>. QED  BY <2>2, <5>1 DEF Beginning
            <4>. QED  BY <2>1, <4>1 DEF NoneLeft
        <3>2. job[j].kind = "begin" /\ job[j].made = 0 => Beginning'
            BY <2>1, <2>2, <2>4 DEF Beginning
        <3>. QED  BY <2>1, <2>2, <2>4, <3>1, <3>2 DEF NoneLeft
    <2>. QED  BY <2>3, <2>4
<1>. QED
    BY <1>1, <1>2, <1>3, <1>4, <1>5, <1>6, <1>7, <1>8, <1>9, <1>10, <1>11 DEF Next

\* src/Connection.h:53-56: without a begin since the last commit or rollback the
\* session commits by itself. It is so unless a driver call of a commit or
\* rollback fails; that the connection breaks, with reconnection or without,
\* does no harm.
THEOREM CommitsByItself == Safe /\ [][~EndFails]_vars => []NoTransactionLeft
<1>1. Init => NoneLeft
    BY DEF Init, Sched!Init, NoneLeft, NewSession
<1>2. NoneLeft => NoTransactionLeft
    BY DEF NoneLeft, Beginning, NoTransactionLeft
<1>. QED  BY <1>1, <1>2, NoneLeftNext, ConnectionInvariant, PTL DEF Safe

-----------------------------------------------------------------------------
(* The connection and its scheduler.                                       *)

\* The Scheduler of a Connection keeps the promise of src/Scheduler.h:11-31 to
\* the tasks that MysqlConnection gives it, with a limit of 1: each is run once
\* and answered, in the order of the calls (src/Connection.cpp:93-95).
THEOREM ConnectionServesTasks == Safe => SchedProofs!Service!Safe
<1>1. Init => SchedProofs!Init
    BY DEF Init, Sched!Init, SchedProofs!Init
<1>2. Safe => SchedProofs!Safe
    BY <1>1, SchedStep, PTL DEF Safe, SchedProofs!Safe
<1>3. SchedProofs!Safe => SchedProofs!Service!Safe
    BY SchedAssumption, SchedProofs!SchedulerRefinesService
<1>. QED  BY <1>2, <1>3, PTL

=============================================================================
