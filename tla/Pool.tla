-------------------------------- MODULE Pool --------------------------------
(***************************************************************************)
(* How JavaScript obtains connections: mysql.connect, Pool.getConnection   *)
(* and MysqlConnection.release, with the TaskConnection objects that the   *)
(* static Scheduler PoolWrapper::async runs, the uv_idle handles that give *)
(* back a free connection, and the garbage collector.                      *)
(*                                                                         *)
(* Everything but TaskConnection::asyncWork runs on the main thread, so a  *)
(* call from JavaScript is one step. It may happen while afterWorkCallback *)
(* is on the stack (inAfter # NoCall): a callback may call everything.     *)
(***************************************************************************)
EXTENDS Integers, Sequences, SequencesExt, FiniteSets, Functions

CONSTANTS
    Call,       \* calls of connect and getConnection, reusable once answered
    Conn,       \* Connection objects; all the sessions the server accepts
    MaxPools,   \* Pool objects a program creates
    PoolSize,   \* ConnectionOptions::getPoolSize
    Threads,    \* threads libuv's pool gives to PoolWrapper::async
    NoCall,
    NoConn

ASSUME PoolAssumption ==
    /\ IsFiniteSet(Call) /\ NoCall \notin Call
    /\ IsFiniteSet(Conn) /\ NoConn \notin Conn
    /\ MaxPools \in Nat \ {0}
    /\ PoolSize \in Nat \ {0}
    /\ Threads \in Nat \ {0}

PoolId == 1..MaxPools
NoPool == 0             \* the m_poolId of a connection made by mysql.connect

VARIABLES
    \* PoolWrapper::async
    m_concurrent, m_tasks, uvQueue, working, finished, inAfter,
    \* PoolWrapper, by id
    nextPoolId,
    pools,                  \* ids of the pools that are not destroyed
    m_createdConnections,
    m_availableConnections, \* a stack, as back and pop_back use it
    m_waitingCallbacks,     \* a stack too
    \* calls and connections
    call,                   \* what a TaskConnection or a CallbackData holds
    idle,                   \* calls that a started uv_idle handle will answer
    m_poolId,               \* Connection::m_poolId
    alive,                  \* Connection objects that are not deleted
    wrapped                 \* connections that a MysqlConnection object owns

asyncVars == <<m_concurrent, m_tasks, uvQueue, working, finished, inAfter>>
poolVars == <<nextPoolId, pools, m_createdConnections, m_availableConnections,
              m_waitingCallbacks>>
connVars == <<m_poolId, alive, wrapped>>
vars == <<asyncVars, poolVars, call, idle, connVars>>

Async == INSTANCE Scheduler WITH
    Task <- Call, MaxConcurrent <- 1, NoTask <- NoCall

Blank == [poolId |-> NoPool, callback |-> FALSE, connection |-> NoConn]

Waiting(p) == Range(m_waitingCallbacks[p])
Available(p) == Range(m_availableConnections[p])

\* Calls not answered yet.
Open == Async!Known \cup idle \cup UNION {Waiting(p) : p \in PoolId}

Init ==
    /\ Async!Init
    /\ nextPoolId = 1
    /\ pools = {}
    /\ m_createdConnections = [p \in PoolId |-> 0]
    /\ m_availableConnections = [p \in PoolId |-> <<>>]
    /\ m_waitingCallbacks = [p \in PoolId |-> <<>>]
    /\ call = [r \in Call |-> Blank]
    /\ idle = {}
    /\ m_poolId = [c \in Conn |-> NoPool]
    /\ alive = {}
    /\ wrapped = {}

\* Mutant: the number of connections is compared with one too few.
MayCreateOffByOne(p) == m_createdConnections[p] < PoolSize - 1

\* Mutant: the number of connections is compared with one too many.
MayCreateTooMany(p) == m_createdConnections[p] <= PoolSize

\* Pool p may open one more connection.
MayCreate(p) == m_createdConnections[p] < PoolSize

\* new mysql.Pool(options)
NewPool ==
    /\ nextPoolId \in PoolId
    /\ nextPoolId' = nextPoolId + 1
    /\ pools' = pools \cup {nextPoolId}
    /\ UNCHANGED <<asyncVars, m_createdConnections, m_availableConnections,
                   m_waitingCallbacks, call, idle, connVars>>

\* mysql.connect(options, callback). An argument that is no function throws,
\* but the task is added all the same, without a callback.
Connect(r, callback) ==
    /\ r \notin Open
    /\ call' = [call EXCEPT ![r].callback = callback]
    /\ Async!AddTask(r)
    /\ UNCHANGED <<poolVars, idle, connVars>>

\* Mutant: data->connection is not set.
AddIdleWithoutConnection(p, r, callback, c) ==
    /\ idle' = idle \cup {r}
    /\ call' = [call EXCEPT ![r] =
                   [poolId |-> p, callback |-> callback, connection |-> NoConn]]

\* addIdle: the event loop will answer call r of pool p with connection c.
AddIdle(p, r, callback, c) ==
    /\ idle' = idle \cup {r}
    /\ call' = [call EXCEPT ![r] =
                   [poolId |-> p, callback |-> callback, connection |-> c]]

GetConnection(p, r, callback) ==
    /\ p \in pools
    /\ r \notin Open
    /\ \/ /\ m_availableConnections[p] # <<>>
          /\ AddIdle(p, r, callback, Last(m_availableConnections[p]))
          /\ m_availableConnections' = [m_availableConnections EXCEPT ![p] = Front(@)]
          /\ UNCHANGED <<asyncVars, m_waitingCallbacks>>
       \/ /\ m_availableConnections[p] = <<>>
          /\ MayCreate(p)
          /\ call' = [call EXCEPT ![r].poolId = p, ![r].callback = callback]
          /\ Async!AddTask(r)
          /\ UNCHANGED <<idle, m_availableConnections, m_waitingCallbacks>>
       \/ /\ m_availableConnections[p] = <<>>
          /\ ~MayCreate(p)
          /\ call' = [call EXCEPT ![r].poolId = p, ![r].callback = callback]
          /\ m_waitingCallbacks' = [m_waitingCallbacks EXCEPT ![p] = Append(@, r)]
          /\ UNCHANGED <<asyncVars, idle, m_availableConnections>>
    /\ UNCHANGED <<nextPoolId, pools, m_createdConnections, connVars>>

\* A thread begins TaskConnection::asyncWork.
WorkBegin ==
    /\ Async!WorkBegin
    /\ UNCHANGED <<poolVars, call, idle, connVars>>

\* driver->connect returned: the task owns a new Connection.
ConnectSucceeds(r, c) ==
    /\ Async!WorkEnd(r)
    /\ c \notin alive
    /\ alive' = alive \cup {c}
    /\ m_poolId' = [m_poolId EXCEPT ![c] = call[r].poolId]
    /\ call' = [call EXCEPT ![r].connection = c]
    /\ UNCHANGED <<poolVars, idle, wrapped>>

\* driver->connect threw; m_exception is what tells it from a success.
ConnectFails(r) ==
    /\ Async!WorkEnd(r)
    /\ UNCHANGED <<poolVars, call, idle, connVars>>

\* Mutant: the pool does not count the connection.
ConnectionCreatedForgotten(p) == UNCHANGED m_createdConnections

\* connectionCreatedCallback: pool p, if it still exists, has one more.
ConnectionCreatedCallback(p) ==
    m_createdConnections' = [q \in PoolId |->
        m_createdConnections[q] + (IF q = p /\ p \in pools THEN 1 ELSE 0)]

\* Mutant: afterAsyncWork does not look at m_exception.
DeliversUnchecked(r) == call[r].callback

\* The task of call r has a callback and a connection for it.
Delivers(r) == call[r].callback /\ call[r].connection # NoConn

\* TaskConnection::afterAsyncWork up to the JavaScript callback. With a
\* callback and a connection, the pool, if it still exists, counts the
\* connection and a MysqlConnection object takes it from the task.
AfterWork ==
    /\ Async!AfterWork
    /\ LET r == Head(finished)
       IN  \/ /\ Delivers(r)
              /\ ConnectionCreatedCallback(call[r].poolId)
              /\ wrapped' = wrapped \cup {call[r].connection}
              /\ call' = [call EXCEPT ![r].connection = NoConn]
           \/ /\ ~Delivers(r)
              /\ UNCHANGED <<m_createdConnections, wrapped, call>>
    /\ UNCHANGED <<nextPoolId, pools, m_availableConnections, m_waitingCallbacks,
                   idle, m_poolId, alive>>

\* The callback returned: the task is deleted, with the connection that it
\* still owns when there was no callback.
AfterWorkDone ==
    /\ Async!AfterWorkDone
    /\ alive' = alive \ {call[inAfter].connection}
    /\ call' = [call EXCEPT ![inAfter] = Blank]
    /\ UNCHANGED <<poolVars, idle, m_poolId, wrapped>>

\* getConnectionCallback, for a call that got a free connection. Without a
\* callback the CallbackData is deleted and the connection is not.
IdleCallback(r) ==
    /\ inAfter = NoCall
    /\ r \in idle
    /\ idle' = idle \ {r}
    /\ wrapped' = wrapped \cup (IF call[r].callback THEN {call[r].connection} ELSE {})
    /\ call' = [call EXCEPT ![r] = Blank]
    /\ UNCHANGED <<asyncVars, poolVars, m_poolId, alive>>

\* Mutant: the connection given to a waiting call stays available.
CheckWaitingKeepsConnection(p, con) ==
    \/ /\ con # <<>> /\ m_waitingCallbacks[p] # <<>>
       /\ LET r == Last(m_waitingCallbacks[p])
          IN  AddIdle(p, r, call[r].callback, Last(con))
       /\ m_availableConnections' = [m_availableConnections EXCEPT ![p] = con]
       /\ m_waitingCallbacks' = [m_waitingCallbacks EXCEPT ![p] = Front(@)]
    \/ /\ con = <<>> \/ m_waitingCallbacks[p] = <<>>
       /\ m_availableConnections' = [m_availableConnections EXCEPT ![p] = con]
       /\ UNCHANGED <<m_waitingCallbacks, call, idle>>

\* Mutant: the call that gets the connection stays in m_waitingCallbacks.
CheckWaitingKeepsCall(p, con) ==
    \/ /\ con # <<>> /\ m_waitingCallbacks[p] # <<>>
       /\ LET r == Last(m_waitingCallbacks[p])
          IN  AddIdle(p, r, call[r].callback, Last(con))
       /\ m_availableConnections' = [m_availableConnections EXCEPT ![p] = Front(con)]
       /\ UNCHANGED m_waitingCallbacks
    \/ /\ con = <<>> \/ m_waitingCallbacks[p] = <<>>
       /\ m_availableConnections' = [m_availableConnections EXCEPT ![p] = con]
       /\ UNCHANGED <<m_waitingCallbacks, call, idle>>

\* Mutant: releaseConnection does not look for a waiting call.
CheckWaitingForgotten(p, con) ==
    /\ m_availableConnections' = [m_availableConnections EXCEPT ![p] = con]
    /\ UNCHANGED <<m_waitingCallbacks, call, idle>>

\* checkWaitingCallbacks of pool p, whose available connections are con.
CheckWaitingCallbacks(p, con) ==
    \/ /\ con # <<>> /\ m_waitingCallbacks[p] # <<>>
       /\ LET r == Last(m_waitingCallbacks[p])
          IN  AddIdle(p, r, call[r].callback, Last(con))
       /\ m_availableConnections' = [m_availableConnections EXCEPT ![p] = Front(con)]
       /\ m_waitingCallbacks' = [m_waitingCallbacks EXCEPT ![p] = Front(@)]
    \/ /\ con = <<>> \/ m_waitingCallbacks[p] = <<>>
       /\ m_availableConnections' = [m_availableConnections EXCEPT ![p] = con]
       /\ UNCHANGED <<m_waitingCallbacks, call, idle>>

\* Mutant: the connection goes to the newest pool instead of its own.
ReleaseToNewest(c) ==
    /\ c \in wrapped
    /\ m_poolId[c] \in pools /\ nextPoolId - 1 \in pools
    /\ LET p == nextPoolId - 1
       IN  CheckWaitingCallbacks(p, Append(m_availableConnections[p], c))
    /\ wrapped' = wrapped \ {c}
    /\ UNCHANGED <<asyncVars, nextPoolId, pools, m_createdConnections, m_poolId, alive>>

\* connection.release(). Without a pool, or when its pool was destroyed, it
\* does nothing; else the pool gets the connection and the handle is cleared.
Release(c) ==
    /\ c \in wrapped
    /\ m_poolId[c] \in pools
    /\ LET p == m_poolId[c]
       IN  CheckWaitingCallbacks(p, Append(m_availableConnections[p], c))
    /\ wrapped' = wrapped \ {c}
    /\ UNCHANGED <<asyncVars, nextPoolId, pools, m_createdConnections, m_poolId, alive>>

\* The collector takes a MysqlConnection object that owns its connection.
CollectWrapper(c) ==
    /\ c \in wrapped
    /\ wrapped' = wrapped \ {c}
    /\ alive' = alive \ {c}
    /\ UNCHANGED <<asyncVars, poolVars, call, idle, m_poolId>>

\* The collector takes a Pool object: ~PoolWrapper deletes the free
\* connections; the callbacks that wait are dropped.
CollectPool(p) ==
    /\ p \in pools
    /\ pools' = pools \ {p}
    /\ alive' = alive \ Available(p)
    /\ m_availableConnections' = [m_availableConnections EXCEPT ![p] = <<>>]
    /\ m_waitingCallbacks' = [m_waitingCallbacks EXCEPT ![p] = <<>>]
    /\ m_createdConnections' = [m_createdConnections EXCEPT ![p] = 0]
    /\ call' = [r \in Call |-> IF r \in Waiting(p) THEN Blank ELSE call[r]]
    /\ UNCHANGED <<asyncVars, nextPoolId, idle, m_poolId, wrapped>>

\* What a program asks for, each time with a callback.
Ask ==
    \/ NewPool
    \/ \E r \in Call : Connect(r, TRUE) \/ \E p \in PoolId : GetConnection(p, r, TRUE)

\* The same without a callback, or with one that is no function.
AskWithoutCallback ==
    \E r \in Call : Connect(r, FALSE) \/ \E p \in PoolId : GetConnection(p, r, FALSE)

\* The addon and the libraries at work.
Answer ==
    \/ WorkBegin
    \/ \E r \in Call : ConnectFails(r) \/ \E c \in Conn : ConnectSucceeds(r, c)
    \/ AfterWork
    \/ AfterWorkDone
    \/ \E r \in Call : IdleCallback(r)

GiveBack == \E c \in Conn : Release(c)

Collect == (\E c \in Conn : CollectWrapper(c)) \/ (\E p \in PoolId : CollectPool(p))

Next == Ask \/ AskWithoutCallback \/ Answer \/ GiveBack \/ Collect

Safe == Init /\ [][Next]_vars

(***************************************************************************)
(* A program written like the example of README.md: every call has a       *)
(* callback, every connection is released in the end, and the pool and the *)
(* connections in use stay reachable. The event loop and the threads do    *)
(* their part, as in Scheduler; an iteration of the loop runs every idle   *)
(* handle, whatever other callbacks it runs, so IdleCallback is strongly   *)
(* fair.                                                                   *)
(***************************************************************************)
WellBehaved ==
    /\ Init /\ [][Ask \/ Answer \/ GiveBack]_vars
    /\ WF_vars(WorkBegin)
    /\ \A r \in Call : /\ WF_vars(ConnectFails(r) \/ \E c \in Conn : ConnectSucceeds(r, c))
                       /\ SF_vars(IdleCallback(r))
    /\ WF_vars(AfterWork)
    /\ WF_vars(AfterWorkDone)
    /\ \A c \in Conn : WF_vars(Release(c))

-----------------------------------------------------------------------------
(* Properties *)

TypeOK ==
    /\ Async!TypeOK
    /\ nextPoolId \in 1..MaxPools + 1
    /\ pools \subseteq PoolId
    /\ m_createdConnections \in [PoolId -> Nat]
    /\ \A p \in PoolId : /\ m_availableConnections[p] \in Seq(Conn)
                         /\ m_waitingCallbacks[p] \in Seq(Call)
    /\ call \in [Call -> [poolId : PoolId \cup {NoPool}, callback : BOOLEAN,
                          connection : Conn \cup {NoConn}]]
    /\ idle \subseteq Call
    /\ m_poolId \in [Conn -> PoolId \cup {NoPool}]
    /\ alive \subseteq Conn
    /\ wrapped \subseteq Conn

\* Connections that a TaskConnection or a CallbackData holds.
Carried == {call[r].connection : r \in Call} \ {NoConn}

Free == UNION {Available(p) : p \in PoolId}

\* A connection is never with two users, nor with a user and in the pool, nor
\* twice in the pool; and who has it has a connection that is not deleted.
OneOwner ==
    /\ \A p, q \in PoolId : p # q => Available(p) \cap Available(q) = {}
    /\ \A p \in PoolId : IsInjective(m_availableConnections[p])
    /\ \A r, s \in Call : r # s /\ call[r].connection # NoConn
                             => call[r].connection # call[s].connection
    /\ Free \cap Carried = {} /\ Free \cap wrapped = {} /\ Carried \cap wrapped = {}
    /\ Free \cup Carried \cup wrapped \subseteq alive

\* A call is in one place until it is answered, so its callback runs once.
OneAnswer ==
    /\ Async!OnePlace
    /\ Async!Known \cap idle = {}
    /\ \A p \in PoolId : /\ IsInjective(m_waitingCallbacks[p])
                         /\ Waiting(p) \cap (Async!Known \cup idle) = {}
    /\ \A p, q \in PoolId : p # q => Waiting(p) \cap Waiting(q) = {}

\* A call gets a connection of the pool it asked, and release brings the
\* connection back to the pool that made it.
OwnPool ==
    /\ \A r \in Call : call[r].connection # NoConn
                          => m_poolId[call[r].connection] = call[r].poolId
    /\ \A p \in PoolId : \A c \in Available(p) : m_poolId[c] = p

\* No lost wake-up: a call waits only in a pool that exists, has nothing free
\* and may open no further connection, so only a release can help it.
WaitIsJustified == \A p \in PoolId : m_waitingCallbacks[p] # <<>> =>
    /\ p \in pools
    /\ m_availableConnections[p] = <<>>
    /\ m_createdConnections[p] >= PoolSize

\* TaskConnections of pool p that the pool has not counted yet.
Opening(p) == {r \in Async!Known \ Async!After : call[r].poolId = p}

\* A pool counts a connection when it is delivered and compares the count with
\* its size when a connection is asked for: the calls made in between may open
\* more than PoolSize connections, but not more than one for each of them.
OvershootBound == \A p \in PoolId :
    m_createdConnections[p] + Cardinality(Opening(p)) <= PoolSize - 1 + Cardinality(Call)

\* Connections of pool p that a task has delivered, and that exist.
Delivered(p) ==
    {c \in alive : m_poolId[c] = p /\ \A r \in Async!Known : call[r].connection # c}

\* Every connection of a pool that was delivered is counted by it.
EveryConnectionCounted == \A p \in pools :
    Cardinality(Delivered(p)) <= m_createdConnections[p]

\* A pool loses no place in a program that keeps its connections and pools: for
\* each connection that it counts there is one. (A connection that is collected
\* keeps its place, and calls may then wait for ever.)
NoPlaceLost == \A p \in pools : Cardinality(Delivered(p)) = m_createdConnections[p]

\* Two threads are never in driver->connect (src/PoolWrapper.cpp:15-16).
ConnectIsSerial == Cardinality(working) <= 1

\* A waiting call means that somebody will release: the pool never has a
\* waiter and no connection left to give it.
WaiterHasAProvider == \A p \in PoolId : m_waitingCallbacks[p] # <<>> =>
    \E c \in Carried \cup wrapped : m_poolId[c] = p

\* Every call that is not waiting in a pool is answered.
TasksAnswered == \A r \in Call : r \in Async!Known \cup idle ~> r \notin Async!Known \cup idle

\* A pool with waiting calls hands a connection to one of them, sooner or later.
SomeWaiterServed == \A p \in PoolId :
    m_waitingCallbacks[p] # <<>> ~> \E r \in idle : call[r].poolId = p

\* Once no new call is made, every waiting call is answered.
QuietPoolServesAll ==
    <>[][~\E p \in PoolId, r \in Call : GetConnection(p, r, TRUE)]_vars
        => \A r \in Call : r \in Open ~> r \notin Open

\* Where PoolService sees a connection.
Place(c) ==
    CASE c \notin alive -> <<"gone", NoCall>>
      [] c \in Free -> <<"pool", NoCall>>
      [] c \in wrapped -> <<"user", NoCall>>
      [] c \in Carried -> <<"call", CHOOSE r \in Call : call[r].connection = c>>
      [] OTHER -> <<"lost", NoCall>>

Service == INSTANCE PoolService WITH
    open <- pools,
    asked <- Open,
    served <- Async!After,
    wants <- [r \in Call |-> call[r].poolId],
    home <- m_poolId,
    place <- [c \in Conn |-> Place(c)]

\* The pools, the scheduler and the idle handles do what PoolService says.
ImplementsService == Service!Safe

\* README.md says of the option pool: "max 10 connections".
PoolSizeRespected == \A p \in PoolId : m_createdConnections[p] <= PoolSize

\* Every Connection object belongs to somebody who will delete it or give it
\* back, when every call has a callback. (Without one, IdleCallback leaves the
\* connection with nobody: PoolService's Lost.)
NoConnectionLeaked == alive \subseteq Free \cup Carried \cup wrapped

=============================================================================
