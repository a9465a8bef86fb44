----------------------------- MODULE PoolProofs -----------------------------
(***************************************************************************)
(* Proofs about Pool. The scheduler inside it is an instance of Scheduler, *)
(* so the theorems of SchedulerProofs hold of it once every step of Pool   *)
(* is shown to be a step of that scheduler or to leave it alone. The      *)
(* lemmas Same... say that the instance in Pool and the one here have the  *)
(* same actions. The last part is about the collector of released objects. *)
(***************************************************************************)
EXTENDS Collector, FiniteSetTheorems, SequenceTheorems, TLAPS

AsyncProofs == INSTANCE SchedulerProofs WITH
    Task <- Call, MaxConcurrent <- 1, NoTask <- NoCall

LEMMA AsyncAssumption == AsyncProofs!SchedulerAssumption
BY PoolAssumption DEF AsyncProofs!SchedulerAssumption, AsyncProofs!IsFiniteSet, IsFiniteSet

LEMMA SameAddTask == \A t \in Call : Async!AddTask(t) => AsyncProofs!AddTask(t)
BY DEF Async!AddTask, AsyncProofs!AddTask, Async!Known, AsyncProofs!Known,
       Async!InFlight, AsyncProofs!InFlight, Async!After, AsyncProofs!After,
       Async!Range, AsyncProofs!Range, Async!HasRoom, AsyncProofs!HasRoom,
       Async!RunTask, AsyncProofs!RunTask

LEMMA SameWorkBegin == Async!WorkBegin => AsyncProofs!WorkBegin
BY DEF Async!WorkBegin, AsyncProofs!WorkBegin, Async!Cardinality, AsyncProofs!Cardinality

LEMMA SameWorkEnd == \A t \in Call : Async!WorkEnd(t) => AsyncProofs!WorkEnd(t)
BY DEF Async!WorkEnd, AsyncProofs!WorkEnd

LEMMA SameAfterWork == Async!AfterWork => AsyncProofs!AfterWork
BY DEF Async!AfterWork, AsyncProofs!AfterWork

LEMMA SameAfterWorkDone == Async!AfterWorkDone => AsyncProofs!AfterWorkDone
BY DEF Async!AfterWorkDone, AsyncProofs!AfterWorkDone,
       Async!RunNextTask, AsyncProofs!RunNextTask, Async!HasRoom, AsyncProofs!HasRoom,
       Async!RunTask, AsyncProofs!RunTask

\* Every step of the pool is a step of the scheduler or leaves it alone.
LEMMA AsyncStep == [Next]_vars => [AsyncProofs!Next]_(AsyncProofs!vars)
<1>. SUFFICES ASSUME [Next]_vars PROVE AsyncProofs!Next \/ UNCHANGED asyncVars
    BY DEF asyncVars, AsyncProofs!vars
<1>1. CASE UNCHANGED vars
    BY <1>1 DEF vars
<1>2. CASE Ask \/ AskWithoutCallback
    BY <1>2, SameAddTask
       DEF Ask, AskWithoutCallback, NewPool, Connect, GetConnection, AsyncProofs!Next
<1>3. CASE Answer
    BY <1>3, SameWorkBegin, SameWorkEnd, SameAfterWork, SameAfterWorkDone
       DEF Answer, WorkBegin, ConnectFails, ConnectSucceeds, AfterWork, AfterWorkDone,
           IdleCallback, AsyncProofs!Next
<1>4. CASE GiveBack \/ Collect
    BY <1>4 DEF GiveBack, Release, Collect, CollectWrapper, CollectPool
<1>. QED
    BY <1>1, <1>2, <1>3, <1>4 DEF Next

LEMMA AsyncInvariant == Safe => []AsyncProofs!Inv
<1>1. Init => AsyncProofs!Inv
    BY AsyncAssumption, AsyncProofs!InitInv DEF Init, Async!Init, AsyncProofs!Init
<1>2. AsyncProofs!Inv /\ [Next]_vars => AsyncProofs!Inv'
    BY AsyncAssumption, AsyncProofs!NextInv, AsyncStep
<1>. QED  BY <1>1, <1>2, PTL DEF Safe

\* Two threads are never in driver->connect, however many pools and calls of
\* connect there are: src/PoolWrapper.cpp:15-17.
THEOREM ConnectsAreSerial == Safe => []ConnectIsSerial
<1>1. AsyncProofs!Inv => ConnectIsSerial
    <2>. SUFFICES ASSUME AsyncProofs!Inv PROVE ConnectIsSerial
        OBVIOUS
    <2>1. AsyncProofs!ConcurrencyBound
        BY AsyncAssumption, AsyncProofs!InvBoundsWorking
    <2>. QED
        BY <2>1 DEF AsyncProofs!ConcurrencyBound, ConnectIsSerial,
                    AsyncProofs!Cardinality, Cardinality
<1>. QED  BY <1>1, AsyncInvariant, PTL

\* PoolWrapper::async keeps the promise of src/Scheduler.h:11-31 to the tasks
\* that connect: each is run once and answered, in the order of the calls.
THEOREM PoolServesTasks == Safe => AsyncProofs!Service!Safe
<1>1. Init => AsyncProofs!Init
    BY DEF Init, Async!Init, AsyncProofs!Init
<1>2. Safe => AsyncProofs!Safe
    BY <1>1, AsyncStep, PTL DEF Safe, AsyncProofs!Safe
<1>3. AsyncProofs!Safe => AsyncProofs!Service!Safe
    BY AsyncAssumption, AsyncProofs!SchedulerRefinesService
<1>. QED  BY <1>2, <1>3, PTL

-----------------------------------------------------------------------------
(* A call waits only when nothing else can help it.                        *)

\* The types of what PoolWrapper keeps for each pool.
StackTypes ==
    /\ pools \subseteq PoolId
    /\ m_createdConnections \in [PoolId -> Nat]
    /\ m_availableConnections \in [PoolId -> Seq(Conn)]
    /\ m_waitingCallbacks \in [PoolId -> Seq(Call)]

WaitInv == StackTypes /\ WaitIsJustified

LEMMA FrontType ==
    ASSUME NEW S, NEW s \in Seq(S), s # <<>>
    PROVE  Front(s) \in Seq(S)
BY DEF Front

LEMMA FrontOfAppend ==
    ASSUME NEW S, NEW s \in Seq(S), NEW e \in S
    PROVE  Front(Append(s, e)) = s
<1>1. /\ Append(s, e) \in Seq(S) /\ Len(Append(s, e)) = Len(s) + 1
      /\ \A i \in 1..Len(s) : Append(s, e)[i] = s[i]
    BY AppendProperties
<1>. DEFINE f == SubSeq(Append(s, e), 1, Len(s))
<1>2. Len(s) \in Nat
    BY LenProperties
<1>3. f \in Seq(S) /\ Len(f) = Len(s) /\ \A i \in 1..Len(s) : f[i] = s[i]
    BY <1>1, <1>2
<1>4. f = s
    BY <1>3, SeqEqual
<1>. QED  BY <1>1, <1>2, <1>4 DEF Front

LEMMA WaitInit == Init => WaitInv
BY DEF Init, WaitInv, StackTypes, WaitIsJustified

LEMMA WaitAsk ==
    ASSUME WaitInv, Ask \/ AskWithoutCallback
    PROVE  WaitInv'
<1>. USE DEF WaitInv, StackTypes, WaitIsJustified
<1>1. CASE NewPool
    BY <1>1 DEF NewPool
<1>2. ASSUME NEW r \in Call, NEW b \in BOOLEAN, Connect(r, b) PROVE WaitInv'
    BY <1>2 DEF Connect, poolVars
<1>3. ASSUME NEW p \in PoolId, NEW r \in Call, NEW b \in BOOLEAN, GetConnection(p, r, b)
      PROVE  WaitInv'
    <2>1. UNCHANGED <<pools, m_createdConnections>> /\ p \in pools
        BY <1>3 DEF GetConnection
    <2>2. CASE /\ m_availableConnections[p] # <<>>
               /\ m_availableConnections' = [m_availableConnections EXCEPT ![p] = Front(@)]
               /\ UNCHANGED m_waitingCallbacks
        BY <2>1, <2>2, FrontType
    <2>3. CASE UNCHANGED <<m_availableConnections, m_waitingCallbacks>>
        BY <2>1, <2>3
    <2>4. CASE /\ m_availableConnections[p] = <<>>
               /\ ~MayCreate(p)
               /\ m_waitingCallbacks' = [m_waitingCallbacks EXCEPT ![p] = Append(@, r)]
               /\ UNCHANGED m_availableConnections
        <3>1. m_createdConnections[p] >= PoolSize
            BY <2>4, PoolAssumption DEF MayCreate
        <3>2. Append(m_waitingCallbacks[p], r) \in Seq(Call)
            OBVIOUS
        <3>3. m_waitingCallbacks' \in [PoolId -> Seq(Call)]
            BY <2>4, <3>2
        <3>4. ASSUME NEW q \in PoolId, m_waitingCallbacks'[q] # <<>>
              PROVE  /\ q \in pools' /\ m_availableConnections'[q] = <<>>
                     /\ m_createdConnections'[q] >= PoolSize
            <4>1. CASE q = p
                BY <2>1, <2>4, <3>1, <4>1
            <4>2. CASE q # p
                BY <2>1, <2>4, <3>4, <4>2
            <4>. QED  BY <4>1, <4>2
        <3>. QED  BY <2>1, <2>4, <3>3, <3>4
    <2>. QED  BY <1>3, <2>2, <2>3, <2>4 DEF GetConnection
<1>. QED  BY <1>1, <1>2, <1>3 DEF Ask, AskWithoutCallback

LEMMA WaitAnswer ==
    ASSUME WaitInv, Answer
    PROVE  WaitInv'
<1>. USE DEF WaitInv, StackTypes, WaitIsJustified
<1>1. CASE AfterWork
    <2>1. UNCHANGED <<pools, m_availableConnections, m_waitingCallbacks>>
        BY <1>1 DEF AfterWork
    <2>2. /\ m_createdConnections' \in [PoolId -> Nat]
          /\ \A p \in PoolId : m_createdConnections'[p] >= m_createdConnections[p]
        <3>1. ASSUME NEW q, ConnectionCreatedCallback(q)
              PROVE  /\ m_createdConnections' \in [PoolId -> Nat]
                     /\ \A p \in PoolId : m_createdConnections'[p] >= m_createdConnections[p]
            BY <3>1 DEF ConnectionCreatedCallback
        <3>2. \/ UNCHANGED m_createdConnections
              \/ \E q : ConnectionCreatedCallback(q)
            BY <1>1 DEF AfterWork
        <3>. QED  BY <3>1, <3>2
    <2>. QED  BY <2>1, <2>2, PoolAssumption
<1>2. CASE UNCHANGED poolVars
    BY <1>2 DEF poolVars
<1>. QED
    BY <1>1, <1>2 DEF Answer, WorkBegin, ConnectFails, ConnectSucceeds, AfterWorkDone, IdleCallback

LEMMA WaitRelease ==
    ASSUME WaitInv, NEW c \in Conn, Release(c)
    PROVE  WaitInv'
<1>. USE DEF WaitInv, StackTypes, WaitIsJustified
<1>. DEFINE p == m_poolId[c]
            con == Append(m_availableConnections[p], c)
<1>1. /\ p \in PoolId /\ p \in pools /\ UNCHANGED <<pools, m_createdConnections>>
      /\ CheckWaitingCallbacks(p, con)
    BY DEF Release
<1>2. con \in Seq(Conn) /\ con # <<>> /\ Front(con) = m_availableConnections[p]
    <2>1. m_availableConnections[p] \in Seq(Conn)
        BY <1>1
    <2>2. con \in Seq(Conn) /\ Len(con) = Len(m_availableConnections[p]) + 1
        BY <2>1, AppendProperties
    <2>3. con # <<>>
        <3>1. Len(m_availableConnections[p]) \in Nat
            BY <2>1, LenProperties
        <3>. HIDE DEF con
        <3>. QED  BY <2>2, <3>1, EmptySeq
    <2>4. Front(con) = m_availableConnections[p]
        BY <2>1, FrontOfAppend
    <2>. QED  BY <2>2, <2>3, <2>4
<1>3. CASE /\ m_waitingCallbacks[p] # <<>>
           /\ m_availableConnections' = [m_availableConnections EXCEPT ![p] = Front(con)]
           /\ m_waitingCallbacks' = [m_waitingCallbacks EXCEPT ![p] = Front(@)]
    BY <1>1, <1>2, <1>3, FrontType
<1>4. CASE /\ m_waitingCallbacks[p] = <<>>
           /\ m_availableConnections' = [m_availableConnections EXCEPT ![p] = con]
           /\ UNCHANGED m_waitingCallbacks
    BY <1>1, <1>2, <1>4
<1>. QED  BY <1>1, <1>2, <1>3, <1>4 DEF CheckWaitingCallbacks

LEMMA WaitCollect ==
    ASSUME WaitInv, Collect
    PROVE  WaitInv'
<1>. USE DEF WaitInv, StackTypes, WaitIsJustified
<1>1. ASSUME NEW c \in Conn, CollectWrapper(c) PROVE WaitInv'
    BY <1>1 DEF CollectWrapper, poolVars
<1>2. ASSUME NEW p \in PoolId, CollectPool(p) PROVE WaitInv'
    BY <1>2 DEF CollectPool
<1>. QED  BY <1>1, <1>2 DEF Collect

LEMMA WaitNext == WaitInv /\ [Next]_vars => WaitInv'
<1>1. WaitInv /\ UNCHANGED vars => WaitInv'
    BY DEF vars, poolVars, WaitInv, StackTypes, WaitIsJustified
<1>. QED  BY <1>1, WaitAsk, WaitAnswer, WaitRelease, WaitCollect DEF Next, GiveBack

\* No lost wake-up in a pool, for any number of pools, calls and connections
\* and any size: src/PoolWrapper.cpp:107-159.
THEOREM WaitsAreJustified == Safe => []WaitIsJustified
BY WaitInit, WaitNext, PTL DEF Safe, WaitInv

-----------------------------------------------------------------------------
(* Who has a call and who has a connection. A step is first described by   *)
(* what it does to sets: the calls the scheduler knows (Tasks), those that *)
(* wait in a pool (WaitOf), a pool's free connections (FreeOf) and the     *)
(* connection each call holds (ConnOf). The invariants are proved of that  *)
(* description.                                                            *)

Tasks == AsyncProofs!Known
WaitOf == [p \in PoolId |-> Range(m_waitingCallbacks[p])]
FreeOf == [p \in PoolId |-> Range(m_availableConnections[p])]
ConnOf == [r \in Call |-> call[r].connection]
PoolOf == [r \in Call |-> call[r].poolId]

AllOpen == Tasks \cup idle \cup UNION {WaitOf[p] : p \in PoolId}

-----------------------------------------------------------------------------
(* The inductive invariant.                                                *)

Cell == [ poolId : PoolId \cup {NoPool}, callback : BOOLEAN,
          connection : Conn \cup {NoConn} ]

Types ==
    /\ StackTypes
    /\ nextPoolId \in 1..MaxPools + 1
    /\ call \in [Call -> Cell]
    /\ idle \subseteq Call
    /\ m_poolId \in [Conn -> PoolId \cup {NoPool}]
    /\ alive \subseteq Conn
    /\ wrapped \subseteq Conn

\* A call is in one place.
Calls ==
    /\ Tasks \cap idle = {}
    /\ \A p \in PoolId : IsInjective(m_waitingCallbacks[p])
    /\ \A p \in PoolId : WaitOf[p] \cap (Tasks \cup idle) = {}
    /\ \A p, q \in PoolId : p # q => WaitOf[p] \cap WaitOf[q] = {}

\* A connection is in one place, and what holds it knows its pool.
Owners ==
    /\ \A p \in PoolId : IsInjective(m_availableConnections[p])
    /\ \A p \in PoolId : FreeOf[p] \subseteq alive \ wrapped
    /\ \A p \in PoolId : \A c \in FreeOf[p] : m_poolId[c] = p
    /\ wrapped \subseteq alive
    /\ \A r \in Call : ConnOf[r] # NoConn =>
          /\ ConnOf[r] \in alive \ wrapped
          /\ \A p \in PoolId : ConnOf[r] \notin FreeOf[p]
          /\ \A s \in Call : s # r => ConnOf[s] # ConnOf[r]
          /\ m_poolId[ConnOf[r]] = PoolOf[r]
    /\ \A r \in Call : r \notin AllOpen => ConnOf[r] = NoConn
    /\ \A r \in idle : ConnOf[r] # NoConn

OwnInv == AsyncProofs!Inv /\ Types /\ Calls /\ Owners

-----------------------------------------------------------------------------
(* Stacks.                                                                 *)

LEMMA PushedOn ==
    ASSUME NEW S, NEW s \in Seq(S), NEW x \in S
    PROVE  /\ Append(s, x) \in Seq(S)
           /\ Range(Append(s, x)) = Range(s) \cup {x}
           /\ Last(Append(s, x)) = x
           /\ x \notin Range(s) /\ IsInjective(s) => IsInjective(Append(s, x))
<1>1. /\ Append(s, x) \in Seq(S)
      /\ Len(Append(s, x)) = Len(s) + 1 /\ Len(s) \in Nat
      /\ DOMAIN s = 1..Len(s) /\ DOMAIN Append(s, x) = 1..Len(Append(s, x))
      /\ \A i \in 1..Len(s) : Append(s, x)[i] = s[i]
      /\ Append(s, x)[Len(s) + 1] = x
    BY AppendProperties, LenProperties
<1>2. 1..Len(Append(s, x)) = (1..Len(s)) \cup {Len(s) + 1}
    BY <1>1
<1>3. Range(Append(s, x)) = Range(s) \cup {x}
    BY <1>1, <1>2 DEF Range
<1>4. x \notin Range(s) /\ IsInjective(s) => IsInjective(Append(s, x))
    BY <1>1 DEF IsInjective, Range
<1>. QED  BY <1>1, <1>3, <1>4 DEF Last

LEMMA PoppedFrom ==
    ASSUME NEW S, NEW s \in Seq(S), s # <<>>
    PROVE  /\ Front(s) \in Seq(S) /\ Last(s) \in S /\ Last(s) \in Range(s)
           /\ IsInjective(s) => /\ IsInjective(Front(s))
                                /\ Range(Front(s)) = Range(s) \ {Last(s)}
<1>1. Len(s) \in Nat \ {0} /\ DOMAIN s = 1..Len(s)
    BY LenProperties, EmptySeq
<1>2. /\ Front(s) \in Seq(S) /\ Len(Front(s)) = Len(s) - 1
      /\ \A i \in 1..Len(s) - 1 : Front(s)[i] = s[i]
    BY <1>1 DEF Front
<1>3. DOMAIN Front(s) = 1..Len(s) - 1
    BY <1>2, LenProperties
<1>4. Last(s) \in S /\ Last(s) \in Range(s) /\ Last(s) = s[Len(s)]
    BY <1>1 DEF Last, Range
<1>5. ASSUME IsInjective(s) PROVE IsInjective(Front(s))
    BY <1>1, <1>2, <1>3, <1>5 DEF IsInjective
<1>6. ASSUME IsInjective(s), NEW x PROVE x \in Range(Front(s)) <=> x \in Range(s) \ {Last(s)}
    <2>1. ASSUME x \in Range(Front(s)) PROVE x \in Range(s) \ {Last(s)}
        <3>1. PICK i \in 1..Len(s) - 1 : s[i] = x
            BY <1>2, <1>3, <2>1 DEF Range
        <3>. QED  BY <1>1, <1>4, <1>6, <3>1 DEF Range, IsInjective
    <2>2. ASSUME x \in Range(s) \ {Last(s)} PROVE x \in Range(Front(s))
        <3>1. PICK i \in 1..Len(s) : s[i] = x
            BY <1>1, <2>2 DEF Range
        <3>2. i \in 1..Len(s) - 1
            BY <1>1, <1>4, <2>2, <3>1
        <3>. QED  BY <1>2, <1>3, <3>1, <3>2 DEF Range
    <2>. QED  BY <2>1, <2>2
<1>. QED  BY <1>2, <1>4, <1>5, <1>6

-----------------------------------------------------------------------------
(* What a step of the pool does to the scheduler's tasks.                  *)

LEMMA SameTasks == Async!Known = Tasks
BY DEF Tasks, Async!Known, AsyncProofs!Known, Async!InFlight, AsyncProofs!InFlight,
       Async!After, AsyncProofs!After, Async!Range, AsyncProofs!Range

LEMMA OpenIsAllOpen == Open = AllOpen
<1>1. \A p \in PoolId : Waiting(p) = WaitOf[p]
    BY DEF Waiting, WaitOf
<1>. QED  BY <1>1, SameTasks DEF Open, AllOpen

LEMMA TasksAfterAdd ==
    ASSUME AsyncProofs!Inv, NEW r \in Call, Async!AddTask(r)
    PROVE  Tasks' = Tasks \cup {r}
<1>1. AsyncProofs!AddTask(r)
    BY SameAddTask
<1>. QED  BY <1>1, AsyncAssumption, AsyncProofs!KnownAfterAdd DEF Tasks

LEMMA TasksAfterMove ==
    ASSUME AsyncProofs!Inv,
           Async!WorkBegin \/ Async!AfterWork \/ \E r \in Call : Async!WorkEnd(r)
    PROVE  Tasks' = Tasks
<1>1. AsyncProofs!WorkBegin \/ AsyncProofs!AfterWork
        \/ \E r \in Call : AsyncProofs!WorkEnd(r)
    BY SameWorkBegin, SameAfterWork, SameWorkEnd
<1>. QED  BY <1>1, AsyncAssumption, AsyncProofs!KnownAfterMove DEF Tasks

LEMMA TasksAfterDone ==
    ASSUME AsyncProofs!Inv, Async!AfterWorkDone
    PROVE  /\ Tasks' = Tasks \ {inAfter} /\ inAfter \in Tasks /\ inAfter \in Call
<1>1. AsyncProofs!AfterWorkDone
    BY SameAfterWorkDone
<1>2. inAfter \in Call
    BY <1>1 DEF AsyncProofs!Inv, AsyncProofs!TypeOK, AsyncProofs!AfterWorkDone
<1>. QED  BY <1>1, <1>2, AsyncAssumption, AsyncProofs!KnownAfterDone DEF Tasks

LEMMA TasksUnchanged ==
    ASSUME UNCHANGED asyncVars
    PROVE  Tasks' = Tasks
BY DEF asyncVars, Tasks, AsyncProofs!Known, AsyncProofs!InFlight, AsyncProofs!After

-----------------------------------------------------------------------------
(* What a step does to the calls' cells.                                   *)

LEMMA CellReplaced ==
    ASSUME call \in [Call -> Cell], NEW r \in Call, NEW x \in Cell,
           call' = [call EXCEPT ![r] = x]
    PROVE  /\ call' \in [Call -> Cell]
           /\ ConnOf' = [ConnOf EXCEPT ![r] = x.connection]
           /\ PoolOf' = [PoolOf EXCEPT ![r] = x.poolId]
BY DEF ConnOf, PoolOf

LEMMA CellWritten ==
    ASSUME call \in [Call -> Cell], NEW r \in Call,
           NEW p \in PoolId \cup {NoPool}, NEW b \in BOOLEAN, NEW c \in Conn \cup {NoConn},
           call' = [call EXCEPT ![r] = [poolId |-> p, callback |-> b, connection |-> c]]
    PROVE  /\ call' \in [Call -> Cell]
           /\ ConnOf' = [ConnOf EXCEPT ![r] = c]
           /\ PoolOf' = [PoolOf EXCEPT ![r] = p]
<1>. DEFINE x == [poolId |-> p, callback |-> b, connection |-> c]
<1>1. x \in Cell /\ x.connection = c /\ x.poolId = p
    BY DEF Cell
<1>. HIDE DEF x
<1>2. call' = [call EXCEPT ![r] = x]
    BY DEF x
<1>. QED  BY <1>1, <1>2, CellReplaced

LEMMA ConnectionWritten ==
    ASSUME call \in [Call -> Cell], NEW r \in Call, NEW c \in Conn \cup {NoConn},
           call' = [call EXCEPT ![r].connection = c]
    PROVE  /\ call' \in [Call -> Cell]
           /\ ConnOf' = [ConnOf EXCEPT ![r] = c]
           /\ PoolOf' = PoolOf
<1>. DEFINE x == [call[r] EXCEPT !.connection = c]
<1>1. x \in Cell /\ x.connection = c /\ x.poolId = call[r].poolId
    BY DEF Cell
<1>. HIDE DEF x
<1>2. call' = [call EXCEPT ![r] = x]
    BY DEF x
<1>3. ConnOf' = [ConnOf EXCEPT ![r] = c]
    BY <1>1, <1>2, CellReplaced
<1>4. PoolOf' = [PoolOf EXCEPT ![r] = PoolOf[r]]
    BY <1>1, <1>2, CellReplaced DEF PoolOf
<1>5. PoolOf' = PoolOf
    BY <1>4 DEF PoolOf
<1>. QED  BY <1>1, <1>2, <1>3, <1>5

LEMMA CallbackWritten ==
    ASSUME call \in [Call -> Cell], NEW r \in Call, NEW b \in BOOLEAN,
           call' = [call EXCEPT ![r].callback = b]
    PROVE  /\ call' \in [Call -> Cell] /\ ConnOf' = ConnOf /\ PoolOf' = PoolOf
<1>. DEFINE x == [call[r] EXCEPT !.callback = b]
<1>1. x \in Cell /\ x.connection = call[r].connection /\ x.poolId = call[r].poolId
    BY DEF Cell
<1>. HIDE DEF x
<1>2. call' = [call EXCEPT ![r] = x]
    BY DEF x
<1>3. \A s \in Call : call'[s] = IF s = r THEN x ELSE call[s]
    BY <1>2
<1>4. ConnOf' = ConnOf /\ PoolOf' = PoolOf
    BY <1>1, <1>3 DEF ConnOf, PoolOf
<1>. QED  BY <1>1, <1>2, <1>4

LEMMA AskWritten ==
    ASSUME call \in [Call -> Cell], NEW r \in Call, NEW p \in PoolId, NEW b \in BOOLEAN,
           call' = [call EXCEPT ![r].poolId = p, ![r].callback = b]
    PROVE  /\ call' \in [Call -> Cell] /\ ConnOf' = ConnOf
           /\ PoolOf' = [PoolOf EXCEPT ![r] = p]
<1>. DEFINE y == [call[r] EXCEPT !.poolId = p]
            x == [y EXCEPT !.callback = b]
<1>1. y \in Cell /\ y.connection = call[r].connection /\ y.poolId = p
    BY DEF Cell
<1>2. call' = [[call EXCEPT ![r] = y] EXCEPT ![r] = x]
    OBVIOUS
<1>. HIDE DEF y
<1>3. x \in Cell /\ x.connection = call[r].connection /\ x.poolId = p
    BY <1>1 DEF Cell
<1>. HIDE DEF x
<1>4. call' = [call EXCEPT ![r] = x]
    BY <1>2
<1>5. ConnOf' = [ConnOf EXCEPT ![r] = ConnOf[r]]
    BY <1>3, <1>4, CellReplaced DEF ConnOf
<1>6. PoolOf' = [PoolOf EXCEPT ![r] = p]
    BY <1>3, <1>4, CellReplaced
<1>7. ConnOf' = ConnOf
    BY <1>5 DEF ConnOf
<1>. QED  BY <1>3, <1>4, <1>6, <1>7

-----------------------------------------------------------------------------
(* What a step does to the stacks.                                         *)

LEMMA FreePopped ==
    ASSUME m_availableConnections \in [PoolId -> Seq(Conn)], NEW p \in PoolId,
           \A q \in PoolId : IsInjective(m_availableConnections[q]),
           m_availableConnections[p] # <<>>,
           m_availableConnections' = [m_availableConnections EXCEPT ![p] = Front(@)]
    PROVE  /\ m_availableConnections' \in [PoolId -> Seq(Conn)]
           /\ \A q \in PoolId : IsInjective(m_availableConnections'[q])
           /\ FreeOf' = [FreeOf EXCEPT ![p] = @ \ {Last(m_availableConnections[p])}]
           /\ Last(m_availableConnections[p]) \in Conn
           /\ Last(m_availableConnections[p]) \in FreeOf[p]
<1>1. /\ Front(m_availableConnections[p]) \in Seq(Conn)
      /\ IsInjective(Front(m_availableConnections[p]))
      /\ Range(Front(m_availableConnections[p]))
              = Range(m_availableConnections[p]) \ {Last(m_availableConnections[p])}
      /\ Last(m_availableConnections[p]) \in Conn
      /\ Last(m_availableConnections[p]) \in Range(m_availableConnections[p])
    BY PoppedFrom
<1>2. m_availableConnections' \in [PoolId -> Seq(Conn)]
    BY <1>1
<1>3. \A q \in PoolId :
          m_availableConnections'[q] = IF q = p THEN Front(m_availableConnections[p]) ELSE m_availableConnections[q]
    OBVIOUS
<1>4. \A q \in PoolId : IsInjective(m_availableConnections'[q])
    BY <1>1, <1>3
<1>5. FreeOf' = [FreeOf EXCEPT ![p] = @ \ {Last(m_availableConnections[p])}]
    BY <1>1, <1>3 DEF FreeOf
<1>. QED  BY <1>1, <1>2, <1>4, <1>5 DEF FreeOf

LEMMA FreePushed ==
    ASSUME m_availableConnections \in [PoolId -> Seq(Conn)], NEW p \in PoolId, NEW x \in Conn,
           \A q \in PoolId : IsInjective(m_availableConnections[q]),
           x \notin Range(m_availableConnections[p]),
           m_availableConnections' = [m_availableConnections EXCEPT ![p] = Append(@, x)]
    PROVE  /\ m_availableConnections' \in [PoolId -> Seq(Conn)]
           /\ \A q \in PoolId : IsInjective(m_availableConnections'[q])
           /\ FreeOf' = [FreeOf EXCEPT ![p] = @ \cup {x}]
<1>1. /\ Append(m_availableConnections[p], x) \in Seq(Conn)
      /\ IsInjective(Append(m_availableConnections[p], x))
      /\ Range(Append(m_availableConnections[p], x)) = Range(m_availableConnections[p]) \cup {x}
    BY PushedOn
<1>2. m_availableConnections' \in [PoolId -> Seq(Conn)]
    BY <1>1
<1>3. \A q \in PoolId :
          m_availableConnections'[q] = IF q = p THEN Append(m_availableConnections[p], x) ELSE m_availableConnections[q]
    OBVIOUS
<1>4. \A q \in PoolId : IsInjective(m_availableConnections'[q])
    BY <1>1, <1>3
<1>5. FreeOf' = [FreeOf EXCEPT ![p] = @ \cup {x}]
    BY <1>1, <1>3 DEF FreeOf
<1>. QED  BY <1>1, <1>2, <1>4, <1>5 DEF FreeOf

LEMMA FreeEmptied ==
    ASSUME m_availableConnections \in [PoolId -> Seq(Conn)], NEW p \in PoolId,
           \A q \in PoolId : IsInjective(m_availableConnections[q]),
           m_availableConnections' = [m_availableConnections EXCEPT ![p] = <<>>]
    PROVE  /\ m_availableConnections' \in [PoolId -> Seq(Conn)]
           /\ \A q \in PoolId : IsInjective(m_availableConnections'[q])
           /\ FreeOf' = [FreeOf EXCEPT ![p] = {}]
<1>1. /\ <<>> \in Seq(Conn) /\ IsInjective(<<>>)
      /\ Range(<<>>) = {}
    BY DEF Range, IsInjective
<1>2. m_availableConnections' \in [PoolId -> Seq(Conn)]
    BY <1>1
<1>3. \A q \in PoolId :
          m_availableConnections'[q] = IF q = p THEN <<>> ELSE m_availableConnections[q]
    OBVIOUS
<1>4. \A q \in PoolId : IsInjective(m_availableConnections'[q])
    BY <1>1, <1>3
<1>5. FreeOf' = [FreeOf EXCEPT ![p] = {}]
    BY <1>1, <1>3 DEF FreeOf
<1>. QED  BY <1>1, <1>2, <1>4, <1>5 DEF FreeOf

LEMMA WaitPopped ==
    ASSUME m_waitingCallbacks \in [PoolId -> Seq(Call)], NEW p \in PoolId,
           \A q \in PoolId : IsInjective(m_waitingCallbacks[q]),
           m_waitingCallbacks[p] # <<>>,
           m_waitingCallbacks' = [m_waitingCallbacks EXCEPT ![p] = Front(@)]
    PROVE  /\ m_waitingCallbacks' \in [PoolId -> Seq(Call)]
           /\ \A q \in PoolId : IsInjective(m_waitingCallbacks'[q])
           /\ WaitOf' = [WaitOf EXCEPT ![p] = @ \ {Last(m_waitingCallbacks[p])}]
           /\ Last(m_waitingCallbacks[p]) \in Call /\ Last(m_waitingCallbacks[p]) \in WaitOf[p]
<1>1. /\ Front(m_waitingCallbacks[p]) \in Seq(Call) /\ IsInjective(Front(m_waitingCallbacks[p]))
      /\ Range(Front(m_waitingCallbacks[p]))
              = Range(m_waitingCallbacks[p]) \ {Last(m_waitingCallbacks[p])}
      /\ Last(m_waitingCallbacks[p]) \in Call
      /\ Last(m_waitingCallbacks[p]) \in Range(m_waitingCallbacks[p])
    BY PoppedFrom
<1>2. m_waitingCallbacks' \in [PoolId -> Seq(Call)]
    BY <1>1
<1>3. \A q \in PoolId :
          m_waitingCallbacks'[q] = IF q = p THEN Front(m_waitingCallbacks[p]) ELSE m_waitingCallbacks[q]
    OBVIOUS
<1>4. \A q \in PoolId : IsInjective(m_waitingCallbacks'[q])
    BY <1>1, <1>3
<1>5. WaitOf' = [WaitOf EXCEPT ![p] = @ \ {Last(m_waitingCallbacks[p])}]
    BY <1>1, <1>3 DEF WaitOf
<1>. QED  BY <1>1, <1>2, <1>4, <1>5 DEF WaitOf

LEMMA WaitPushed ==
    ASSUME m_waitingCallbacks \in [PoolId -> Seq(Call)], NEW p \in PoolId, NEW x \in Call,
           \A q \in PoolId : IsInjective(m_waitingCallbacks[q]),
           x \notin Range(m_waitingCallbacks[p]),
           m_waitingCallbacks' = [m_waitingCallbacks EXCEPT ![p] = Append(@, x)]
    PROVE  /\ m_waitingCallbacks' \in [PoolId -> Seq(Call)]
           /\ \A q \in PoolId : IsInjective(m_waitingCallbacks'[q])
           /\ WaitOf' = [WaitOf EXCEPT ![p] = @ \cup {x}]
<1>1. /\ Append(m_waitingCallbacks[p], x) \in Seq(Call)
      /\ IsInjective(Append(m_waitingCallbacks[p], x))
      /\ Range(Append(m_waitingCallbacks[p], x)) = Range(m_waitingCallbacks[p]) \cup {x}
    BY PushedOn
<1>2. m_waitingCallbacks' \in [PoolId -> Seq(Call)]
    BY <1>1
<1>3. \A q \in PoolId :
          m_waitingCallbacks'[q] = IF q = p THEN Append(m_waitingCallbacks[p], x) ELSE m_waitingCallbacks[q]
    OBVIOUS
<1>4. \A q \in PoolId : IsInjective(m_waitingCallbacks'[q])
    BY <1>1, <1>3
<1>5. WaitOf' = [WaitOf EXCEPT ![p] = @ \cup {x}]
    BY <1>1, <1>3 DEF WaitOf
<1>. QED  BY <1>1, <1>2, <1>4, <1>5 DEF WaitOf

LEMMA WaitEmptied ==
    ASSUME m_waitingCallbacks \in [PoolId -> Seq(Call)], NEW p \in PoolId,
           \A q \in PoolId : IsInjective(m_waitingCallbacks[q]),
           m_waitingCallbacks' = [m_waitingCallbacks EXCEPT ![p] = <<>>]
    PROVE  /\ m_waitingCallbacks' \in [PoolId -> Seq(Call)]
           /\ \A q \in PoolId : IsInjective(m_waitingCallbacks'[q])
           /\ WaitOf' = [WaitOf EXCEPT ![p] = {}]
<1>1. /\ <<>> \in Seq(Call) /\ IsInjective(<<>>)
      /\ Range(<<>>) = {}
    BY DEF Range, IsInjective
<1>2. m_waitingCallbacks' \in [PoolId -> Seq(Call)]
    BY <1>1
<1>3. \A q \in PoolId : m_waitingCallbacks'[q] = IF q = p THEN <<>> ELSE m_waitingCallbacks[q]
    OBVIOUS
<1>4. \A q \in PoolId : IsInjective(m_waitingCallbacks'[q])
    BY <1>1, <1>3
<1>5. WaitOf' = [WaitOf EXCEPT ![p] = {}]
    BY <1>1, <1>3 DEF WaitOf
<1>. QED  BY <1>1, <1>2, <1>4, <1>5 DEF WaitOf

LEMMA SetsHaveTypes ==
    ASSUME Types
    PROVE  /\ ConnOf \in [Call -> Conn \cup {NoConn}]
           /\ PoolOf \in [Call -> PoolId \cup {NoPool}]
           /\ FreeOf \in [PoolId -> SUBSET Conn]
           /\ WaitOf \in [PoolId -> SUBSET Call]
<1>1. \A S : \A s \in Seq(S) : Range(s) \subseteq S
    BY LenProperties DEF Range
<1>2. \A r \in Call : call[r].connection \in Conn \cup {NoConn}
                      /\ call[r].poolId \in PoolId \cup {NoPool}
    BY DEF Types, Cell
<1>3. \A p \in PoolId : Range(m_availableConnections[p]) \subseteq Conn
                        /\ Range(m_waitingCallbacks[p]) \subseteq Call
    BY <1>1 DEF Types, StackTypes
<1>. QED  BY <1>2, <1>3 DEF ConnOf, PoolOf, FreeOf, WaitOf

-----------------------------------------------------------------------------
(* One lemma per action.                                                   *)

Rest == Types /\ Calls /\ Owners

LEMMA FreshCall ==
    ASSUME OwnInv, NEW r \in Call, r \notin Open
    PROVE  /\ r \notin Tasks /\ r \notin idle
           /\ \A p \in PoolId : r \notin WaitOf[p]
           /\ r \notin AllOpen
           /\ ConnOf[r] = NoConn
<1>1. r \notin AllOpen
    BY OpenIsAllOpen
<1>. QED  BY <1>1 DEF AllOpen, OwnInv, Owners

LEMMA NewPoolOwners ==
    ASSUME OwnInv, NewPool
    PROVE  Rest'
<1>1. UNCHANGED <<asyncVars, m_createdConnections, m_availableConnections,
                  m_waitingCallbacks, call, idle, connVars>>
    BY DEF NewPool
<1>2. Tasks' = Tasks
    BY <1>1, TasksUnchanged
<1>3. Types'
    BY <1>1, PoolAssumption DEF NewPool, OwnInv, Types, StackTypes, connVars, PoolId
<1>4. UNCHANGED <<WaitOf, FreeOf, ConnOf, PoolOf>>
    BY <1>1 DEF WaitOf, FreeOf, ConnOf, PoolOf
<1>5. AllOpen' = AllOpen
    BY <1>1, <1>2, <1>4 DEF AllOpen
<1>6. Calls'
    BY <1>1, <1>2, <1>4 DEF OwnInv, Calls
<1>7. Owners'
    BY <1>1, <1>4, <1>5 DEF OwnInv, Owners, connVars
<1>. QED  BY <1>3, <1>6, <1>7 DEF Rest

\* A call gets a task; its cell has no connection.
LEMMA TaskAdded ==
    ASSUME OwnInv, NEW r \in Call, r \notin Open, Async!AddTask(r),
           UNCHANGED <<pools, nextPoolId, m_createdConnections, m_availableConnections,
                       m_waitingCallbacks, idle, connVars>>,
           call' \in [Call -> Cell], ConnOf' = ConnOf,
           \A s \in Call : s # r => PoolOf'[s] = PoolOf[s]
    PROVE  Rest'
<1>1. Tasks' = Tasks \cup {r}
    BY TasksAfterAdd DEF OwnInv
<1>2. Types'
    BY DEF OwnInv, Types, StackTypes, connVars
<1>3. UNCHANGED <<WaitOf, FreeOf>>
    BY DEF WaitOf, FreeOf
<1>4. AllOpen' = AllOpen \cup {r}
    BY <1>1, <1>3 DEF AllOpen
<1>5. Calls'
    BY <1>1, <1>3, FreshCall DEF OwnInv, Calls
<1>6. Owners'
    BY <1>3, <1>4, FreshCall DEF OwnInv, Owners, connVars
<1>. QED  BY <1>2, <1>5, <1>6 DEF Rest

LEMMA ConnectOwners ==
    ASSUME OwnInv, NEW r \in Call, NEW b \in BOOLEAN, Connect(r, b)
    PROVE  Rest'
<1>1. call' \in [Call -> Cell] /\ ConnOf' = ConnOf /\ PoolOf' = PoolOf
    BY CallbackWritten DEF Connect, OwnInv, Types
<1>. QED  BY <1>1, TaskAdded DEF Connect, poolVars

LEMMA GetConnectionOwners ==
    ASSUME OwnInv, NEW p \in PoolId, NEW r \in Call, NEW b \in BOOLEAN, GetConnection(p, r, b)
    PROVE  Rest'
<1>0. /\ r \notin Open /\ UNCHANGED <<nextPoolId, pools, m_createdConnections, connVars>>
      /\ call \in [Call -> Cell]
    BY DEF GetConnection, OwnInv, Types
<1>1. CASE /\ m_availableConnections[p] # <<>>
           /\ AddIdle(p, r, b, Last(m_availableConnections[p]))
           /\ m_availableConnections' = [m_availableConnections EXCEPT ![p] = Front(@)]
           /\ UNCHANGED <<asyncVars, m_waitingCallbacks>>
    <2>. DEFINE c == Last(m_availableConnections[p])
    <2>1. /\ m_availableConnections \in [PoolId -> Seq(Conn)]
          /\ \A q \in PoolId : IsInjective(m_availableConnections[q])
        BY DEF OwnInv, Types, StackTypes, Owners
    <2>2. /\ m_availableConnections' \in [PoolId -> Seq(Conn)]
          /\ \A q \in PoolId : IsInjective(m_availableConnections'[q])
          /\ FreeOf' = [FreeOf EXCEPT ![p] = @ \ {c}] /\ c \in FreeOf[p] /\ c \in Conn
          /\ FreeOf \in [PoolId -> SUBSET Conn]
        BY <1>1, <2>1, FreePopped, SetsHaveTypes DEF OwnInv
    <2>. HIDE DEF c
    <2>3. call' = [call EXCEPT ![r] = [poolId |-> p, callback |-> b, connection |-> c]]
          /\ idle' = idle \cup {r}
        BY <1>1 DEF AddIdle, c
    <2>4. /\ call' \in [Call -> Cell]
          /\ ConnOf' = [ConnOf EXCEPT ![r] = c] /\ PoolOf' = [PoolOf EXCEPT ![r] = p]
        BY <1>0, <2>2, <2>3, CellWritten
    <2>5. /\ ConnOf \in [Call -> Conn \cup {NoConn}]
          /\ PoolOf \in [Call -> PoolId \cup {NoPool}]
        BY SetsHaveTypes DEF OwnInv
    <2>6. Tasks' = Tasks /\ WaitOf' = WaitOf
        BY <1>1, TasksUnchanged DEF WaitOf
    <2>7. AllOpen' = AllOpen \cup {r}
        BY <2>3, <2>6 DEF AllOpen
    <2>8. Types'
        BY <1>0, <1>1, <2>2, <2>3, <2>4 DEF OwnInv, Types, StackTypes, connVars
    <2>9. Calls'
        BY <1>0, <1>1, <2>3, <2>6, FreshCall DEF OwnInv, Calls
    <2>10. UNCHANGED <<m_poolId, alive, wrapped>> /\ ConnOf[r] = NoConn /\ c # NoConn
        BY <1>0, <2>2, FreshCall, PoolAssumption DEF connVars
    <2>11. Owners'
        BY <2>2, <2>3, <2>4, <2>5, <2>7, <2>10 DEF OwnInv, Owners
    <2>. QED  BY <2>8, <2>9, <2>11 DEF Rest
<1>2. CASE /\ call' = [call EXCEPT ![r].poolId = p, ![r].callback = b]
           /\ Async!AddTask(r)
           /\ UNCHANGED <<idle, m_availableConnections, m_waitingCallbacks>>
    <2>1. /\ call' \in [Call -> Cell] /\ ConnOf' = ConnOf
          /\ PoolOf' = [PoolOf EXCEPT ![r] = p]
        BY <1>0, <1>2, AskWritten
    <2>2. \A s \in Call : s # r => PoolOf'[s] = PoolOf[s]
        BY <2>1 DEF PoolOf
    <2>. QED  BY <1>0, <1>2, <2>1, <2>2, TaskAdded
<1>3. CASE /\ call' = [call EXCEPT ![r].poolId = p, ![r].callback = b]
           /\ m_waitingCallbacks' = [m_waitingCallbacks EXCEPT ![p] = Append(@, r)]
           /\ UNCHANGED <<asyncVars, idle, m_availableConnections>>
    <2>1. /\ call' \in [Call -> Cell] /\ ConnOf' = ConnOf
          /\ PoolOf' = [PoolOf EXCEPT ![r] = p]
          /\ PoolOf \in [Call -> PoolId \cup {NoPool}]
        BY <1>0, <1>3, AskWritten, SetsHaveTypes DEF OwnInv
    <2>2. /\ m_waitingCallbacks \in [PoolId -> Seq(Call)]
          /\ \A q \in PoolId : IsInjective(m_waitingCallbacks[q])
          /\ r \notin Range(m_waitingCallbacks[p])
        BY <1>0, FreshCall DEF OwnInv, Types, StackTypes, Calls, WaitOf
    <2>3. /\ m_waitingCallbacks' \in [PoolId -> Seq(Call)]
          /\ \A q \in PoolId : IsInjective(m_waitingCallbacks'[q])
          /\ WaitOf' = [WaitOf EXCEPT ![p] = @ \cup {r}]
          /\ WaitOf \in [PoolId -> SUBSET Call]
        BY <1>3, <2>2, WaitPushed, SetsHaveTypes DEF OwnInv
    <2>4. Tasks' = Tasks /\ FreeOf' = FreeOf
        BY <1>3, TasksUnchanged DEF FreeOf
    <2>5. AllOpen' = AllOpen \cup {r}
        BY <1>3, <2>3, <2>4 DEF AllOpen
    <2>6. Types'
        BY <1>0, <1>3, <2>1, <2>3 DEF OwnInv, Types, StackTypes, connVars
    <2>7. Calls'
        BY <1>0, <1>3, <2>3, <2>4, FreshCall DEF OwnInv, Calls
    <2>8. Owners'
        BY <1>0, <1>3, <2>1, <2>4, <2>5, FreshCall DEF OwnInv, Owners, connVars
    <2>. QED  BY <2>6, <2>7, <2>8 DEF Rest
<1>. QED  BY <1>1, <1>2, <1>3 DEF GetConnection

\* Steps of the scheduler that no connection is part of.
LEMMA MoveOwners ==
    ASSUME OwnInv, WorkBegin \/ \E r \in Call : ConnectFails(r)
    PROVE  Rest'
<1>1. UNCHANGED <<poolVars, call, idle, connVars>>
    BY DEF WorkBegin, ConnectFails
<1>2. Tasks' = Tasks
    BY TasksAfterMove DEF WorkBegin, ConnectFails, OwnInv
<1>3. UNCHANGED <<WaitOf, FreeOf, ConnOf, PoolOf>>
    BY <1>1 DEF WaitOf, FreeOf, ConnOf, PoolOf, poolVars
<1>4. AllOpen' = AllOpen
    BY <1>1, <1>2, <1>3 DEF AllOpen
<1>5. Types'
    BY <1>1 DEF OwnInv, Types, StackTypes, poolVars, connVars
<1>6. Calls'
    BY <1>1, <1>2, <1>3 DEF OwnInv, Calls, poolVars
<1>7. Owners'
    BY <1>1, <1>3, <1>4 DEF OwnInv, Owners, poolVars, connVars
<1>. QED  BY <1>5, <1>6, <1>7 DEF Rest

LEMMA ConnectSucceedsOwners ==
    ASSUME OwnInv, NEW r \in Call, NEW c \in Conn, ConnectSucceeds(r, c)
    PROVE  Rest'
<1>1. /\ c \notin alive /\ alive' = alive \cup {c}
      /\ call' = [call EXCEPT ![r].connection = c]
      /\ UNCHANGED <<poolVars, idle, wrapped>>
    BY DEF ConnectSucceeds
<1>2. Tasks' = Tasks /\ r \in Tasks
    <2>1. Async!WorkEnd(r)
        BY DEF ConnectSucceeds
    <2>2. r \in working
        BY <2>1 DEF Async!WorkEnd
    <2>3. r \in Tasks
        BY <2>2 DEF Tasks, AsyncProofs!Known, AsyncProofs!InFlight
    <2>. QED  BY <2>1, <2>3, TasksAfterMove DEF OwnInv
<1>3. /\ call' \in [Call -> Cell] /\ ConnOf' = [ConnOf EXCEPT ![r] = c] /\ PoolOf' = PoolOf
    BY <1>1, ConnectionWritten DEF OwnInv, Types
<1>4. /\ ConnOf \in [Call -> Conn \cup {NoConn}]
      /\ PoolOf \in [Call -> PoolId \cup {NoPool}]
      /\ FreeOf \in [PoolId -> SUBSET Conn]
    BY SetsHaveTypes DEF OwnInv
<1>5. UNCHANGED <<WaitOf, FreeOf>>
    BY <1>1 DEF WaitOf, FreeOf, poolVars
<1>6. AllOpen' = AllOpen /\ r \in AllOpen
    BY <1>1, <1>2, <1>5 DEF AllOpen
<1>7. m_poolId' = [m_poolId EXCEPT ![c] = PoolOf[r]]
    BY DEF ConnectSucceeds, PoolOf
<1>8. Types'
    BY <1>1, <1>3, <1>4, <1>7 DEF OwnInv, Types, StackTypes, poolVars
<1>9. Calls'
    BY <1>1, <1>2, <1>5 DEF OwnInv, Calls, poolVars
<1>10. m_poolId \in [Conn -> PoolId \cup {NoPool}] /\ c # NoConn
    BY PoolAssumption DEF OwnInv, Types
<1>11. Owners'
    BY <1>1, <1>3, <1>4, <1>5, <1>6, <1>7, <1>10 DEF OwnInv, Owners, poolVars
<1>. QED  BY <1>8, <1>9, <1>11 DEF Rest

LEMMA AfterWorkOwners ==
    ASSUME OwnInv, AfterWork
    PROVE  Rest'
<1>. DEFINE r == Head(finished)
<1>1. r \in Call /\ r \in Tasks
    <2>1. finished \in Seq(Call) /\ finished # <<>>
        BY DEF OwnInv, AsyncProofs!Inv, AsyncProofs!TypeOK, AfterWork, Async!AfterWork
    <2>2. r \in Call /\ Len(finished) \in Nat \ {0} /\ DOMAIN finished = 1..Len(finished)
          /\ r = finished[1]
        BY <2>1, HeadTailProperties, LenProperties, EmptySeq
    <2>3. r \in AsyncProofs!Range(finished)
        BY <2>2 DEF AsyncProofs!Range
    <2>. QED  BY <2>2, <2>3 DEF Tasks, AsyncProofs!Known, AsyncProofs!InFlight
<1>2. Tasks' = Tasks
    BY TasksAfterMove DEF AfterWork, OwnInv
<1>3. UNCHANGED <<nextPoolId, pools, m_availableConnections, m_waitingCallbacks, idle,
                  m_poolId, alive>>
    BY DEF AfterWork
<1>4. UNCHANGED <<WaitOf, FreeOf>>
    BY <1>3 DEF WaitOf, FreeOf
<1>5. AllOpen' = AllOpen
    BY <1>2, <1>3, <1>4 DEF AllOpen
<1>6. Calls'
    BY <1>2, <1>3, <1>4 DEF OwnInv, Calls
<1>7. CASE UNCHANGED <<m_createdConnections, wrapped, call>>
    <2>1. UNCHANGED <<ConnOf, PoolOf>>
        BY <1>7 DEF ConnOf, PoolOf
    <2>2. Types'
        BY <1>3, <1>7 DEF OwnInv, Types, StackTypes
    <2>3. Owners'
        BY <1>3, <1>4, <1>5, <1>7, <2>1 DEF OwnInv, Owners
    <2>. QED  BY <1>6, <2>2, <2>3 DEF Rest
<1>8. CASE /\ Delivers(r)
           /\ ConnectionCreatedCallback(call[r].poolId)
           /\ wrapped' = wrapped \cup {call[r].connection}
           /\ call' = [call EXCEPT ![r].connection = NoConn]
    <2>1. /\ call' \in [Call -> Cell] /\ ConnOf' = [ConnOf EXCEPT ![r] = NoConn]
          /\ PoolOf' = PoolOf
        BY <1>1, <1>8, ConnectionWritten DEF OwnInv, Types
    <2>2. /\ ConnOf \in [Call -> Conn \cup {NoConn}]
          /\ FreeOf \in [PoolId -> SUBSET Conn]
        BY SetsHaveTypes DEF OwnInv
    <2>3. wrapped' = wrapped \cup {ConnOf[r]} /\ ConnOf[r] # NoConn
        BY <1>1, <1>8 DEF ConnOf, Delivers
    <2>4. m_createdConnections' \in [PoolId -> Nat]
        BY <1>8 DEF ConnectionCreatedCallback, OwnInv, Types, StackTypes
    <2>5. Types'
        <3>1. wrapped' \subseteq Conn
            BY <1>1, <2>2, <2>3 DEF OwnInv, Types
        <3>. QED  BY <1>3, <2>1, <2>4, <3>1 DEF OwnInv, Types, StackTypes
    <2>6. r \notin idle
        BY <1>1 DEF OwnInv, Calls
    <2>7. Owners'
        BY <1>1, <1>3, <1>4, <1>5, <2>1, <2>2, <2>3, <2>6 DEF OwnInv, Owners
    <2>. QED  BY <1>6, <2>5, <2>7 DEF Rest
<1>. QED  BY <1>7, <1>8 DEF AfterWork

LEMMA AfterWorkDoneOwners ==
    ASSUME OwnInv, AfterWorkDone
    PROVE  Rest'
<1>. DEFINE r == inAfter
<1>1. Tasks' = Tasks \ {r} /\ r \in Tasks /\ r \in Call
    BY TasksAfterDone DEF AfterWorkDone, OwnInv
<1>2. UNCHANGED <<poolVars, idle, m_poolId, wrapped>>
    BY DEF AfterWorkDone
<1>3. UNCHANGED <<WaitOf, FreeOf>>
    BY <1>2 DEF WaitOf, FreeOf, poolVars
<1>4. call' = [call EXCEPT ![r] = [poolId |-> NoPool, callback |-> FALSE,
                                   connection |-> NoConn]]
    BY DEF AfterWorkDone, Blank
<1>5. /\ call' \in [Call -> Cell] /\ ConnOf' = [ConnOf EXCEPT ![r] = NoConn]
      /\ PoolOf' = [PoolOf EXCEPT ![r] = NoPool]
    BY <1>1, <1>4, CellWritten DEF OwnInv, Types
<1>6. /\ ConnOf \in [Call -> Conn \cup {NoConn}]
      /\ PoolOf \in [Call -> PoolId \cup {NoPool}]
      /\ FreeOf \in [PoolId -> SUBSET Conn]
    BY SetsHaveTypes DEF OwnInv
<1>7. alive' = alive \ {ConnOf[r]}
    BY <1>1 DEF AfterWorkDone, ConnOf
<1>8. AllOpen \subseteq AllOpen' \cup {r}
    BY <1>1, <1>2, <1>3 DEF AllOpen
<1>9. Types'
    BY <1>2, <1>5, <1>7 DEF OwnInv, Types, StackTypes, poolVars
<1>10. Calls'
    BY <1>1, <1>2, <1>3 DEF OwnInv, Calls, poolVars
<1>11. r \notin idle /\ NoConn \notin Conn
    BY <1>1, PoolAssumption DEF OwnInv, Calls
<1>12. alive \subseteq Conn
    BY DEF OwnInv, Types
<1>13. Owners'
    BY <1>1, <1>2, <1>3, <1>5, <1>6, <1>7, <1>8, <1>11, <1>12 DEF OwnInv, Owners, poolVars
<1>. QED  BY <1>9, <1>10, <1>13 DEF Rest

LEMMA IdleCallbackOwners ==
    ASSUME OwnInv, NEW r \in Call, IdleCallback(r)
    PROVE  Rest'
<1>1. /\ r \in idle /\ idle' = idle \ {r}
      /\ UNCHANGED <<asyncVars, poolVars, m_poolId, alive>>
    BY DEF IdleCallback
<1>2. Tasks' = Tasks
    BY <1>1, TasksUnchanged
<1>3. UNCHANGED <<WaitOf, FreeOf>>
    BY <1>1 DEF WaitOf, FreeOf, poolVars
<1>4. call' = [call EXCEPT ![r] = [poolId |-> NoPool, callback |-> FALSE,
                                   connection |-> NoConn]]
    BY DEF IdleCallback, Blank
<1>5. /\ call' \in [Call -> Cell] /\ ConnOf' = [ConnOf EXCEPT ![r] = NoConn]
      /\ PoolOf' = [PoolOf EXCEPT ![r] = NoPool]
    BY <1>4, CellWritten DEF OwnInv, Types
<1>6. /\ ConnOf \in [Call -> Conn \cup {NoConn}]
      /\ PoolOf \in [Call -> PoolId \cup {NoPool}]
      /\ FreeOf \in [PoolId -> SUBSET Conn]
    BY SetsHaveTypes DEF OwnInv
<1>7. wrapped' \in {wrapped, wrapped \cup {ConnOf[r]}} /\ ConnOf[r] # NoConn
    BY <1>1 DEF IdleCallback, ConnOf, OwnInv, Owners
<1>8. AllOpen \subseteq AllOpen' \cup {r}
    BY <1>1, <1>2, <1>3 DEF AllOpen
<1>9. Types'
    <2>1. wrapped' \subseteq Conn
        BY <1>6, <1>7 DEF OwnInv, Types
    <2>2. idle' \subseteq Call
        BY <1>1 DEF OwnInv, Types
    <2>. QED  BY <1>1, <1>5, <2>1, <2>2 DEF OwnInv, Types, StackTypes, poolVars
<1>10. Calls'
    BY <1>1, <1>2, <1>3 DEF OwnInv, Calls, poolVars
<1>11. Owners'
    <2>1. CASE wrapped' = wrapped
        BY <1>1, <1>3, <1>5, <1>6, <1>7, <1>8, <2>1 DEF OwnInv, Owners, poolVars
    <2>2. CASE wrapped' = wrapped \cup {ConnOf[r]}
        BY <1>1, <1>3, <1>5, <1>6, <1>7, <1>8, <2>2 DEF OwnInv, Owners, poolVars
    <2>. QED  BY <1>7, <2>1, <2>2
<1>. QED  BY <1>9, <1>10, <1>11 DEF Rest

LEMMA ReleaseOwners ==
    ASSUME OwnInv, NEW c \in Conn, Release(c)
    PROVE  Rest'
<1>. DEFINE p == m_poolId[c]
            con == Append(m_availableConnections[p], c)
<1>1. /\ c \in wrapped /\ wrapped' = wrapped \ {c} /\ p \in pools /\ p \in PoolId
      /\ CheckWaitingCallbacks(p, con)
      /\ UNCHANGED <<asyncVars, nextPoolId, pools, m_createdConnections, m_poolId, alive>>
    BY DEF Release, OwnInv, Types, StackTypes
<1>2. /\ m_availableConnections \in [PoolId -> Seq(Conn)]
      /\ m_waitingCallbacks \in [PoolId -> Seq(Call)]
      /\ \A q \in PoolId : IsInjective(m_availableConnections[q])
      /\ \A q \in PoolId : IsInjective(m_waitingCallbacks[q])
      /\ call \in [Call -> Cell]
    BY DEF OwnInv, Types, StackTypes, Owners, Calls
<1>3. /\ ConnOf \in [Call -> Conn \cup {NoConn}]
      /\ PoolOf \in [Call -> PoolId \cup {NoPool}]
      /\ FreeOf \in [PoolId -> SUBSET Conn]
      /\ WaitOf \in [PoolId -> SUBSET Call]
    BY SetsHaveTypes DEF OwnInv
<1>4. Tasks' = Tasks
    BY <1>1, TasksUnchanged
<1>5. /\ c \in alive /\ c # NoConn /\ \A q \in PoolId : c \notin FreeOf[q]
      /\ \A s \in Call : ConnOf[s] # c
    BY <1>1, PoolAssumption DEF OwnInv, Owners
<1>6. c \notin Range(m_availableConnections[p])
    BY <1>1, <1>5 DEF FreeOf
<1>7. con # <<>> /\ Last(con) = c /\ Front(con) = m_availableConnections[p]
    <2>1. m_availableConnections[p] \in Seq(Conn)
        BY <1>1, <1>2
    <2>2. Last(con) = c /\ Front(con) = m_availableConnections[p]
        BY <2>1, PushedOn, FrontOfAppend
    <2>3. con \in Seq(Conn) /\ Len(con) = Len(m_availableConnections[p]) + 1
          /\ Len(m_availableConnections[p]) \in Nat
        BY <2>1, AppendProperties, LenProperties
    <2>4. con # <<>>
        <3>. HIDE DEF con
        <3>. QED  BY <2>3, EmptySeq
    <2>. QED  BY <2>2, <2>4
<1>8. CASE m_waitingCallbacks[p] # <<>>
    <2>. DEFINE r == Last(m_waitingCallbacks[p])
    <2>1. /\ idle' = idle \cup {r}
          /\ call' = [call EXCEPT ![r] = [poolId |-> p, callback |-> call[r].callback,
                                          connection |-> c]]
          /\ m_availableConnections' = [m_availableConnections EXCEPT
                                            ![p] = m_availableConnections[p]]
          /\ m_waitingCallbacks' = [m_waitingCallbacks EXCEPT ![p] = Front(@)]
        BY <1>1, <1>7, <1>8 DEF CheckWaitingCallbacks, AddIdle
    <2>2. m_availableConnections' = m_availableConnections
        BY <1>1, <1>2, <2>1
    <2>3. /\ m_waitingCallbacks' \in [PoolId -> Seq(Call)]
          /\ \A q \in PoolId : IsInjective(m_waitingCallbacks'[q])
          /\ WaitOf' = [WaitOf EXCEPT ![p] = @ \ {r}]
          /\ r \in Call /\ r \in WaitOf[p]
        BY <1>1, <1>2, <1>8, <2>1, WaitPopped
    <2>. HIDE DEF r
    <2>4. /\ call' \in [Call -> Cell] /\ ConnOf' = [ConnOf EXCEPT ![r] = c]
          /\ PoolOf' = [PoolOf EXCEPT ![r] = p]
        <3>1. call[r].callback \in BOOLEAN
            BY <1>2, <2>3 DEF Cell
        <3>. HIDE DEF p
        <3>2. ASSUME NEW b \in BOOLEAN, NEW q \in PoolId,
                     call' = [call EXCEPT ![r] = [poolId |-> q, callback |-> b,
                                                  connection |-> c]]
              PROVE  /\ call' \in [Call -> Cell] /\ ConnOf' = [ConnOf EXCEPT ![r] = c]
                     /\ PoolOf' = [PoolOf EXCEPT ![r] = q]
            <4>1. q \in PoolId \cup {NoPool} /\ c \in Conn \cup {NoConn}
                OBVIOUS
            <4>. QED  BY <1>2, <2>3, <3>2, <4>1, CellWritten
        <3>. QED  BY <1>1, <2>1, <3>1, <3>2
    <2>5. FreeOf' = FreeOf
        BY <2>2 DEF FreeOf
    <2>6. AllOpen \subseteq AllOpen'
        BY <1>1, <1>3, <1>4, <2>1, <2>3 DEF AllOpen
    <2>7. Types'
        BY <1>1, <2>1, <2>2, <2>3, <2>4 DEF OwnInv, Types, StackTypes
    <2>8. Calls'
        BY <1>1, <1>3, <1>4, <2>1, <2>3 DEF OwnInv, Calls
    <2>9. Owners'
        <3>. HIDE DEF p
        <3>1. Owners /\ r \in Call
            BY <2>3 DEF OwnInv
        <3>2. ASSUME NEW s \in Call, s # r, ConnOf'[s] # NoConn
              PROVE  /\ ConnOf'[s] \in alive' \ wrapped'
                     /\ \A q \in PoolId : ConnOf'[s] \notin FreeOf'[q]
                     /\ \A u \in Call : u # s => ConnOf'[u] # ConnOf'[s]
                     /\ m_poolId'[ConnOf'[s]] = PoolOf'[s]
            BY <1>1, <1>3, <1>5, <2>4, <2>5, <3>1, <3>2 DEF Owners
        <3>3. /\ ConnOf'[r] \in alive' \ wrapped'
              /\ \A q \in PoolId : ConnOf'[r] \notin FreeOf'[q]
              /\ \A u \in Call : u # r => ConnOf'[u] # ConnOf'[r]
            BY <1>1, <1>3, <1>5, <2>4, <2>5, <3>1 DEF Owners
        <3>4. m_poolId'[ConnOf'[r]] = PoolOf'[r]
            BY <1>1, <1>3, <2>4, <3>1 DEF p
        <3>5. \A s \in Call : s \notin AllOpen' => ConnOf'[s] = NoConn
            <4>1. r \in AllOpen'
                BY <2>1 DEF AllOpen
            <4>. QED  BY <1>3, <2>4, <2>6, <3>1, <4>1 DEF Owners
        <3>6. \A s \in idle' : ConnOf'[s] # NoConn
            <4>1. idle \subseteq Call
                BY DEF OwnInv, Types
            <4>. QED  BY <1>3, <1>5, <2>1, <2>4, <3>1, <4>1 DEF Owners
        <3>. QED  BY <1>1, <2>2, <2>5, <3>1, <3>2, <3>3, <3>4, <3>5, <3>6 DEF Owners
    <2>. QED  BY <2>7, <2>8, <2>9 DEF Rest
<1>9. CASE m_waitingCallbacks[p] = <<>>
    <2>1. /\ m_availableConnections' = [m_availableConnections EXCEPT ![p] = Append(@, c)]
          /\ UNCHANGED <<m_waitingCallbacks, call, idle>>
        BY <1>1, <1>2, <1>7, <1>9 DEF CheckWaitingCallbacks
    <2>2. /\ m_availableConnections' \in [PoolId -> Seq(Conn)]
          /\ \A q \in PoolId : IsInjective(m_availableConnections'[q])
          /\ FreeOf' = [FreeOf EXCEPT ![p] = @ \cup {c}]
        BY <1>1, <1>2, <1>6, <2>1, FreePushed
    <2>3. UNCHANGED <<WaitOf, ConnOf, PoolOf>>
        BY <2>1 DEF WaitOf, ConnOf, PoolOf
    <2>4. AllOpen' = AllOpen
        BY <1>4, <2>1, <2>3 DEF AllOpen
    <2>5. Types'
        BY <1>1, <2>1, <2>2 DEF OwnInv, Types, StackTypes
    <2>6. Calls'
        BY <1>4, <2>1, <2>3 DEF OwnInv, Calls
    <2>7. Owners'
        BY <1>1, <1>3, <1>5, <2>1, <2>2, <2>3, <2>4 DEF OwnInv, Owners
    <2>. QED  BY <2>5, <2>6, <2>7 DEF Rest
<1>. QED  BY <1>8, <1>9

LEMMA CollectOwners ==
    ASSUME OwnInv, Collect
    PROVE  Rest'
<1>1. ASSUME NEW c \in Conn, CollectWrapper(c) PROVE Rest'
    <2>1. /\ wrapped' = wrapped \ {c} /\ alive' = alive \ {c} /\ c \in wrapped
          /\ UNCHANGED <<asyncVars, poolVars, call, idle, m_poolId>>
        BY <1>1 DEF CollectWrapper
    <2>2. Tasks' = Tasks
        BY <2>1, TasksUnchanged
    <2>3. UNCHANGED <<WaitOf, FreeOf, ConnOf, PoolOf>>
        BY <2>1 DEF WaitOf, FreeOf, ConnOf, PoolOf, poolVars
    <2>4. AllOpen' = AllOpen
        BY <2>1, <2>2, <2>3 DEF AllOpen
    <2>5. Types'
        BY <2>1 DEF OwnInv, Types, StackTypes, poolVars
    <2>6. Calls'
        BY <2>1, <2>2, <2>3 DEF OwnInv, Calls, poolVars
    <2>7. Owners'
        BY <2>1, <2>3, <2>4 DEF OwnInv, Owners, poolVars
    <2>. QED  BY <2>5, <2>6, <2>7 DEF Rest
<1>2. ASSUME NEW p \in PoolId, CollectPool(p) PROVE Rest'
    <2>1. /\ pools' = pools \ {p} /\ alive' = alive \ FreeOf[p]
          /\ m_availableConnections' = [m_availableConnections EXCEPT ![p] = <<>>]
          /\ m_waitingCallbacks' = [m_waitingCallbacks EXCEPT ![p] = <<>>]
          /\ m_createdConnections' = [m_createdConnections EXCEPT ![p] = 0]
          /\ call' = [r \in Call |-> IF r \in WaitOf[p] THEN Blank ELSE call[r]]
          /\ UNCHANGED <<asyncVars, nextPoolId, idle, m_poolId, wrapped>>
        BY <1>2 DEF CollectPool, FreeOf, WaitOf, Available, Waiting
    <2>2. Tasks' = Tasks
        BY <2>1, TasksUnchanged
    <2>3. /\ m_availableConnections' \in [PoolId -> Seq(Conn)]
          /\ \A q \in PoolId : IsInjective(m_availableConnections'[q])
          /\ FreeOf' = [FreeOf EXCEPT ![p] = {}]
        BY <2>1, FreeEmptied DEF OwnInv, Types, StackTypes, Owners
    <2>4. /\ m_waitingCallbacks' \in [PoolId -> Seq(Call)]
          /\ \A q \in PoolId : IsInjective(m_waitingCallbacks'[q])
          /\ WaitOf' = [WaitOf EXCEPT ![p] = {}]
        BY <2>1, WaitEmptied DEF OwnInv, Types, StackTypes, Calls
    <2>5. /\ ConnOf \in [Call -> Conn \cup {NoConn}]
          /\ PoolOf \in [Call -> PoolId \cup {NoPool}]
          /\ FreeOf \in [PoolId -> SUBSET Conn]
          /\ WaitOf \in [PoolId -> SUBSET Call]
        BY SetsHaveTypes DEF OwnInv
    <2>6. /\ Blank \in Cell /\ Blank.connection = NoConn /\ Blank.poolId = NoPool
        BY DEF Blank, Cell
    <2>7. call' \in [Call -> Cell]
        BY <2>1, <2>6 DEF OwnInv, Types
    <2>8. \A r \in Call : /\ r \in WaitOf[p] => ConnOf'[r] = NoConn /\ PoolOf'[r] = NoPool
                          /\ r \notin WaitOf[p] => ConnOf'[r] = ConnOf[r]
                                                   /\ PoolOf'[r] = PoolOf[r]
        BY <2>1, <2>6 DEF ConnOf, PoolOf
    <2>9. AllOpen \subseteq AllOpen' \cup WaitOf[p]
        BY <2>1, <2>2, <2>4, <2>5 DEF AllOpen
    <2>10. Types'
        <3>1. m_createdConnections' \in [PoolId -> Nat] /\ pools' \subseteq PoolId
            BY <2>1 DEF OwnInv, Types, StackTypes
        <3>2. alive' \subseteq Conn
            BY <2>1 DEF OwnInv, Types
        <3>. QED  BY <2>1, <2>3, <2>4, <2>7, <3>1, <3>2 DEF OwnInv, Types, StackTypes
    <2>11. Calls'
        BY <2>1, <2>2, <2>4, <2>5 DEF OwnInv, Calls
    <2>12. WaitOf[p] \cap idle = {} /\ NoConn \notin Conn
        BY PoolAssumption DEF OwnInv, Calls
    <2>13. Owners'
        <3>1. Owners /\ idle \subseteq Call
            BY DEF OwnInv, Types
        <3>2. \A q \in PoolId : FreeOf'[q] \subseteq alive' \ wrapped'
            <4>1. ASSUME NEW q \in PoolId, q # p PROVE FreeOf[q] \cap FreeOf[p] = {}
                BY <3>1, <4>1 DEF Owners
            <4>. QED  BY <2>1, <2>3, <2>5, <3>1, <4>1 DEF Owners
        <3>3. wrapped' \subseteq alive'
            BY <2>1, <3>1 DEF Owners
        <3>4. ASSUME NEW s \in Call, ConnOf'[s] # NoConn
              PROVE  /\ ConnOf'[s] \in alive' \ wrapped'
                     /\ \A q \in PoolId : ConnOf'[s] \notin FreeOf'[q]
                     /\ \A u \in Call : u # s => ConnOf'[u] # ConnOf'[s]
                     /\ m_poolId'[ConnOf'[s]] = PoolOf'[s]
            <4>1. s \notin WaitOf[p] /\ ConnOf'[s] = ConnOf[s] /\ PoolOf'[s] = PoolOf[s]
                BY <2>8, <3>4
            <4>2. /\ ConnOf[s] \in alive \ wrapped
                  /\ \A q \in PoolId : ConnOf[s] \notin FreeOf[q]
                  /\ \A u \in Call : u # s => ConnOf[u] # ConnOf[s]
                  /\ m_poolId[ConnOf[s]] = PoolOf[s]
                BY <3>1, <3>4, <4>1 DEF Owners
            <4>3. \A u \in Call : u # s => ConnOf'[u] # ConnOf'[s]
                BY <2>8, <3>4, <4>1, <4>2
            <4>4. \A q \in PoolId : ConnOf'[s] \notin FreeOf'[q]
                BY <2>3, <2>5, <4>1, <4>2
            <4>. QED  BY <2>1, <4>1, <4>2, <4>3, <4>4
        <3>5. \A s \in Call : s \notin AllOpen' => ConnOf'[s] = NoConn
            BY <2>8, <2>9, <3>1 DEF Owners
        <3>6. \A s \in idle' : ConnOf'[s] # NoConn
            BY <2>1, <2>8, <2>12, <3>1 DEF Owners
        <3>7. \A q \in PoolId : \A c \in FreeOf'[q] : m_poolId'[c] = q
            BY <2>1, <2>3, <2>5, <3>1 DEF Owners
        <3>. QED  BY <2>3, <3>2, <3>3, <3>4, <3>5, <3>6, <3>7 DEF Owners
    <2>. QED  BY <2>10, <2>11, <2>13 DEF Rest
<1>. QED  BY <1>1, <1>2 DEF Collect

-----------------------------------------------------------------------------
(* The invariant.                                                          *)

LEMMA OwnInit == Init => OwnInv
<1>. SUFFICES ASSUME Init PROVE OwnInv
    OBVIOUS
<1>1. AsyncProofs!Inv
    BY AsyncAssumption, AsyncProofs!InitInv DEF Init, Async!Init, AsyncProofs!Init
<1>2. Range(<<>>) = {} /\ IsInjective(<<>>)
    BY DEF Range, IsInjective
<1>3. Types
    <2>1. Blank \in Cell
        BY DEF Blank, Cell
    <2>2. call \in [Call -> Cell]
        BY <2>1 DEF Init
    <2>3. nextPoolId \in 1..MaxPools + 1
        BY PoolAssumption DEF Init
    <2>. QED  BY <2>2, <2>3 DEF Init, Types, StackTypes
<1>4. Blank.connection = NoConn
    BY DEF Blank
<1>5. ConnOf = [r \in Call |-> NoConn]
    BY <1>4 DEF Init, ConnOf
<1>6. WaitOf = [p \in PoolId |-> {}] /\ FreeOf = [p \in PoolId |-> {}]
    BY <1>2 DEF Init, WaitOf, FreeOf
<1>7. Calls
    BY <1>2, <1>6 DEF Init, Calls
<1>8. Owners
    BY <1>2, <1>5, <1>6 DEF Init, Owners
<1>. QED  BY <1>1, <1>3, <1>7, <1>8 DEF OwnInv

LEMMA OwnNext == OwnInv /\ [Next]_vars => OwnInv'
<1>. SUFFICES ASSUME OwnInv, [Next]_vars PROVE OwnInv'
    OBVIOUS
<1>1. AsyncProofs!Inv'
    BY AsyncAssumption, AsyncProofs!NextInv, AsyncStep DEF OwnInv
<1>2. CASE UNCHANGED vars
    <2>1. UNCHANGED <<asyncVars, poolVars, call, idle, connVars>>
        BY <1>2 DEF vars
    <2>2. UNCHANGED <<WaitOf, FreeOf, ConnOf, PoolOf>> /\ Tasks' = Tasks
        BY <2>1, TasksUnchanged DEF WaitOf, FreeOf, ConnOf, PoolOf, poolVars
    <2>3. AllOpen' = AllOpen
        BY <2>1, <2>2 DEF AllOpen
    <2>4. Types'
        BY <2>1 DEF OwnInv, Types, StackTypes, poolVars, connVars
    <2>5. Calls'
        BY <2>1, <2>2 DEF OwnInv, Calls, poolVars
    <2>6. Owners'
        BY <2>1, <2>2, <2>3 DEF OwnInv, Owners, poolVars, connVars
    <2>. QED  BY <1>1, <2>4, <2>5, <2>6 DEF OwnInv
<1>3. CASE Ask \/ AskWithoutCallback
    BY <1>1, <1>3, NewPoolOwners, ConnectOwners, GetConnectionOwners
       DEF Ask, AskWithoutCallback, OwnInv, Rest
<1>4. CASE Answer
    BY <1>1, <1>4, MoveOwners, ConnectSucceedsOwners, AfterWorkOwners, AfterWorkDoneOwners,
       IdleCallbackOwners DEF Answer, OwnInv, Rest
<1>5. CASE GiveBack \/ Collect
    BY <1>1, <1>5, ReleaseOwners, CollectOwners DEF GiveBack, OwnInv, Rest
<1>. QED  BY <1>2, <1>3, <1>4, <1>5 DEF Next

LEMMA OwnInvariant == Safe => []OwnInv
BY OwnInit, OwnNext, PTL DEF Safe

\* The types of what the pools, the calls and the connections keep.
THEOREM TypesAreKept == Safe => []TypeOK
<1>1. OwnInv => TypeOK
    <2>. SUFFICES ASSUME OwnInv PROVE TypeOK
        OBVIOUS
    <2>1. Async!TypeOK
        BY DEF OwnInv, AsyncProofs!Inv, AsyncProofs!TypeOK, Async!TypeOK
    <2>. QED  BY <2>1 DEF OwnInv, Types, StackTypes, Cell, TypeOK
<1>. QED  BY <1>1, OwnInvariant, PTL

\* A connection has one owner, which has a connection that is not deleted, for
\* any number of pools, calls and connections: src/PoolWrapper.cpp:41-150,
\* src/ConnectionWrapper.cpp:246-262, src/TaskConnection.cpp:10-62.
THEOREM ConnectionsHaveOneOwner == Safe => []OneOwner
<1>1. OwnInv => OneOwner
    <2>. SUFFICES ASSUME OwnInv PROVE OneOwner
        OBVIOUS
    <2>1. \A p \in PoolId : Available(p) = FreeOf[p]
        BY DEF Available, FreeOf
    <2>2. \A r \in Call : call[r].connection = ConnOf[r]
        BY DEF ConnOf
    <2>3. Free = UNION {FreeOf[p] : p \in PoolId}
        BY <2>1 DEF Free
    <2>4. Carried = {ConnOf[r] : r \in Call} \ {NoConn}
        BY <2>2 DEF Carried
    <2>5. \A p, q \in PoolId : p # q => Available(p) \cap Available(q) = {}
        BY <2>1 DEF OwnInv, Owners
    <2>6. \A p \in PoolId : IsInjective(m_availableConnections[p])
        BY DEF OwnInv, Owners
    <2>7. \A r, s \in Call : r # s /\ call[r].connection # NoConn
                                => call[r].connection # call[s].connection
        BY <2>2 DEF OwnInv, Owners
    <2>8. Free \cap Carried = {} /\ Free \cap wrapped = {} /\ Carried \cap wrapped = {}
        BY <2>3, <2>4 DEF OwnInv, Owners
    <2>9. Free \cup Carried \cup wrapped \subseteq alive
        BY <2>3, <2>4 DEF OwnInv, Owners
    <2>. QED  BY <2>5, <2>6, <2>7, <2>8, <2>9 DEF OneOwner
<1>. QED  BY <1>1, OwnInvariant, PTL

\* A call is in one place until it is answered, so that its callback runs once:
\* src/PoolWrapper.cpp:74-159.
THEOREM CallsAreAnsweredOnce == Safe => []OneAnswer
<1>1. OwnInv => OneAnswer
    <2>. SUFFICES ASSUME OwnInv PROVE OneAnswer
        OBVIOUS
    <2>1. \A p \in PoolId : Waiting(p) = WaitOf[p]
        BY DEF Waiting, WaitOf
    <2>2. Async!OnePlace
        BY DEF OwnInv, AsyncProofs!Inv, AsyncProofs!OnePlace, Async!OnePlace,
               AsyncProofs!InFlight, Async!InFlight, AsyncProofs!After, Async!After,
               AsyncProofs!Range, Async!Range, AsyncProofs!IsInjective, Async!IsInjective
    <2>. QED  BY <2>1, <2>2, SameTasks DEF OwnInv, Calls, OneAnswer
<1>. QED  BY <1>1, OwnInvariant, PTL

\* A connection goes to a call of its own pool and is released to that pool:
\* src/PoolWrapper.cpp:41-49, 107-150.
THEOREM ConnectionsKeepTheirPool == Safe => []OwnPool
<1>1. OwnInv => OwnPool
    BY DEF OwnInv, Owners, OwnPool, ConnOf, PoolOf, FreeOf, Available
<1>. QED  BY <1>1, OwnInvariant, PTL

-----------------------------------------------------------------------------
(* Released objects.                                                       *)

\* src/ConnectionWrapper.cpp:256: the pool becomes the owner of a released
\* connection. It is so in programs that keep every released object reachable:
\* nothing else deletes a connection that a pool has or lends.
THEOREM KeptObjectsLeaveOwner ==
    CollectorSafe /\ [][\A c \in Conn : ~CollectReleased(c)]_<<vars, released>>
        => []PoolOwnsReleased
<1>1. [CollectorNext]_<<vars, released>>
      /\ [\A c \in Conn : ~CollectReleased(c)]_<<vars, released>> => [Next]_vars
    <2>1. ASSUME CollectorNext, \A c \in Conn : ~CollectReleased(c) PROVE Next
        BY <2>1 DEF CollectorNext, ReleaseWrapper, Next, GiveBack
    <2>2. UNCHANGED <<vars, released>> => UNCHANGED vars
        OBVIOUS
    <2>. QED  BY <2>1, <2>2
<1>2. CollectorSafe /\ [][\A c \in Conn : ~CollectReleased(c)]_<<vars, released>> => Safe
    BY <1>1, PTL DEF CollectorSafe, CollectorInit, Safe
<1>3. OneOwner => PoolOwnsReleased
    BY DEF OneOwner, PoolOwnsReleased
<1>. QED  BY <1>2, <1>3, ConnectionsHaveOneOwner, PTL

=============================================================================
