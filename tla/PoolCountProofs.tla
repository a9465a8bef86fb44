--------------------------- MODULE PoolCountProofs ---------------------------
(***************************************************************************)
(* Proofs about how many connections a pool has and whether a call that    *)
(* waits in it can hope for one, for any number of pools, calls and        *)
(* connections and any size. The first part counts the connections that    *)
(* are being opened and those a pool has counted, for every program; the   *)
(* second is about programs that always give a callback and release what   *)
(* they get (WellBehaved).                                                 *)
(***************************************************************************)
EXTENDS PoolServiceProofs

-----------------------------------------------------------------------------
(* Counting: the connections being opened and those a pool has counted.    *)

OpeningOf == [p \in PoolId |-> {r \in Tasks : r # inAfter /\ PoolOf[r] = p}]
CountedOf == [p \in PoolId |-> {c \in alive : m_poolId[c] = p
                                                /\ \A r \in Tasks : ConnOf[r] # c}]

\* The connections of a pool, counted and being opened.
SizeOf == [p \in PoolId |-> m_createdConnections[p] + Cardinality(OpeningOf[p])]

\* A step that makes no pool larger, and one that opens a connection for p.
OpensNothing == \A p \in PoolId : SizeOf'[p] <= SizeOf[p]
OpensOne(p) == /\ MayCreate(p)
               /\ \E r \in Call : OpeningOf' = [OpeningOf EXCEPT ![p] = @ \cup {r}]
               /\ UNCHANGED m_createdConnections

\* What a step does to pool p and to the connections that p has counted: they
\* are the same or some are deleted; or one more is counted; or p is collected;
\* or p is not there before the step.
Tally(p) ==
    \/ /\ p \in pools \cap pools' /\ m_createdConnections'[p] = m_createdConnections[p]
       /\ CountedOf'[p] \subseteq CountedOf[p]
       /\ alive \subseteq alive' => CountedOf'[p] = CountedOf[p]
    \/ /\ p \in pools \cap pools' /\ m_createdConnections'[p] = m_createdConnections[p] + 1
       /\ \E c \in Conn \ CountedOf[p] : CountedOf'[p] = CountedOf[p] \cup {c}
    \/ /\ p \in pools \ pools' /\ m_createdConnections'[p] = 0
    \/ /\ p \notin pools /\ m_createdConnections'[p] = m_createdConnections[p]
       /\ p \in pools' => CountedOf'[p] = {}

Tallies == \A p \in PoolId : Tally(p)

LEMMA SetSizes ==
    ASSUME OwnInv
    PROVE  /\ Tasks \subseteq Call
           /\ Cardinality(Call) \in Nat
           /\ \A S \in SUBSET Call : /\ IsFiniteSet(S) /\ Cardinality(S) \in Nat
                                     /\ Cardinality(S) <= Cardinality(Call)
           /\ \A S \in SUBSET Conn : IsFiniteSet(S) /\ Cardinality(S) \in Nat
           /\ \A S, T \in SUBSET Conn : S \subseteq T => Cardinality(S) <= Cardinality(T)
           /\ OpeningOf \in [PoolId -> SUBSET Call]
           /\ CountedOf \in [PoolId -> SUBSET Conn]
           /\ PoolSize \in Nat \ {0}
           /\ m_createdConnections \in [PoolId -> Nat] /\ pools \subseteq PoolId
           /\ \A p \in PoolId : Cardinality(OpeningOf[p]) \in Nat
           /\ SizeOf \in [PoolId -> Nat]
<1>1. Tasks \subseteq Call
    <2>1. \A s \in Seq(Call) : AsyncProofs!Range(s) \subseteq Call
        BY LenProperties DEF AsyncProofs!Range
    <2>2. AsyncProofs!After \subseteq Call
        BY DEF AsyncProofs!After, OwnInv, AsyncProofs!Inv, AsyncProofs!TypeOK
    <2>. QED  BY <2>1, <2>2 DEF Tasks, AsyncProofs!Known, AsyncProofs!InFlight, OwnInv,
                                AsyncProofs!Inv, AsyncProofs!TypeOK
<1>2. IsFiniteSet(Call) /\ IsFiniteSet(Conn) /\ PoolSize \in Nat \ {0}
    BY PoolAssumption
<1>3. \A S \in SUBSET Call : /\ IsFiniteSet(S) /\ Cardinality(S) \in Nat
                             /\ Cardinality(S) <= Cardinality(Call)
    BY <1>2, FS_Subset, FS_CardinalityType
<1>4. \A S \in SUBSET Conn : IsFiniteSet(S) /\ Cardinality(S) \in Nat
    BY <1>2, FS_Subset, FS_CardinalityType
<1>5. \A S, T \in SUBSET Conn : S \subseteq T => Cardinality(S) <= Cardinality(T)
    BY <1>4, FS_Subset
<1>6. Cardinality(Call) \in Nat
    BY <1>2, FS_CardinalityType
<1>7. OpeningOf \in [PoolId -> SUBSET Call]
    BY <1>1 DEF OpeningOf
<1>8. CountedOf \in [PoolId -> SUBSET Conn]
    BY DEF CountedOf, OwnInv, Types
<1>9. m_createdConnections \in [PoolId -> Nat] /\ pools \subseteq PoolId
    BY DEF OwnInv, Types, StackTypes
<1>10. \A p \in PoolId : Cardinality(OpeningOf[p]) \in Nat
    BY <1>3, <1>7
<1>11. SizeOf \in [PoolId -> Nat]
    BY <1>9, <1>10 DEF SizeOf
<1>. QED  BY <1>1, <1>2, <1>3, <1>4, <1>5, <1>6, <1>7, <1>8, <1>9, <1>10, <1>11

\* What the lemmas on the actions assume.
Counting == OwnInv /\ OwnInv' /\ Asked

\* A step that opens nothing and delivers nothing.
LEMMA CountsStay ==
    ASSUME Counting,
           UNCHANGED <<m_createdConnections, pools, OpeningOf>>,
           \A p \in pools : /\ CountedOf'[p] \subseteq CountedOf[p]
                            /\ alive \subseteq alive' => CountedOf'[p] = CountedOf[p]
    PROVE  Tallies /\ OpensNothing
<1>1. SizeOf' = SizeOf
    BY DEF SizeOf
<1>. QED  BY <1>1, SetSizes DEF Counting, Tallies, Tally, OpensNothing

\* A step that leaves the tasks and what they carry alone.
LEMMA TasksLeftAlone ==
    ASSUME Counting,
           UNCHANGED <<m_createdConnections, pools, inAfter, m_poolId>>,
           alive' \subseteq alive, Tasks' = Tasks,
           \A r \in Tasks : PoolOf'[r] = PoolOf[r] /\ ConnOf'[r] = ConnOf[r]
    PROVE  Tallies /\ OpensNothing
<1>1. OpeningOf' = OpeningOf
    BY DEF OpeningOf
<1>2. \A p \in pools : /\ CountedOf'[p] \subseteq CountedOf[p]
                       /\ alive \subseteq alive' => CountedOf'[p] = CountedOf[p]
    BY SetSizes DEF CountedOf, Counting
<1>. QED  BY <1>1, <1>2, CountsStay

LEMMA NewPoolCounts ==
    ASSUME Counting, NewPool
    PROVE  Tallies /\ OpensNothing
<1>1. /\ nextPoolId \in PoolId /\ pools' = pools \cup {nextPoolId}
      /\ UNCHANGED <<asyncVars, m_createdConnections, call, connVars>>
    BY DEF NewPool
<1>2. Tasks' = Tasks /\ UNCHANGED inAfter
    BY <1>1, TasksUnchanged, StartingUnchanged
<1>3. UNCHANGED <<ConnOf, PoolOf>>
    BY <1>1 DEF ConnOf, PoolOf
<1>4. OpeningOf' = OpeningOf /\ CountedOf' = CountedOf
    BY <1>1, <1>2, <1>3 DEF OpeningOf, CountedOf, connVars
<1>5. CountedOf[nextPoolId] = {}
    <2>1. \A c \in Conn : m_poolId[c] # nextPoolId
        BY Numbers DEF Counting, OwnInv
    <2>2. alive \subseteq Conn
        BY DEF Counting, OwnInv, Types
    <2>. QED  BY <1>1, <2>1, <2>2 DEF CountedOf
<1>6. Tallies
    <2>1. nextPoolId \notin pools
        BY Numbers DEF Counting, OwnInv
    <2>. QED  BY <1>1, <1>4, <1>5, <2>1 DEF Tallies, Tally
<1>7. SizeOf' = SizeOf
    BY <1>1, <1>4 DEF SizeOf
<1>. QED  BY <1>6, <1>7, SetSizes DEF Counting, OpensNothing

LEMMA ConnectCounts ==
    ASSUME Counting, NEW r \in Call, NEW b \in BOOLEAN, Connect(r, b)
    PROVE  Tallies /\ OpensNothing
<1>1. /\ r \notin Open /\ Async!AddTask(r) /\ UNCHANGED <<poolVars, idle, connVars>>
      /\ call' = [call EXCEPT ![r].callback = b]
    BY DEF Connect
<1>2. ConnOf' = ConnOf /\ PoolOf' = PoolOf
    BY <1>1, CallbackWritten DEF Counting, OwnInv, Types
<1>3. Tasks' = Tasks \cup {r} /\ UNCHANGED inAfter
    BY <1>1, TasksAfterAdd, StartingAfterAdd DEF Counting, OwnInv
<1>4. PoolOf[r] \notin PoolId /\ ConnOf[r] = NoConn /\ NoConn \notin Conn
    <2>1. r \notin AllOpen /\ ConnOf[r] = NoConn
        BY <1>1, FreshCall DEF Counting
    <2>2. PoolOf[r] = NoPool /\ NoPool \notin PoolId
        BY <2>1, PoolAssumption DEF Counting, Asked, NoPool, PoolId
    <2>. QED  BY <2>1, <2>2, PoolAssumption
<1>5. OpeningOf' = OpeningOf
    BY <1>2, <1>3, <1>4 DEF OpeningOf
<1>6. CountedOf' = CountedOf
    <2>1. alive \subseteq Conn
        BY DEF Counting, OwnInv, Types
    <2>. QED  BY <1>1, <1>2, <1>3, <1>4, <2>1 DEF CountedOf, connVars
<1>. QED  BY <1>1, <1>5, <1>6, CountsStay DEF poolVars

LEMMA GetConnectionCounts ==
    ASSUME Counting, NEW p \in PoolId, NEW r \in Call, NEW b \in BOOLEAN, GetConnection(p, r, b)
    PROVE  Tallies /\ (OpensNothing \/ OpensOne(p))
<1>0. /\ r \notin Open /\ p \in pools
      /\ UNCHANGED <<nextPoolId, pools, m_createdConnections, connVars>>
      /\ call \in [Call -> Cell]
      /\ r \notin Tasks /\ ConnOf[r] = NoConn
    BY FreshCall DEF GetConnection, Counting, OwnInv, Types
<1>1. CASE /\ \E c : AddIdle(p, r, b, c)
           /\ UNCHANGED asyncVars
    <2>1. Tasks' = Tasks /\ UNCHANGED inAfter
        BY <1>1, TasksUnchanged, StartingUnchanged
    <2>2. \A s \in Call : s # r => call'[s] = call[s]
        BY <1>1 DEF AddIdle
    <2>3. \A s \in Call : s # r => PoolOf'[s] = PoolOf[s] /\ ConnOf'[s] = ConnOf[s]
        BY <2>2 DEF PoolOf, ConnOf
    <2>4. Tasks \subseteq Call
        BY SetSizes DEF Counting
    <2>. QED  BY <1>0, <2>1, <2>3, <2>4, TasksLeftAlone DEF connVars
<1>2. CASE /\ MayCreate(p)
           /\ call' = [call EXCEPT ![r].poolId = p, ![r].callback = b]
           /\ Async!AddTask(r)
    <2>1. ConnOf' = ConnOf /\ PoolOf' = [PoolOf EXCEPT ![r] = p]
        BY <1>0, <1>2, AskWritten
    <2>2. Tasks' = Tasks \cup {r} /\ UNCHANGED inAfter
        BY <1>0, <1>2, TasksAfterAdd, StartingAfterAdd DEF Counting, OwnInv
    <2>3. PoolOf \in [Call -> PoolId \cup {NoPool}] /\ Tasks \subseteq Call
        BY SetSizes, SetsHaveTypes DEF Counting, OwnInv
    <2>4. OpeningOf' = [OpeningOf EXCEPT ![p] = @ \cup {r}]
        <3>1. r # inAfter
            BY <1>0, PoolAssumption
               DEF Tasks, AsyncProofs!Known, AsyncProofs!InFlight, AsyncProofs!After
        <3>2. OpeningOf'[p] = OpeningOf[p] \cup {r}
            BY <1>0, <2>1, <2>2, <2>3, <3>1 DEF OpeningOf
        <3>3. \A q \in PoolId : q # p => OpeningOf'[q] = OpeningOf[q]
            BY <1>0, <2>1, <2>2, <2>3, <3>1 DEF OpeningOf
        <3>4. OpeningOf' \in [PoolId -> {OpeningOf'[q] : q \in PoolId}]
            BY DEF OpeningOf
        <3>. QED  BY <3>2, <3>3, <3>4, SetSizes DEF Counting
    <2>5. CountedOf' = CountedOf
        <3>1. NoConn \notin Conn /\ alive \subseteq Conn
            BY PoolAssumption DEF Counting, OwnInv, Types
        <3>. QED  BY <1>0, <2>1, <2>2, <3>1 DEF CountedOf, connVars
    <2>. QED  BY <1>0, <1>2, <2>4, <2>5 DEF OpensOne, Tallies, Tally
<1>3. CASE /\ call' = [call EXCEPT ![r].poolId = p, ![r].callback = b]
           /\ UNCHANGED asyncVars
    <2>1. ConnOf' = ConnOf /\ PoolOf' = [PoolOf EXCEPT ![r] = p]
        BY <1>0, <1>3, AskWritten
    <2>2. Tasks' = Tasks /\ UNCHANGED inAfter
        BY <1>3, TasksUnchanged, StartingUnchanged
    <2>3. PoolOf \in [Call -> PoolId \cup {NoPool}] /\ Tasks \subseteq Call
        BY SetSizes, SetsHaveTypes DEF Counting, OwnInv
    <2>. QED  BY <1>0, <2>1, <2>2, <2>3, TasksLeftAlone DEF connVars
<1>. QED  BY <1>1, <1>2, <1>3 DEF GetConnection

LEMMA MoveCounts ==
    ASSUME Counting, WorkBegin \/ \E r \in Call : ConnectFails(r)
    PROVE  Tallies /\ OpensNothing
<1>1. UNCHANGED <<poolVars, call, idle, connVars>>
    BY DEF WorkBegin, ConnectFails
<1>2. Tasks' = Tasks /\ UNCHANGED inAfter
    BY TasksAfterMove, StartingAfterBegin, StartingAfterEnd
       DEF WorkBegin, ConnectFails, Counting, OwnInv
<1>3. UNCHANGED <<ConnOf, PoolOf>>
    BY <1>1 DEF ConnOf, PoolOf
<1>. QED  BY <1>1, <1>2, <1>3, TasksLeftAlone DEF poolVars, connVars

\* The new connection is not counted: its task has it.
LEMMA ConnectSucceedsCounts ==
    ASSUME Counting, NEW r \in Call, NEW c \in Conn, ConnectSucceeds(r, c)
    PROVE  Tallies /\ OpensNothing
<1>1. /\ c \notin alive /\ alive' = alive \cup {c}
      /\ call' = [call EXCEPT ![r].connection = c]
      /\ m_poolId' = [m_poolId EXCEPT ![c] = call[r].poolId]
      /\ UNCHANGED <<poolVars, idle, wrapped>> /\ Async!WorkEnd(r)
    BY DEF ConnectSucceeds
<1>2. Tasks' = Tasks /\ UNCHANGED inAfter /\ r \in Starting /\ r \in Tasks
    BY <1>1, TasksAfterMove, StartingAfterEnd DEF Counting, OwnInv
<1>3. ConnOf' = [ConnOf EXCEPT ![r] = c] /\ PoolOf' = PoolOf
    BY <1>1, ConnectionWritten DEF Counting, OwnInv, Types
<1>4. ConnOf \in [Call -> Conn \cup {NoConn}] /\ ConnOf[r] = NoConn
      /\ NoConn \notin Conn /\ alive \subseteq Conn /\ Tasks \subseteq Call
    BY <1>2, SetsHaveTypes, SetSizes, PoolAssumption DEF Counting, OwnInv, Types, Asked
<1>5. OpeningOf' = OpeningOf
    BY <1>2, <1>3 DEF OpeningOf
<1>6. ASSUME NEW p \in PoolId, NEW d \in CountedOf'[p] PROVE d \in CountedOf[p]
    <2>1. d \in alive' /\ m_poolId'[d] = p /\ \A s \in Tasks : ConnOf'[s] # d
        BY <1>2, <1>6 DEF CountedOf
    <2>2. ConnOf'[r] = c
        BY <1>3, <1>4
    <2>3. d # c /\ d \in alive /\ d \in Conn
        BY <1>1, <1>2, <1>4, <2>1, <2>2
    <2>4. m_poolId[d] = p
        BY <1>1, <2>1, <2>3
    <2>5. \A s \in Tasks : ConnOf[s] # d
        BY <1>3, <1>4, <2>1, <2>3
    <2>. QED  BY <2>3, <2>4, <2>5 DEF CountedOf
<1>7. ASSUME NEW p \in PoolId, NEW d \in CountedOf[p] PROVE d \in CountedOf'[p]
    <2>1. d \in alive /\ m_poolId[d] = p /\ \A s \in Tasks : ConnOf[s] # d
        BY <1>7 DEF CountedOf
    <2>2. d # c /\ d \in alive'
        BY <1>1, <2>1
    <2>3. m_poolId'[d] = p
        BY <1>1, <2>1, <2>2
    <2>4. \A s \in Tasks' : ConnOf'[s] # d
        BY <1>2, <1>3, <1>4, <2>1, <2>2
    <2>. QED  BY <2>2, <2>3, <2>4 DEF CountedOf
<1>8. \A p \in pools : CountedOf'[p] = CountedOf[p]
    BY <1>6, <1>7, SetSizes DEF Counting
<1>. QED  BY <1>1, <1>5, <1>8, CountsStay DEF poolVars

LEMMA AfterWorkCounts ==
    ASSUME Counting, AfterWork
    PROVE  Tallies /\ OpensNothing
<1>. DEFINE r == Head(finished)
<1>1. /\ Tasks' = Tasks /\ r \in Tasks /\ r \in Call
      /\ inAfter = NoCall /\ inAfter' = r /\ r # inAfter
    BY TasksAfterMove, StartingAfterWork, PoolAssumption DEF AfterWork, Counting, OwnInv
<1>2. UNCHANGED <<pools, m_poolId, alive>>
    BY DEF AfterWork
<1>3. \/ UNCHANGED <<m_createdConnections, call>>
      \/ /\ ConnOf[r] # NoConn
         /\ ConnectionCreatedCallback(PoolOf[r])
         /\ call' = [call EXCEPT ![r].connection = NoConn]
    BY <1>1 DEF AfterWork, Delivers, ConnOf, PoolOf
<1>. HIDE DEF r
<1>4. /\ OpeningOf \in [PoolId -> SUBSET Call]
      /\ CountedOf \in [PoolId -> SUBSET Conn]
      /\ m_createdConnections \in [PoolId -> Nat] /\ pools \subseteq PoolId
      /\ ConnOf \in [Call -> Conn \cup {NoConn}] /\ NoConn \notin Conn
      /\ PoolOf \in [Call -> PoolId \cup {NoPool}]
      /\ Tasks \subseteq Call
    BY SetSizes, SetsHaveTypes, PoolAssumption DEF Counting, OwnInv
<1>5. ASSUME PoolOf' = PoolOf, NEW p \in PoolId
      PROVE  IF p = PoolOf[r]
             THEN Cardinality(OpeningOf'[p]) = Cardinality(OpeningOf[p]) - 1
             ELSE Cardinality(OpeningOf'[p]) = Cardinality(OpeningOf[p])
    <2>0. \A s \in Tasks : s # inAfter
        BY <1>1, <1>4, PoolAssumption
    <2>1. /\ OpeningOf'[p] = IF p = PoolOf[r] THEN OpeningOf[p] \ {r} ELSE OpeningOf[p]
          /\ p = PoolOf[r] => r \in OpeningOf[p]
        BY <1>1, <1>5, <2>0 DEF OpeningOf
    <2>2. IsFiniteSet(OpeningOf[p])
        BY <1>4, SetSizes DEF Counting
    <2>3. r \in OpeningOf[p]
              => Cardinality(OpeningOf[p] \ {r}) = Cardinality(OpeningOf[p]) - 1
        BY <2>2, FS_RemoveElement
    <2>. QED  BY <2>1, <2>3
<1>6. CASE UNCHANGED <<m_createdConnections, call>>
    <2>1. PoolOf' = PoolOf /\ ConnOf' = ConnOf
        BY <1>6 DEF PoolOf, ConnOf
    <2>2. OpensNothing
        <3>. SUFFICES ASSUME NEW p \in PoolId PROVE SizeOf'[p] <= SizeOf[p]
            BY DEF OpensNothing
        <3>. QED  BY <1>5, <1>6, <2>1, SetSizes DEF Counting, SizeOf
    <2>3. CountedOf' = CountedOf
        BY <1>1, <1>2, <2>1 DEF CountedOf
    <2>. QED  BY <1>2, <1>6, <2>2, <2>3 DEF Tallies, Tally
<1>7. CASE /\ ConnOf[r] # NoConn
           /\ ConnectionCreatedCallback(PoolOf[r])
           /\ call' = [call EXCEPT ![r].connection = NoConn]
    <2>1. ConnOf' = [ConnOf EXCEPT ![r] = NoConn] /\ PoolOf' = PoolOf
        BY <1>1, <1>7, ConnectionWritten DEF Counting, OwnInv, Types
    <2>2. \A p \in PoolId : m_createdConnections'[p] = m_createdConnections[p]
                               + (IF p = PoolOf[r] /\ p \in pools THEN 1 ELSE 0)
        BY <1>7 DEF ConnectionCreatedCallback
    <2>3. OpensNothing
        <3>. SUFFICES ASSUME NEW p \in PoolId PROVE SizeOf'[p] <= SizeOf[p]
            BY DEF OpensNothing
        <3>. QED  BY <1>5, <2>1, <2>2, SetSizes DEF Counting, SizeOf
    <2>4. ASSUME NEW p \in PoolId PROVE Tally(p)
        <3>. DEFINE d == ConnOf[r]
        <3>0. p \in PoolId /\ d \in Conn /\ d \in alive /\ m_poolId[d] = PoolOf[r]
              /\ \A s \in Tasks : s # r => ConnOf[s] # d
            BY <1>1, <1>4, <1>7 DEF Counting, OwnInv, Owners
        <3>1. p # PoolOf[r] => CountedOf'[p] = CountedOf[p]
            BY <1>1, <1>2, <1>4, <2>1, <3>0 DEF CountedOf
        <3>2. p = PoolOf[r] => CountedOf'[p] = CountedOf[p] \cup {d} /\ d \notin CountedOf[p]
            <4>1. alive \subseteq Conn
                BY DEF Counting, OwnInv, Types
            <4>. QED  BY <1>1, <1>2, <1>4, <2>1, <3>0, <4>1 DEF CountedOf
        <3>. HIDE DEF d
        <3>3. CASE p \in pools /\ p = PoolOf[r]
            BY <1>2, <2>2, <3>0, <3>2, <3>3 DEF Tally
        <3>4. CASE ~(p \in pools /\ p = PoolOf[r])
            <4>1. m_createdConnections'[p] = m_createdConnections[p]
                BY <1>4, <2>2, <3>4
            <4>. QED  BY <1>2, <3>1, <3>4, <4>1 DEF Tally
        <3>. QED  BY <3>3, <3>4
    <2>. QED  BY <1>2, <2>3, <2>4 DEF Tallies
<1>. QED  BY <1>3, <1>6, <1>7

LEMMA AfterWorkDoneCounts ==
    ASSUME Counting, AfterWorkDone
    PROVE  Tallies /\ OpensNothing
<1>. DEFINE r == inAfter
<1>1. /\ Tasks' = Tasks \ {r} /\ r \in Tasks /\ r \in Call /\ inAfter' = NoCall
      /\ NoCall \notin Call
    BY TasksAfterDone, StartingAfterDone, PoolAssumption DEF AfterWorkDone, Counting, OwnInv
<1>2. UNCHANGED <<poolVars, m_poolId>> /\ alive' = alive \ {ConnOf[r]}
    BY <1>1 DEF AfterWorkDone, ConnOf
<1>3. call' = [call EXCEPT ![r] = [poolId |-> NoPool, callback |-> FALSE,
                                   connection |-> NoConn]]
    BY DEF AfterWorkDone, Blank
<1>4. /\ ConnOf' = [ConnOf EXCEPT ![r] = NoConn]
      /\ PoolOf' = [PoolOf EXCEPT ![r] = NoPool]
    BY <1>1, <1>3, CellWritten DEF Counting, OwnInv, Types
<1>5. /\ ConnOf \in [Call -> Conn \cup {NoConn}]
      /\ PoolOf \in [Call -> PoolId \cup {NoPool}]
      /\ Tasks \subseteq Call
    BY SetsHaveTypes, SetSizes DEF Counting, OwnInv
<1>6. OpeningOf' = OpeningOf
    BY <1>1, <1>4, <1>5 DEF OpeningOf
<1>7. ASSUME NEW p \in PoolId
      PROVE  /\ CountedOf'[p] \subseteq CountedOf[p]
             /\ alive \subseteq alive' => CountedOf'[p] = CountedOf[p]
    <2>1. ASSUME NEW d \in CountedOf'[p] PROVE d \in CountedOf[p]
        BY <1>1, <1>2, <1>4, <1>5, <2>1 DEF CountedOf
    <2>2. ASSUME alive \subseteq alive', NEW d \in CountedOf[p] PROVE d \in CountedOf'[p]
        BY <1>1, <1>2, <1>4, <1>5, <2>2 DEF CountedOf
    <2>. QED  BY <2>1, <2>2
<1>. QED  BY <1>2, <1>6, <1>7, SetSizes, CountsStay DEF poolVars, Counting

LEMMA IdleCallbackCounts ==
    ASSUME Counting, NEW r \in Call, IdleCallback(r)
    PROVE  Tallies /\ OpensNothing
<1>1. /\ r \in idle /\ UNCHANGED <<asyncVars, poolVars, m_poolId, alive>>
      /\ \A s \in Call : s # r => call'[s] = call[s]
    BY DEF IdleCallback
<1>2. Tasks' = Tasks /\ UNCHANGED inAfter
    BY <1>1, TasksUnchanged, StartingUnchanged
<1>3. r \notin Tasks /\ Tasks \subseteq Call
    BY <1>1, SetSizes DEF Counting, OwnInv, Calls
<1>4. \A s \in Tasks : PoolOf'[s] = PoolOf[s] /\ ConnOf'[s] = ConnOf[s]
    BY <1>1, <1>3 DEF PoolOf, ConnOf
<1>. QED  BY <1>1, <1>2, <1>4, TasksLeftAlone DEF poolVars

LEMMA ReleaseCounts ==
    ASSUME Counting, NEW c \in Conn, Release(c)
    PROVE  Tallies /\ OpensNothing
<1>. DEFINE p == m_poolId[c]
            con == Append(m_availableConnections[p], c)
<1>1. /\ p \in PoolId
      /\ CheckWaitingCallbacks(p, con)
      /\ UNCHANGED <<asyncVars, pools, m_createdConnections, m_poolId, alive>>
    BY DEF Release, Counting, OwnInv, Types, StackTypes
<1>. HIDE DEF con
<1>2. Tasks' = Tasks /\ UNCHANGED inAfter
    BY <1>1, TasksUnchanged, StartingUnchanged
<1>3. Tasks \subseteq Call
    BY SetSizes DEF Counting
<1>4. \A s \in Tasks : PoolOf'[s] = PoolOf[s] /\ ConnOf'[s] = ConnOf[s]
    <2>1. CASE m_waitingCallbacks[p] # <<>>
        <3>. DEFINE r == Last(m_waitingCallbacks[p])
        <3>1. m_waitingCallbacks[p] \in Seq(Call)
            BY <1>1 DEF Counting, OwnInv, Types, StackTypes
        <3>2. r \in Range(m_waitingCallbacks[p])
            BY <2>1, <3>1, PoppedFrom
        <3>3. r \notin Tasks
            BY <1>1, <3>2 DEF Counting, OwnInv, Calls, WaitOf
        <3>. DEFINE x == [ poolId |-> p, callback |-> call[r].callback,
                           connection |-> Last(con) ]
        <3>4. UNCHANGED call \/ call' = [call EXCEPT ![r] = x]
            BY <1>1 DEF CheckWaitingCallbacks, AddIdle
        <3>. HIDE DEF x, r
        <3>5. \A s \in Call : s # r => call'[s] = call[s]
            <4>1. call \in [Call -> Cell]
                BY DEF Counting, OwnInv, Types
            <4>. QED  BY <3>4, <4>1
        <3>. QED  BY <1>3, <3>3, <3>5 DEF PoolOf, ConnOf
    <2>2. CASE m_waitingCallbacks[p] = <<>>
        BY <1>1, <1>3, <2>2 DEF CheckWaitingCallbacks, PoolOf, ConnOf
    <2>. QED  BY <2>1, <2>2
<1>. QED  BY <1>1, <1>2, <1>4, TasksLeftAlone

LEMMA CollectCounts ==
    ASSUME Counting, Collect
    PROVE  Tallies /\ OpensNothing
<1>1. ASSUME NEW c \in Conn, CollectWrapper(c) PROVE Tallies /\ OpensNothing
    <2>1. alive' \subseteq alive /\ UNCHANGED <<asyncVars, poolVars, call, m_poolId>>
        BY <1>1 DEF CollectWrapper
    <2>2. Tasks' = Tasks /\ UNCHANGED inAfter
        BY <2>1, TasksUnchanged, StartingUnchanged
    <2>3. UNCHANGED <<ConnOf, PoolOf>>
        BY <2>1 DEF ConnOf, PoolOf
    <2>. QED  BY <2>1, <2>2, <2>3, TasksLeftAlone DEF poolVars
<1>2. ASSUME NEW p \in PoolId, CollectPool(p) PROVE Tallies /\ OpensNothing
    <2>1. /\ pools' = pools \ {p} /\ alive' \subseteq alive
          /\ m_createdConnections' = [m_createdConnections EXCEPT ![p] = 0]
          /\ \A r \in Call : r \notin WaitOf[p] => call'[r] = call[r]
          /\ UNCHANGED <<asyncVars, m_poolId>>
        BY <1>2 DEF CollectPool, WaitOf, Waiting
    <2>2. Tasks' = Tasks /\ UNCHANGED inAfter
        BY <2>1, TasksUnchanged, StartingUnchanged
    <2>3. /\ Tasks \subseteq Call /\ WaitOf[p] \cap Tasks = {}
          /\ m_createdConnections \in [PoolId -> Nat] /\ pools \subseteq PoolId
          /\ OpeningOf \in [PoolId -> SUBSET Call] /\ CountedOf \in [PoolId -> SUBSET Conn]
        BY SetSizes DEF Counting, OwnInv, Calls
    <2>4. \A s \in Tasks : PoolOf'[s] = PoolOf[s] /\ ConnOf'[s] = ConnOf[s]
        BY <2>1, <2>3 DEF PoolOf, ConnOf
    <2>5. OpeningOf' = OpeningOf
        BY <2>2, <2>4 DEF OpeningOf
    <2>6. OpensNothing
        <3>. SUFFICES ASSUME NEW q \in PoolId PROVE SizeOf'[q] <= SizeOf[q]
            BY DEF OpensNothing
        <3>1. m_createdConnections'[q] \in {0, m_createdConnections[q]}
            BY <2>1, <2>3
        <3>. QED  BY <2>5, <3>1, SetSizes DEF Counting, SizeOf
    <2>7. ASSUME NEW q \in PoolId PROVE Tally(q)
        <3>1. q # p => m_createdConnections'[q] = m_createdConnections[q]
            BY <2>1, <2>3
        <3>2. /\ CountedOf'[q] \subseteq CountedOf[q]
              /\ alive \subseteq alive' => CountedOf'[q] = CountedOf[q]
            BY <2>1, <2>2, <2>3, <2>4 DEF CountedOf
        <3>3. q = p => m_createdConnections'[q] = 0 /\ q \in pools \ pools'
            BY <1>2, <2>1, <2>3 DEF CollectPool
        <3>. QED  BY <2>1, <3>1, <3>2, <3>3 DEF Tally
    <2>. QED  BY <2>6, <2>7 DEF Tallies
<1>. QED  BY <1>1, <1>2 DEF Collect

-----------------------------------------------------------------------------
(* The theorems on counting.                                               *)

LEMMA CountNext ==
    OwnInv /\ OwnInv' /\ Asked /\ [Next]_vars
        => Tallies /\ (OpensNothing \/ \E p \in PoolId, r \in Call, b \in BOOLEAN :
                                           GetConnection(p, r, b) /\ OpensOne(p))
<1>. DEFINE Opens == OpensNothing \/ \E p \in PoolId, r \in Call, b \in BOOLEAN :
                                         GetConnection(p, r, b) /\ OpensOne(p)
<1>. SUFFICES ASSUME Counting, [Next]_vars PROVE Tallies /\ Opens
    BY DEF Counting
<1>1. CASE UNCHANGED vars
    <2>1. UNCHANGED <<asyncVars, poolVars, call, connVars>>
        BY <1>1 DEF vars
    <2>2. Tasks' = Tasks /\ UNCHANGED inAfter
        BY <2>1, TasksUnchanged, StartingUnchanged
    <2>3. UNCHANGED <<ConnOf, PoolOf>>
        BY <2>1 DEF ConnOf, PoolOf
    <2>. QED  BY <2>1, <2>2, <2>3, TasksLeftAlone DEF poolVars, connVars
<1>2. CASE Ask \/ AskWithoutCallback
    BY <1>2, NewPoolCounts, ConnectCounts, GetConnectionCounts DEF Ask, AskWithoutCallback
<1>3. CASE Answer
    BY <1>3, MoveCounts, ConnectSucceedsCounts, AfterWorkCounts, AfterWorkDoneCounts,
       IdleCallbackCounts DEF Answer
<1>4. CASE GiveBack \/ Collect
    BY <1>4, ReleaseCounts, CollectCounts DEF GiveBack
<1>. QED  BY <1>1, <1>2, <1>3, <1>4 DEF Next

\* A pool that opens a connection had a place when it looked.
LEMMA OpenedOne ==
    ASSUME Counting, NEW p \in PoolId, OpensOne(p)
    PROVE  /\ \A q \in PoolId : q # p => SizeOf'[q] = SizeOf[q]
           /\ SizeOf'[p] <= PoolSize - 1 + Cardinality(Call)
           /\ OpeningOf[p] = {} => SizeOf'[p] <= PoolSize
<1>1. PICK r \in Call : OpeningOf' = [OpeningOf EXCEPT ![p] = @ \cup {r}]
    BY DEF OpensOne
<1>2. /\ m_createdConnections' = m_createdConnections /\ m_createdConnections[p] < PoolSize
      /\ m_createdConnections[p] \in Nat /\ PoolSize \in Nat
      /\ OpeningOf \in [PoolId -> SUBSET Call]
    BY SetSizes DEF OpensOne, MayCreate, Counting
<1>3. /\ OpeningOf'[p] = OpeningOf[p] \cup {r} /\ OpeningOf'[p] \in SUBSET Call
      /\ \A q \in PoolId : q # p => OpeningOf'[q] = OpeningOf[q]
    BY <1>1, <1>2
<1>4. Cardinality(OpeningOf'[p]) \in Nat /\ Cardinality(OpeningOf'[p]) <= Cardinality(Call)
      /\ Cardinality(Call) \in Nat
    BY <1>3, SetSizes DEF Counting
<1>5. OpeningOf[p] = {} => Cardinality(OpeningOf'[p]) = 1
    <2>1. Cardinality({r}) = 1
        BY FS_Singleton
    <2>. QED  BY <1>3, <2>1
<1>6. SizeOf'[p] = m_createdConnections[p] + Cardinality(OpeningOf'[p])
    BY <1>2 DEF SizeOf
<1>7. \A q \in PoolId : q # p => SizeOf'[q] = SizeOf[q]
    BY <1>2, <1>3 DEF SizeOf
<1>. QED  BY <1>2, <1>4, <1>5, <1>6, <1>7

Overshoot == \A p \in PoolId : SizeOf[p] <= PoolSize - 1 + Cardinality(Call)

\* A pool counts what it delivered, and one that is not there counts nothing.
Counted == /\ \A p \in pools : Cardinality(CountedOf[p]) <= m_createdConnections[p]
           /\ \A p \in PoolId \ pools : m_createdConnections[p] = 0

\* It counts exactly that as long as nothing that it counted is deleted.
CountedExactly == /\ \A p \in pools : Cardinality(CountedOf[p]) = m_createdConnections[p]
                  /\ \A p \in PoolId \ pools : m_createdConnections[p] = 0

LEMMA CountInit == Init => /\ \A p \in PoolId : SizeOf[p] = 0
                           /\ Counted /\ CountedExactly
<1>. SUFFICES ASSUME Init PROVE /\ \A p \in PoolId : SizeOf[p] = 0
                                /\ Counted /\ CountedExactly
    OBVIOUS
<1>1. Tasks = {}
    <2>1. AsyncProofs!Range(<<>>) = {}
        BY DEF AsyncProofs!Range
    <2>. QED  BY <2>1 DEF Init, Async!Init, Tasks, AsyncProofs!Known, AsyncProofs!InFlight,
                          AsyncProofs!After
<1>2. OpeningOf = [p \in PoolId |-> {}]
    BY <1>1 DEF OpeningOf
<1>3. \A p \in PoolId : SizeOf[p] = 0
    BY <1>2, FS_EmptySet DEF Init, SizeOf
<1>. QED  BY <1>3 DEF Init, Counted, CountedExactly

LEMMA SizesTyped == OwnInv' => (SizeOf \in [PoolId -> Nat])'
<1>1. OwnInv => SizeOf \in [PoolId -> Nat]
    BY SetSizes
<1>. QED  BY <1>1, PTL

LEMMA OvershootNext == OwnInv /\ OwnInv' /\ Asked /\ Overshoot /\ [Next]_vars => Overshoot'
<1>. SUFFICES ASSUME Counting, Overshoot, [Next]_vars, NEW q \in PoolId
              PROVE  SizeOf'[q] <= PoolSize - 1 + Cardinality(Call)
    BY DEF Counting, Overshoot
<1>1. /\ SizeOf[q] <= PoolSize - 1 + Cardinality(Call) /\ SizeOf[q] \in Nat
      /\ Cardinality(Call) \in Nat /\ PoolSize \in Nat
    BY SetSizes DEF Overshoot, Counting
<1>2. OpensNothing \/ \E p \in PoolId : OpensOne(p)
    BY CountNext DEF Counting
<1>3. CASE OpensNothing
    <2>1. SizeOf'[q] <= SizeOf[q]
        BY <1>3 DEF OpensNothing
    <2>2. SizeOf'[q] \in Int
        BY <1>1, SizesTyped DEF Counting
    <2>. QED  BY <1>1, <2>1, <2>2
<1>4. CASE \E p \in PoolId : OpensOne(p)
    BY <1>1, <1>4, OpenedOne
<1>. QED  BY <1>2, <1>3, <1>4

\* The number of counted connections after a step.
LEMMA TallyCounts ==
    ASSUME Counting, NEW p \in PoolId, Tally(p), p \in pools, p \in pools'
    PROVE  \E d \in Nat : /\ m_createdConnections'[p] \in
                                {m_createdConnections[p], m_createdConnections[p] + 1}
                          /\ Cardinality(CountedOf'[p]) = Cardinality(CountedOf[p])
                                + (m_createdConnections'[p] - m_createdConnections[p]) - d
                          /\ alive \subseteq alive' => d = 0
<1>1. /\ CountedOf[p] \in SUBSET Conn /\ IsFiniteSet(CountedOf[p])
      /\ Cardinality(CountedOf[p]) \in Nat /\ m_createdConnections[p] \in Nat
    BY SetSizes DEF Counting
<1>2. CASE /\ m_createdConnections'[p] = m_createdConnections[p]
           /\ CountedOf'[p] \subseteq CountedOf[p]
           /\ alive \subseteq alive' => CountedOf'[p] = CountedOf[p]
    <2>1. CountedOf'[p] \in SUBSET Conn
        BY <1>1, <1>2
    <2>2. /\ Cardinality(CountedOf'[p]) \in Nat
          /\ Cardinality(CountedOf'[p]) <= Cardinality(CountedOf[p])
        BY <1>1, <1>2, <2>1, SetSizes DEF Counting
    <2>. DEFINE d == Cardinality(CountedOf[p]) - Cardinality(CountedOf'[p])
    <2>3. d \in Nat /\ (alive \subseteq alive' => d = 0)
        BY <1>1, <1>2, <2>2
    <2>4. Cardinality(CountedOf'[p]) = Cardinality(CountedOf[p])
             + (m_createdConnections'[p] - m_createdConnections[p]) - d
        BY <1>1, <1>2, <2>2
    <2>. QED  BY <1>2, <2>3, <2>4
<1>3. CASE /\ m_createdConnections'[p] = m_createdConnections[p] + 1
           /\ \E c \in Conn \ CountedOf[p] : CountedOf'[p] = CountedOf[p] \cup {c}
    <2>1. Cardinality(CountedOf'[p]) = Cardinality(CountedOf[p]) + 1
        BY <1>1, <1>3, FS_AddElement
    <2>2. Cardinality(CountedOf'[p]) = Cardinality(CountedOf[p])
             + (m_createdConnections'[p] - m_createdConnections[p]) - 0
        BY <1>1, <1>3, <2>1
    <2>. QED  BY <1>3, <2>2
<1>. QED  BY <1>2, <1>3 DEF Tally

LEMMA CountedNext == OwnInv /\ OwnInv' /\ Asked /\ Counted /\ [Next]_vars => Counted'
<1>. SUFFICES ASSUME Counting, Counted, [Next]_vars, NEW p \in PoolId
              PROVE  /\ p \in pools' => Cardinality(CountedOf'[p]) <= m_createdConnections'[p]
                     /\ p \notin pools' => m_createdConnections'[p] = 0
    BY SetSizes DEF Counting, Counted, OwnInv, Types, StackTypes
<1>1. Tally(p)
    BY CountNext DEF Counting, Tallies
<1>2. CASE p \in pools /\ p \in pools'
    <2>1. /\ Cardinality(CountedOf[p]) \in Nat /\ m_createdConnections[p] \in Nat
          /\ Cardinality(CountedOf[p]) <= m_createdConnections[p]
        BY <1>2, SetSizes DEF Counting, Counted
    <2>2. PICK d \in Nat : /\ m_createdConnections'[p] \in
                                {m_createdConnections[p], m_createdConnections[p] + 1}
                           /\ Cardinality(CountedOf'[p]) = Cardinality(CountedOf[p])
                                + (m_createdConnections'[p] - m_createdConnections[p]) - d
        BY <1>1, <1>2, TallyCounts
    <2>. QED  BY <1>2, <2>1, <2>2
<1>3. CASE p \in pools \ pools'
    BY <1>1, <1>3 DEF Tally
<1>4. CASE p \notin pools
    <2>1. m_createdConnections'[p] = 0
        BY <1>1, <1>4 DEF Tally, Counted
    <2>2. p \in pools' => Cardinality(CountedOf'[p]) = 0
        BY <1>1, <1>4, FS_EmptySet DEF Tally
    <2>. QED  BY <2>1, <2>2
<1>. QED  BY <1>2, <1>3, <1>4

LEMMA CountInvariant == Safe => [](OwnInv /\ Asked /\ Overshoot /\ Counted)
<1>1. Init => Overshoot
    <2>1. Cardinality(Call) \in Nat /\ PoolSize \in Nat \ {0}
        BY PoolAssumption, FS_CardinalityType
    <2>. QED  BY <2>1, CountInit DEF Overshoot
<1>. QED  BY <1>1, OwnInvariant, AskedInvariant, CountInit, OvershootNext, CountedNext, PTL
          DEF Safe

LEMMA OpeningIs == ASSUME OwnInv, NEW p \in PoolId PROVE Opening(p) = OpeningOf[p]
BY SetSizes, SameTasks, PoolAssumption DEF Opening, OpeningOf, PoolOf, Async!After

LEMMA CountedIs == ASSUME OwnInv, NEW p \in PoolId PROVE Delivered(p) = CountedOf[p]
BY SetSizes, SameTasks DEF Delivered, CountedOf, ConnOf

\* However many calls come before the first connection is counted, a pool's
\* connections, opened and being opened, are at most its size less one plus the
\* number of calls: src/PoolWrapper.cpp:51-56, 127-138.
THEOREM OvershootIsBounded == Safe => []OvershootBound
<1>1. OwnInv /\ Overshoot => OvershootBound
    BY OpeningIs DEF OvershootBound, Overshoot, SizeOf
<1>. QED  BY <1>1, CountInvariant, PTL

\* A pool counts every connection of its own that was delivered:
\* src/TaskConnection.cpp:32-50, src/PoolWrapper.cpp:51-56.
THEOREM ConnectionsAreCounted == Safe => []EveryConnectionCounted
<1>1. OwnInv /\ Counted => EveryConnectionCounted
    BY CountedIs, SetSizes DEF EveryConnectionCounted, Counted
<1>. QED  BY <1>1, CountInvariant, PTL

\* The sessions on the server that belong to pool p, but for one that a task
\* without callback has opened and is about to delete.
Sessions(p) == {c \in alive : m_poolId[c] = p
                                 /\ \A r \in Async!After : call[r].connection # c}

LEMMA SessionsAreCounted ==
    ASSUME OwnInv, Counted, NEW p \in pools
    PROVE  /\ IsFiniteSet(Sessions(p)) /\ Cardinality(Sessions(p)) \in Nat
           /\ Cardinality(Sessions(p)) <= SizeOf[p]
<1>. DEFINE S == OpeningOf[p]
            T == {ConnOf[r] : r \in S}
            f == [r \in S |-> ConnOf[r]]
            U == CountedOf[p] \cup T
<1>1. /\ p \in PoolId /\ Tasks \subseteq Call
      /\ IsFiniteSet(S) /\ Cardinality(S) \in Nat
      /\ IsFiniteSet(CountedOf[p]) /\ Cardinality(CountedOf[p]) \in Nat
      /\ Cardinality(CountedOf[p]) <= m_createdConnections[p]
      /\ m_createdConnections[p] \in Nat
    BY SetSizes DEF Counted
<1>2. Sessions(p) \subseteq U
    <2>. SUFFICES ASSUME NEW c \in Sessions(p), c \notin CountedOf[p] PROVE c \in T
        OBVIOUS
    <2>1. c \in alive /\ m_poolId[c] = p /\ \A r \in Async!After : call[r].connection # c
        BY DEF Sessions
    <2>2. PICK r \in Tasks : ConnOf[r] = c
        BY <1>1, <2>1 DEF CountedOf
    <2>3. r \in Call /\ c # NoConn
        <3>1. alive \subseteq Conn /\ NoConn \notin Conn
            BY PoolAssumption DEF OwnInv, Types
        <3>. QED  BY <1>1, <2>1, <2>2, <3>1
    <2>4. PoolOf[r] = p
        BY <2>1, <2>2, <2>3 DEF OwnInv, Owners
    <2>5. r # inAfter
        BY <2>1, <2>2, <2>3, PoolAssumption DEF Async!After, ConnOf
    <2>. QED  BY <1>1, <2>2, <2>4, <2>5 DEF OpeningOf
<1>3. IsFiniteSet(T) /\ Cardinality(T) <= Cardinality(S)
    <2>1. f \in Surjection(S, T)
        BY DEF Surjection
    <2>. HIDE DEF f, S, T
    <2>. QED  BY <1>1, <2>1, FS_Surjection
<1>. HIDE DEF S, T
<1>4. /\ IsFiniteSet(U) /\ Cardinality(U) \in Nat /\ Cardinality(T) \in Nat
      /\ Cardinality(CountedOf[p] \cap T) \in Nat
      /\ Cardinality(U) = Cardinality(CountedOf[p]) + Cardinality(T)
                             - Cardinality(CountedOf[p] \cap T)
    BY <1>1, <1>3, FS_Union, FS_Intersection, FS_CardinalityType
<1>5. IsFiniteSet(Sessions(p)) /\ Cardinality(Sessions(p)) <= Cardinality(U)
    BY <1>2, <1>4, FS_Subset
<1>6. Cardinality(Sessions(p)) \in Nat
    BY <1>5, FS_CardinalityType
<1>7. SizeOf[p] = m_createdConnections[p] + Cardinality(S)
    BY <1>1 DEF SizeOf, S
<1>. QED  BY <1>1, <1>3, <1>4, <1>5, <1>6, <1>7

\* So a pool never holds more sessions on the server than that, whatever the
\* program does: the count of a pool is about connections that really exist.
THEOREM SessionsAreBounded ==
    Safe => [](\A p \in pools : Cardinality(Sessions(p)) <= PoolSize - 1 + Cardinality(Call))
<1>1. OwnInv /\ Overshoot /\ Counted
        => \A p \in pools : Cardinality(Sessions(p)) <= PoolSize - 1 + Cardinality(Call)
    <2>. SUFFICES ASSUME OwnInv, Overshoot, Counted, NEW p \in pools
                  PROVE  Cardinality(Sessions(p)) <= PoolSize - 1 + Cardinality(Call)
        OBVIOUS
    <2>1. p \in PoolId /\ SizeOf[p] \in Nat /\ Cardinality(Call) \in Nat /\ PoolSize \in Nat
        BY SetSizes
    <2>. QED  BY <2>1, SessionsAreCounted DEF Overshoot
<1>. QED  BY <1>1, CountInvariant, PTL

-----------------------------------------------------------------------------
(* Programs that ask a pool only when it opens no connection.              *)

Patient == \A p \in PoolId, r \in Call, b \in BOOLEAN :
               GetConnection(p, r, b) => Opening(p) = {}

WithinSize == \A p \in PoolId : SizeOf[p] <= PoolSize

LEMMA WithinSizeNext ==
    OwnInv /\ OwnInv' /\ Asked /\ WithinSize /\ [Next]_vars /\ [Patient]_vars => WithinSize'
<1>. SUFFICES ASSUME Counting, WithinSize, [Next]_vars, [Patient]_vars, NEW q \in PoolId
              PROVE  SizeOf'[q] <= PoolSize
    BY DEF Counting, WithinSize
<1>1. SizeOf[q] <= PoolSize /\ SizeOf[q] \in Nat /\ SizeOf'[q] \in Nat /\ PoolSize \in Nat
    BY SetSizes, SizesTyped DEF WithinSize, Counting
<1>2. CASE OpensNothing
    BY <1>1, <1>2 DEF OpensNothing
<1>3. ASSUME NEW p \in PoolId, NEW r \in Call, NEW b \in BOOLEAN,
             GetConnection(p, r, b), OpensOne(p)
      PROVE  SizeOf'[q] <= PoolSize
    <2>1. CASE Patient
        <3>1. OpeningOf[p] = {}
            BY <1>3, <2>1, OpeningIs DEF Patient, Counting
        <3>. QED  BY <1>1, <1>3, <3>1, OpenedOne
    <2>2. CASE UNCHANGED vars
        <3>1. UNCHANGED <<asyncVars, m_createdConnections, call>>
            BY <2>2 DEF vars, poolVars
        <3>2. Tasks' = Tasks /\ UNCHANGED inAfter
            BY <3>1, TasksUnchanged, StartingUnchanged
        <3>3. PoolOf' = PoolOf
            BY <3>1 DEF PoolOf
        <3>. QED  BY <1>1, <3>1, <3>2, <3>3 DEF SizeOf, OpeningOf
    <2>. QED  BY <2>1, <2>2
<1>. QED  BY <1>2, <1>3, CountNext DEF Counting

\* A program that asks a pool only when none of its connections is being opened
\* never makes it larger than README.md's "max 10 connections", neither by its
\* own count nor by the sessions on the server: src/PoolWrapper.cpp:51-56, 127-138.
THEOREM PatientProgramsKeepSize ==
    Safe /\ [][Patient]_vars
        => [](PoolSizeRespected /\ \A p \in pools : Cardinality(Sessions(p)) <= PoolSize)
<1>1. OwnInv /\ Counted /\ WithinSize
        => PoolSizeRespected /\ \A p \in pools : Cardinality(Sessions(p)) <= PoolSize
    <2>. SUFFICES ASSUME OwnInv, Counted, WithinSize
                  PROVE  PoolSizeRespected
                         /\ \A p \in pools : Cardinality(Sessions(p)) <= PoolSize
        OBVIOUS
    <2>1. PoolSizeRespected
        <3>. SUFFICES ASSUME NEW p \in PoolId PROVE m_createdConnections[p] <= PoolSize
            BY DEF PoolSizeRespected
        <3>1. /\ m_createdConnections[p] \in Nat /\ Cardinality(OpeningOf[p]) \in Nat
              /\ PoolSize \in Nat
              /\ m_createdConnections[p] + Cardinality(OpeningOf[p]) <= PoolSize
            BY SetSizes DEF WithinSize, SizeOf
        <3>. QED  BY <3>1
    <2>2. ASSUME NEW p \in pools PROVE Cardinality(Sessions(p)) <= PoolSize
        <3>1. p \in PoolId /\ SizeOf[p] \in Nat /\ PoolSize \in Nat /\ SizeOf[p] <= PoolSize
            BY SetSizes DEF WithinSize
        <3>. QED  BY <3>1, SessionsAreCounted
    <2>. QED  BY <2>1, <2>2
<1>2. Init => WithinSize
    BY PoolAssumption, CountInit DEF WithinSize
<1>. QED  BY <1>1, <1>2, CountInvariant, WithinSizeNext, PTL DEF Safe

-----------------------------------------------------------------------------
(* Programs that always give a callback and keep what they use.            *)

Well ==
    /\ \A r \in Open : call[r].callback = TRUE
    /\ \A c \in Conn : PlaceOf[c] # <<"lost", NoCall>>
    /\ inAfter # NoCall => ConnOf[inAfter] = NoConn
    /\ \A p \in PoolId : m_createdConnections[p] # 0 => \E c \in alive : m_poolId[c] = p

LEMMA InAfterIsTask ==
    ASSUME OwnInv
    PROVE  /\ inAfter # NoCall => inAfter \in Tasks
           /\ Tasks \subseteq Call /\ Tasks \subseteq Open
<1>1. inAfter # NoCall => inAfter \in Tasks
    BY DEF Tasks, AsyncProofs!Known, AsyncProofs!InFlight, AsyncProofs!After
<1>. QED  BY <1>1, SetSizes, OpenIsAllOpen DEF AllOpen

LEMMA NewPoolWell ==
    ASSUME Context, Well, NewPool
    PROVE  Well'
<1>1. UNCHANGED <<asyncVars, m_createdConnections, call, connVars>>
    BY DEF NewPool
<1>2. Open' = Open /\ PlaceOf' = PlaceOf
    BY NewPoolServes DEF Service!OpenPool, PlaceOf
<1>3. UNCHANGED inAfter /\ ConnOf' = ConnOf
    BY <1>1 DEF asyncVars, ConnOf
<1>. QED  BY <1>1, <1>2, <1>3 DEF Well, connVars

LEMMA ConnectWell ==
    ASSUME Context, Well, NEW r \in Call, Connect(r, TRUE)
    PROVE  Well'
<1>1. /\ r \notin Open /\ Async!AddTask(r) /\ UNCHANGED <<poolVars, connVars>>
      /\ call' = [call EXCEPT ![r].callback = TRUE]
      /\ call \in [Call -> Cell]
    BY DEF Connect, Context, OwnInv, Types
<1>2. /\ Open' = Open \cup {r} /\ Open \subseteq Call
      /\ PlaceOf' = PlaceOf
    <2>1. Service!Ask(r, NoPool)
        BY ConnectServes
    <2>2. \A c \in Conn : m_poolId[c] # NoPool \/ PlaceOf[c] # <<"pool", NoCall>>
        <3>1. \A c \in Conn : PlaceOf[c] = <<"pool", NoCall>> => \E q \in PoolId : c \in FreeOf[q]
            BY DEF Context, PlacesKnown
        <3>2. NoPool \notin PoolId
            BY PoolAssumption DEF NoPool, PoolId
        <3>. QED  BY <3>1, <3>2 DEF Context, OwnInv, Owners
    <2>3. PlaceOf' = PlaceOf
        BY <2>1, <2>2 DEF Service!Ask, Service!InPool, PlaceOf
    <2>4. Open' = Open \cup {r}
        BY <2>1 DEF Service!Ask
    <2>5. Open \subseteq Call
        BY InAfterIsTask, SetsHaveTypes, OpenIsAllOpen DEF AllOpen, Context, OwnInv, Types
    <2>. QED  BY <2>3, <2>4, <2>5
<1>3. ConnOf' = ConnOf /\ UNCHANGED inAfter
    BY <1>1, CallbackWritten, StartingAfterAdd DEF Context, OwnInv
<1>4. \A s \in Open' : call'[s].callback = TRUE
    <2>1. \A s \in Call : s # r => call'[s] = call[s]
        BY <1>1
    <2>2. call'[r].callback = TRUE
        BY <1>1 DEF Cell
    <2>. QED  BY <1>1, <1>2, <2>1, <2>2 DEF Well
<1>. QED  BY <1>1, <1>2, <1>3, <1>4 DEF Well, connVars, poolVars

LEMMA GetConnectionWell ==
    ASSUME Context, Well, NEW p \in PoolId, NEW r \in Call, GetConnection(p, r, TRUE)
    PROVE  Well'
<1>1. /\ r \notin Open /\ UNCHANGED <<m_createdConnections, connVars>>
      /\ call \in [Call -> Cell]
    BY DEF GetConnection, Context, OwnInv, Types
<1>2. Service!Ask(r, p)
    BY GetConnectionServes
<1>3. Open' = Open \cup {r} /\ Open \subseteq Call
    <2>1. Open \subseteq Call
        BY InAfterIsTask, SetsHaveTypes, OpenIsAllOpen DEF AllOpen, Context, OwnInv, Types
    <2>. QED  BY <1>2, <2>1 DEF Service!Ask
<1>4. \A c \in Conn : PlaceOf'[c] # <<"lost", NoCall>>
    <2>1. PlaceOf' = PlaceOf \/ \E d \in Conn : PlaceOf' = [PlaceOf EXCEPT ![d] = <<"call", r>>]
        BY <1>2 DEF Service!Ask, Service!With, PlaceOf
    <2>2. PlaceOf \in [Conn -> {PlaceOf[c] : c \in Conn}]
        BY DEF PlaceOf
    <2>. QED  BY <2>1, <2>2 DEF Well
<1>5. /\ UNCHANGED inAfter
      /\ call'[r].callback = TRUE
      /\ \A s \in Call : s # r => call'[s] = call[s]
    <2>1. CASE AddIdle(p, r, TRUE, Last(m_availableConnections[p])) /\ UNCHANGED asyncVars
        BY <1>1, <2>1 DEF AddIdle, asyncVars
    <2>2. CASE /\ call' = [call EXCEPT ![r].poolId = p, ![r].callback = TRUE]
               /\ Async!AddTask(r) \/ UNCHANGED asyncVars
        <3>1. UNCHANGED inAfter
            BY <2>2 DEF Async!AddTask, asyncVars
        <3>. DEFINE y == [call[r] EXCEPT !.poolId = p]
                    x == [y EXCEPT !.callback = TRUE]
        <3>2. call' = [[call EXCEPT ![r] = y] EXCEPT ![r] = x]
            BY <1>1, <2>2
        <3>3. y \in Cell
            BY <1>1 DEF Cell
        <3>. HIDE DEF y
        <3>4. x.callback = TRUE
            BY <3>3 DEF Cell
        <3>. HIDE DEF x
        <3>. QED  BY <1>1, <3>1, <3>2, <3>4
    <2>. QED  BY <2>1, <2>2 DEF GetConnection
<1>6. \A s \in Open' : call'[s].callback = TRUE
    BY <1>1, <1>3, <1>5 DEF Well
<1>7. inAfter # NoCall => ConnOf'[inAfter] = NoConn
    BY <1>1, <1>5, InAfterIsTask DEF Context, Well, ConnOf
<1>. QED  BY <1>1, <1>4, <1>5, <1>6, <1>7 DEF Well, connVars

LEMMA MoveWell ==
    ASSUME Context, Well, WorkBegin \/ \E r \in Call : ConnectFails(r)
    PROVE  Well'
<1>1. UNCHANGED <<poolVars, call, idle, connVars>>
    BY DEF WorkBegin, ConnectFails
<1>2. UNCHANGED inAfter
    BY StartingAfterBegin, StartingAfterEnd DEF WorkBegin, ConnectFails, Context, OwnInv
<1>3. Open' = Open /\ PlaceOf' = PlaceOf
    BY MoveServes DEF Service!vars, PlaceOf
<1>4. ConnOf' = ConnOf
    BY <1>1 DEF ConnOf
<1>. QED  BY <1>1, <1>2, <1>3, <1>4 DEF Well, connVars, poolVars

LEMMA ConnectSucceedsWell ==
    ASSUME Context, Well, NEW r \in Call, NEW c \in Conn, ConnectSucceeds(r, c)
    PROVE  Well'
<1>1. /\ c \notin alive /\ alive' = alive \cup {c}
      /\ call' = [call EXCEPT ![r].connection = c]
      /\ m_poolId' = [m_poolId EXCEPT ![c] = call[r].poolId]
      /\ UNCHANGED <<poolVars, idle, wrapped>> /\ Async!WorkEnd(r)
      /\ call \in [Call -> Cell] /\ alive \subseteq Conn
      /\ m_poolId \in [Conn -> PoolId \cup {NoPool}]
    BY DEF ConnectSucceeds, Context, OwnInv, Types
<1>2. UNCHANGED inAfter /\ r # inAfter
    BY <1>1, StartingAfterEnd DEF Context, OwnInv
<1>3. Service!OpenConnection(r, c)
    BY ConnectSucceedsServes
<1>4. Open' = Open /\ PlaceOf' = [PlaceOf EXCEPT ![c] = <<"call", r>>]
    BY <1>3 DEF Service!OpenConnection, Service!With, PlaceOf
<1>5. \A d \in Conn : PlaceOf'[d] # <<"lost", NoCall>>
    <2>1. PlaceOf \in [Conn -> {PlaceOf[d] : d \in Conn}]
        BY DEF PlaceOf
    <2>. QED  BY <1>4, <2>1 DEF Well
<1>6. \A s \in Call : call'[s].callback = call[s].callback
    BY <1>1 DEF Cell
<1>7. inAfter # NoCall => ConnOf'[inAfter] = NoConn
    <2>1. ConnOf' = [ConnOf EXCEPT ![r] = c]
        BY <1>1, ConnectionWritten
    <2>2. ConnOf \in [Call -> Conn \cup {NoConn}]
        BY SetsHaveTypes DEF Context, OwnInv
    <2>. QED  BY <1>2, <2>1, <2>2, InAfterIsTask DEF Context, Well
<1>8. \A p \in PoolId : m_createdConnections[p] # 0 => \E d \in alive' : m_poolId'[d] = p
    BY <1>1 DEF Well
<1>9. Open \subseteq Call
    BY InAfterIsTask, SetsHaveTypes, OpenIsAllOpen DEF AllOpen, Context, OwnInv, Types
<1>10. \A s \in Open' : call'[s].callback = TRUE
    BY <1>4, <1>6, <1>9 DEF Well
<1>. QED  BY <1>1, <1>2, <1>5, <1>7, <1>8, <1>10 DEF Well, poolVars

\* With a callback, the task delivers its connection when it has one.
LEMMA AfterWorkWell ==
    ASSUME Context, Well, AfterWork
    PROVE  Well'
<1>. DEFINE r == Head(finished)
<1>1. /\ r \in Tasks /\ r \in Call /\ inAfter = NoCall /\ inAfter' = r
    BY StartingAfterWork DEF AfterWork, Context, OwnInv
<1>2. UNCHANGED <<m_poolId, alive>> /\ call \in [Call -> Cell]
    BY DEF AfterWork, Context, OwnInv, Types
<1>3. call[r].callback = TRUE
    BY <1>1, InAfterIsTask DEF Context, Well
<1>4. Service!CallBack(r)
    BY AfterWorkServes
<1>5. \/ ConnOf[r] = NoConn /\ UNCHANGED <<m_createdConnections, call>>
      \/ /\ ConnOf[r] # NoConn
         /\ ConnectionCreatedCallback(PoolOf[r])
         /\ call' = [call EXCEPT ![r].connection = NoConn]
    BY <1>1, <1>3 DEF AfterWork, Delivers, ConnOf, PoolOf
<1>. HIDE DEF r
<1>6. Open' = Open /\ PlaceOf' \in {PlaceOf, Service!Moved(r, <<"user", NoCall>>)}
    BY <1>4 DEF Service!CallBack, Service!WithUser, PlaceOf
<1>7. \A d \in Conn : PlaceOf'[d] # <<"lost", NoCall>>
    <2>1. Service!Moved(r, <<"user", NoCall>>)
             = [d \in Conn |-> IF PlaceOf[d] = <<"call", r>> THEN <<"user", NoCall>>
                               ELSE PlaceOf[d]]
        BY DEF Service!Moved, Service!With, PlaceOf
    <2>. QED  BY <1>6, <2>1 DEF Well
<1>8. Open \subseteq Call
    BY InAfterIsTask, SetsHaveTypes, OpenIsAllOpen DEF AllOpen, Context, OwnInv, Types
<1>9. \A s \in Open' : call'[s].callback = TRUE
    <2>1. \A s \in Call : call'[s].callback = call[s].callback
        BY <1>2, <1>5 DEF Cell
    <2>. QED  BY <1>6, <1>8, <2>1 DEF Well
<1>10. ConnOf'[inAfter'] = NoConn
    <2>1. CASE ConnOf[r] = NoConn /\ UNCHANGED call
        BY <1>1, <2>1 DEF ConnOf
    <2>2. CASE call' = [call EXCEPT ![r].connection = NoConn]
        <3>1. ConnOf' = [ConnOf EXCEPT ![r] = NoConn] /\ ConnOf \in [Call -> Conn \cup {NoConn}]
            BY <1>1, <1>2, <2>2, ConnectionWritten, SetsHaveTypes DEF Context, OwnInv
        <3>. QED  BY <1>1, <3>1
    <2>. QED  BY <1>5, <2>1, <2>2
<1>11. ASSUME NEW p \in PoolId, m_createdConnections'[p] # 0
       PROVE  \E d \in alive : m_poolId[d] = p
    <2>1. CASE m_createdConnections[p] # 0
        BY <2>1 DEF Well
    <2>2. CASE m_createdConnections[p] = 0
        <3>1. ConnOf[r] # NoConn /\ ConnectionCreatedCallback(PoolOf[r])
            BY <1>5, <1>11, <2>2
        <3>2. p = PoolOf[r]
            BY <1>11, <2>2, <3>1 DEF ConnectionCreatedCallback
        <3>3. ConnOf[r] \in alive /\ m_poolId[ConnOf[r]] = PoolOf[r]
            BY <1>1, <3>1 DEF Context, OwnInv, Owners
        <3>. QED  BY <3>2, <3>3
    <2>. QED  BY <2>1, <2>2
<1>. QED  BY <1>2, <1>7, <1>9, <1>10, <1>11 DEF Well

\* The task has nothing left to delete.
LEMMA AfterWorkDoneWell ==
    ASSUME Context, Well, NEW r \in Call, r = inAfter, AfterWorkDone
    PROVE  Well'
<1>1. /\ r # NoCall /\ inAfter' = NoCall
      /\ UNCHANGED <<poolVars, m_poolId>> /\ alive' = alive \ {ConnOf[r]}
      /\ call' = [call EXCEPT ![r] = Blank]
      /\ call \in [Call -> Cell] /\ alive \subseteq Conn /\ NoConn \notin Conn
    BY PoolAssumption, StartingAfterDone
       DEF AfterWorkDone, ConnOf, Context, OwnInv, Types
<1>2. alive' = alive
    BY <1>1 DEF Well
<1>3. Service!EndTask(r)
    BY AfterWorkDoneServes
<1>4. Open' = Open \ {r} /\ PlaceOf' = Service!Moved(r, <<"gone", NoCall>>)
    BY <1>3 DEF Service!EndTask, Service!Over, Service!Gone, PlaceOf
<1>5. \A d \in Conn : PlaceOf'[d] # <<"lost", NoCall>>
    <2>1. Service!Moved(r, <<"gone", NoCall>>)
             = [d \in Conn |-> IF PlaceOf[d] = <<"call", r>> THEN <<"gone", NoCall>>
                               ELSE PlaceOf[d]]
        BY DEF Service!Moved, Service!With, PlaceOf
    <2>. QED  BY <1>4, <2>1 DEF Well
<1>6. Open \subseteq Call
    BY InAfterIsTask, SetsHaveTypes, OpenIsAllOpen DEF AllOpen, Context, OwnInv, Types
<1>7. \A s \in Open' : call'[s].callback = TRUE
    <2>1. \A s \in Call : s # r => call'[s] = call[s]
        BY <1>1
    <2>. QED  BY <1>4, <1>6, <2>1 DEF Well
<1>. QED  BY <1>1, <1>2, <1>5, <1>7 DEF Well, poolVars

\* With a callback, the user gets the connection.
LEMMA IdleCallbackWell ==
    ASSUME Context, Well, NEW r \in Call, IdleCallback(r)
    PROVE  Well'
<1>1. /\ r \in idle /\ inAfter = NoCall
      /\ UNCHANGED <<asyncVars, poolVars, m_poolId, alive>>
      /\ call' = [call EXCEPT ![r] = Blank]
      /\ call \in [Call -> Cell]
    BY DEF IdleCallback, Context, OwnInv, Types
<1>2. call[r].callback = TRUE
    BY <1>1 DEF Context, Well, AllOpen
<1>3. wrapped' = wrapped \cup {ConnOf[r]}
    BY <1>2 DEF IdleCallback, ConnOf
<1>4. PICK x : Service!Over(r, x)
    BY IdleCallbackServes DEF Service!Deliver
<1>5. Open' = Open \ {r} /\ PlaceOf' = Service!Moved(r, x)
    BY <1>4 DEF Service!Over, PlaceOf
<1>6. \A d \in Conn : PlaceOf'[d] # <<"lost", NoCall>>
    <2>. SUFFICES ASSUME NEW d \in Conn PROVE PlaceOf'[d] # <<"lost", NoCall>>
        OBVIOUS
    <2>1. Service!Moved(r, x)
             = [c \in Conn |-> IF PlaceOf[c] = <<"call", r>> THEN x ELSE PlaceOf[c]]
        BY DEF Service!Moved, Service!With, PlaceOf
    <2>2. CASE ConnOf[r] = d
        <3>1. PlaceOf'[d] = <<"user", NoCall>>
            BY <1>3, <2>2 DEF Context, PlacesKnown
        <3>. QED  BY <3>1
    <2>3. CASE ConnOf[r] # d
        <3>1. PlaceOf[d] # <<"call", r>>
            BY <2>3, CallPlace DEF Context
        <3>. QED  BY <1>5, <2>1, <3>1 DEF Well
    <2>. QED  BY <2>2, <2>3
<1>7. Open \subseteq Call
    BY InAfterIsTask, SetsHaveTypes, OpenIsAllOpen DEF AllOpen, Context, OwnInv, Types
<1>8. \A s \in Open' : call'[s].callback = TRUE
    <2>1. \A s \in Call : s # r => call'[s] = call[s]
        BY <1>1
    <2>. QED  BY <1>5, <1>7, <2>1 DEF Well
<1>9. inAfter' = NoCall
    BY <1>1 DEF asyncVars
<1>. QED  BY <1>1, <1>6, <1>8, <1>9 DEF Well, poolVars

LEMMA ReleaseWell ==
    ASSUME Context, Well, NEW c \in Conn, Release(c)
    PROVE  Well'
<1>. DEFINE p == m_poolId[c]
            con == Append(m_availableConnections[p], c)
            r == Last(m_waitingCallbacks[p])
<1>1. /\ p \in PoolId /\ call \in [Call -> Cell]
      /\ CheckWaitingCallbacks(p, con)
      /\ UNCHANGED <<asyncVars, pools, m_createdConnections, m_poolId, alive>>
      /\ m_waitingCallbacks[p] \in Seq(Call)
    BY DEF Release, Context, OwnInv, Types, StackTypes
<1>. HIDE DEF con
<1>2. Service!GiveBack(c)
    BY ReleaseServes
<1>3. Open' = Open /\ \E x : PlaceOf' = [PlaceOf EXCEPT ![c] = x] /\ x # <<"lost", NoCall>>
    <2>1. Open' = Open
        BY <1>2 DEF Service!GiveBack
    <2>2. \/ PlaceOf' = [PlaceOf EXCEPT ![c] = <<"pool", NoCall>>]
          \/ \E q : PlaceOf' = [PlaceOf EXCEPT ![c] = <<"call", q>>]
        BY <1>2, Zenon DEF Service!GiveBack, Service!InPool, Service!With, PlaceOf
    <2>3. <<"pool", NoCall>> # <<"lost", NoCall>>
        OBVIOUS
    <2>4. \A q : <<"call", q>> # <<"lost", NoCall>>
        OBVIOUS
    <2>. QED  BY <2>1, <2>2, <2>3, <2>4
<1>4. \A d \in Conn : PlaceOf'[d] # <<"lost", NoCall>>
    <2>1. PlaceOf \in [Conn -> {PlaceOf[d] : d \in Conn}]
        BY DEF PlaceOf
    <2>. QED  BY <1>3, <2>1 DEF Well
<1>5. Open \subseteq Call
    BY InAfterIsTask, SetsHaveTypes, OpenIsAllOpen DEF AllOpen, Context, OwnInv, Types
<1>6. \/ UNCHANGED call
      \/ /\ r \in Call /\ r \in Open /\ r \notin Tasks
         /\ call' = [call EXCEPT ![r] = [poolId |-> p, callback |-> call[r].callback,
                                         connection |-> Last(con)]]
    <2>1. CASE m_waitingCallbacks[p] # <<>>
        <3>1. r \in Call /\ r \in Range(m_waitingCallbacks[p])
            BY <1>1, <2>1, PoppedFrom
        <3>2. r \in WaitOf[p]
            BY <1>1, <3>1 DEF WaitOf
        <3>3. r \in Open /\ r \notin Tasks
            BY <1>1, <3>2 DEF Context, AllOpen, OwnInv, Calls
        <3>4. UNCHANGED call \/ call' = [call EXCEPT ![r] =
                  [poolId |-> p, callback |-> call[r].callback, connection |-> Last(con)]]
            BY <1>1 DEF CheckWaitingCallbacks, AddIdle
        <3>. QED  BY <3>1, <3>3, <3>4
    <2>2. CASE m_waitingCallbacks[p] = <<>>
        BY <1>1, <2>2 DEF CheckWaitingCallbacks
    <2>. QED  BY <2>1, <2>2
<1>. HIDE DEF r, p
<1>7. \A s \in Open' : call'[s].callback = TRUE
    <2>1. \A s \in Call : call'[s].callback = call[s].callback
        BY <1>1, <1>6
    <2>. QED  BY <1>3, <1>5, <2>1 DEF Well
<1>8. inAfter' = inAfter
    BY <1>1 DEF asyncVars
<1>9. inAfter # NoCall => ConnOf'[inAfter] = NoConn
    <2>1. ASSUME inAfter # NoCall PROVE call'[inAfter] = call[inAfter]
        BY <1>1, <1>6, <2>1, InAfterIsTask DEF Context
    <2>. QED  BY <2>1, InAfterIsTask DEF Well, ConnOf, Context
<1>. QED  BY <1>1, <1>4, <1>7, <1>8, <1>9 DEF Well

LEMMA WellInit == Init => Well
<1>. SUFFICES ASSUME Init PROVE Well
    OBVIOUS
<1>1. Service!Init
    BY ServiceInit
<1>2. Open = {} /\ PlaceOf = [c \in Conn |-> <<"gone", NoCall>>]
    BY <1>1 DEF Service!Init, Service!Gone, PlaceOf
<1>3. inAfter = NoCall
    BY DEF Init, Async!Init
<1>. QED  BY <1>2, <1>3 DEF Init, Well

LEMMA WellNext ==
    OwnInv /\ OwnInv' /\ Asked /\ Well /\ [Ask \/ Answer \/ GiveBack]_vars => Well'
<1>1. (OwnInv => PlacesKnown) /\ (Open = AllOpen)
    BY OwnersPlace, OpenIsAllOpen
<1>2. (OwnInv => PlacesKnown)' /\ (Open = AllOpen)'
    BY <1>1, PTL
<1>. SUFFICES ASSUME Context, Well, [Ask \/ Answer \/ GiveBack]_vars
              PROVE  Well'
    BY <1>1, <1>2 DEF Context
<1>3. CASE UNCHANGED vars
    <2>1. UNCHANGED <<asyncVars, poolVars, call, idle, connVars>>
        BY <1>3 DEF vars
    <2>2. UNCHANGED <<WaitOf, FreeOf, ConnOf>> /\ Tasks' = Tasks /\ UNCHANGED inAfter
        BY <2>1, TasksUnchanged, StartingUnchanged DEF WaitOf, FreeOf, ConnOf, poolVars
    <2>3. Open' = Open
        BY <2>1, <2>2 DEF Context, AllOpen
    <2>4. PlaceOf' = PlaceOf
        BY <2>1, <2>2, PlacesStay DEF Context, connVars
    <2>. QED  BY <2>1, <2>2, <2>3, <2>4 DEF Well, poolVars, connVars
<1>4. CASE Ask
    BY <1>4, NewPoolWell, ConnectWell, GetConnectionWell DEF Ask
<1>5. CASE Answer
    <2>1. ASSUME AfterWorkDone PROVE Well'
        <3>1. PICK r \in Call : r = inAfter
            BY <2>1, TasksAfterDone DEF AfterWorkDone, Context, OwnInv
        <3>. QED  BY <2>1, <3>1, AfterWorkDoneWell
    <2>. QED  BY <1>5, <2>1, MoveWell, ConnectSucceedsWell, AfterWorkWell, IdleCallbackWell
              DEF Answer
<1>6. CASE GiveBack
    BY <1>6, ReleaseWell DEF GiveBack
<1>. QED  BY <1>3, <1>4, <1>5, <1>6

LEMMA WellInvariant ==
    Init /\ [][Ask \/ Answer \/ GiveBack]_vars
        => [](OwnInv /\ Asked /\ WaitInv /\ Well)
<1>1. [Ask \/ Answer \/ GiveBack]_vars => [Next]_vars
    BY DEF Next
<1>. QED  BY <1>1, OwnInvariant, AskedInvariant, WaitInit, WaitNext, WellInit, WellNext, PTL
          DEF Safe

\* In a program that always gives a callback and keeps what it uses, a pool with
\* a waiting call has a connection that somebody will bring back, for any size,
\* number of pools and of calls: src/PoolWrapper.cpp:107-159.
THEOREM WaitersHaveProviders == WellBehaved => []WaiterHasAProvider
<1>1. OwnInv /\ WaitInv /\ Well => WaiterHasAProvider
    <2>. SUFFICES ASSUME OwnInv, WaitInv, Well, NEW p \in PoolId,
                         m_waitingCallbacks[p] # <<>>
                  PROVE  \E c \in Carried \cup wrapped : m_poolId[c] = p
        BY DEF WaiterHasAProvider
    <2>1. /\ m_availableConnections[p] = <<>>
          /\ m_createdConnections[p] >= PoolSize
          /\ m_createdConnections[p] \in Nat /\ PoolSize \in Nat \ {0}
        BY PoolAssumption DEF WaitInv, WaitIsJustified, StackTypes
    <2>2. PICK c \in alive : m_poolId[c] = p
        BY <2>1 DEF Well
    <2>3. c \in Conn /\ PlaceOf[c] # <<"lost", NoCall>> /\ PlaceOf[c] = Place(c)
        BY DEF OwnInv, Types, Well, PlaceOf
    <2>4. c \notin Free
        <3>1. \A q \in PoolId : c \in FreeOf[q] => q = p
            BY <2>2 DEF OwnInv, Owners
        <3>2. FreeOf[p] = {}
            BY <2>1 DEF FreeOf, Range
        <3>. QED  BY <3>1, <3>2 DEF Free, Available, FreeOf
    <2>5. c \in wrapped \/ c \in Carried
        BY <2>3, <2>4 DEF Place
    <2>. QED  BY <2>2, <2>5
<1>. QED  BY <1>1, WellInvariant, PTL DEF WellBehaved

\* In such a program every connection has somebody who will delete it or give it
\* back: src/PoolWrapper.cpp:74-94, src/TaskConnection.cpp:32-62.
THEOREM ConnectionsAreKept == WellBehaved => []NoConnectionLeaked
<1>1. OwnInv /\ Well => NoConnectionLeaked
    <2>. SUFFICES ASSUME OwnInv, Well, NEW c \in alive
                  PROVE  c \in Free \cup Carried \cup wrapped
        BY DEF NoConnectionLeaked
    <2>1. c \in Conn /\ PlaceOf[c] # <<"lost", NoCall>> /\ PlaceOf[c] = Place(c)
        BY DEF OwnInv, Types, Well, PlaceOf
    <2>. QED  BY <2>1 DEF Place
<1>. QED  BY <1>1, WellInvariant, PTL DEF WellBehaved

\* Such a program deletes no connection and no pool.
LEMMA WellKeeps ==
    ASSUME OwnInv, Well, [Ask \/ Answer \/ GiveBack]_vars
    PROVE  alive \subseteq alive' /\ pools \subseteq pools'
<1>1. CASE UNCHANGED vars
    BY <1>1 DEF vars, connVars, poolVars
<1>2. CASE Ask \/ GiveBack
    BY <1>2 DEF Ask, GiveBack, NewPool, Connect, GetConnection, Release, connVars, poolVars
<1>3. ASSUME AfterWorkDone PROVE alive \subseteq alive' /\ pools \subseteq pools'
    <2>1. PICK r \in Call : r = inAfter /\ inAfter # NoCall
        BY <1>3, TasksAfterDone, PoolAssumption DEF AfterWorkDone, OwnInv
    <2>2. call[r].connection = NoConn
        BY <2>1 DEF Well, ConnOf
    <2>3. alive \subseteq Conn /\ NoConn \notin Conn
        BY PoolAssumption DEF OwnInv, Types
    <2>. QED  BY <1>3, <2>1, <2>2, <2>3 DEF AfterWorkDone, poolVars
<1>4. CASE Answer
    BY <1>3, <1>4 DEF Answer, WorkBegin, ConnectFails, ConnectSucceeds, AfterWork,
                      IdleCallback, connVars, poolVars
<1>. QED  BY <1>1, <1>2, <1>4

LEMMA CountedExactlyNext ==
    OwnInv /\ OwnInv' /\ Asked /\ Well /\ CountedExactly /\ [Ask \/ Answer \/ GiveBack]_vars
        => CountedExactly'
<1>. SUFFICES ASSUME Counting, Well, CountedExactly, [Ask \/ Answer \/ GiveBack]_vars,
                     NEW p \in PoolId
              PROVE  /\ p \in pools' => Cardinality(CountedOf'[p]) = m_createdConnections'[p]
                     /\ p \notin pools' => m_createdConnections'[p] = 0
    BY SetSizes DEF Counting, CountedExactly, OwnInv, Types, StackTypes
<1>1. alive \subseteq alive' /\ pools \subseteq pools'
    BY WellKeeps DEF Counting
<1>2. Tally(p)
    <2>1. [Next]_vars
        BY DEF Next
    <2>. QED  BY <2>1, CountNext DEF Counting, Tallies
<1>3. CASE p \in pools
    <2>1. /\ Cardinality(CountedOf[p]) \in Nat /\ m_createdConnections[p] \in Nat
          /\ Cardinality(CountedOf[p]) = m_createdConnections[p]
        BY <1>3, SetSizes DEF Counting, CountedExactly
    <2>2. PICK d \in Nat : /\ m_createdConnections'[p] \in
                                {m_createdConnections[p], m_createdConnections[p] + 1}
                           /\ Cardinality(CountedOf'[p]) = Cardinality(CountedOf[p])
                                + (m_createdConnections'[p] - m_createdConnections[p]) - d
                           /\ alive \subseteq alive' => d = 0
        BY <1>1, <1>2, <1>3, TallyCounts
    <2>. QED  BY <1>1, <1>3, <2>1, <2>2
<1>4. CASE p \notin pools
    <2>1. m_createdConnections'[p] = 0
        BY <1>2, <1>4 DEF Tally, CountedExactly
    <2>2. p \in pools' => Cardinality(CountedOf'[p]) = 0
        BY <1>2, <1>4, FS_EmptySet DEF Tally
    <2>. QED  BY <2>1, <2>2
<1>. QED  BY <1>3, <1>4

\* In such a program a pool's count is the number of its connections: none of
\* its places is lost, so a pool with nothing free really has its connections
\* in use: src/PoolWrapper.cpp:51-56, 127-138, src/TaskConnection.cpp:32-50.
THEOREM PlacesAreKept == WellBehaved => []NoPlaceLost
<1>1. OwnInv /\ CountedExactly => NoPlaceLost
    BY CountedIs, SetSizes DEF NoPlaceLost, CountedExactly
<1>. QED  BY <1>1, WellInvariant, CountInit, CountedExactlyNext, PTL DEF WellBehaved

=============================================================================
