-------------------------- MODULE PoolServiceProofs --------------------------
(***************************************************************************)
(* Every step of Pool is a step of PoolService or leaves it alone, for any *)
(* number of pools, calls and connections. The steps are described by what *)
(* they do to the sets of PoolProofs; PlaceOf is the refinement mapping's  *)
(* place of a connection.                                                  *)
(***************************************************************************)
EXTENDS PoolProofs

\* Calls whose asyncWork has not returned, and the one that is calling back.
Starting == AsyncProofs!Begun
Served == {inAfter} \ {NoCall}

\* What a call asked is known while it is open, and nothing has an id that is
\* still to be given to a pool.
Asked ==
    /\ pools \subseteq 1..nextPoolId - 1
    /\ \A c \in Conn : m_poolId[c] < nextPoolId
    /\ \A r \in Call : PoolOf[r] < nextPoolId
    /\ \A r \in Call : r \notin AllOpen => PoolOf[r] = NoPool
    /\ \A p \in PoolId : \A r \in WaitOf[p] : PoolOf[r] = p /\ ConnOf[r] = NoConn
    /\ \A r \in Starting : ConnOf[r] = NoConn

PlaceOf == [c \in Conn |-> Place(c)]

\* The five places of a connection.
PlacesKnown == \A c \in Conn :
    /\ c \notin alive => PlaceOf[c] = <<"gone", NoCall>>
    /\ \A p \in PoolId : c \in FreeOf[p] => PlaceOf[c] = <<"pool", NoCall>>
    /\ c \in wrapped => PlaceOf[c] = <<"user", NoCall>>
    /\ \A r \in Call : ConnOf[r] = c => PlaceOf[c] = <<"call", r>>
    /\ c \in alive \ wrapped /\ (\A p \in PoolId : c \notin FreeOf[p])
         /\ (\A r \in Call : ConnOf[r] # c) => PlaceOf[c] = <<"lost", NoCall>>

-----------------------------------------------------------------------------
(* Places.                                                                 *)

LEMMA OwnersPlace == OwnInv => PlacesKnown
<1>. SUFFICES ASSUME OwnInv, NEW c \in Conn
              PROVE  /\ c \notin alive => PlaceOf[c] = <<"gone", NoCall>>
                     /\ \A p \in PoolId : c \in FreeOf[p] => PlaceOf[c] = <<"pool", NoCall>>
                     /\ c \in wrapped => PlaceOf[c] = <<"user", NoCall>>
                     /\ \A r \in Call : ConnOf[r] = c => PlaceOf[c] = <<"call", r>>
                     /\ c \in alive \ wrapped /\ (\A p \in PoolId : c \notin FreeOf[p])
                          /\ (\A r \in Call : ConnOf[r] # c) => PlaceOf[c] = <<"lost", NoCall>>
    BY DEF PlacesKnown
<1>1. PlaceOf[c] = Place(c) /\ c # NoConn
    BY PoolAssumption DEF PlaceOf
<1>2. c \in Free <=> \E p \in PoolId : c \in FreeOf[p]
    BY DEF Free, Available, FreeOf
<1>3. c \in Carried <=> \E r \in Call : ConnOf[r] = c
    BY <1>1 DEF Carried, ConnOf
<1>4. /\ \A p \in PoolId : c \in FreeOf[p] => c \in alive /\ c \notin wrapped
      /\ c \in wrapped => c \in alive
      /\ \A r \in Call : ConnOf[r] = c => /\ c \in alive /\ c \notin wrapped
                                         /\ \A p \in PoolId : c \notin FreeOf[p]
      /\ \A r, s \in Call : ConnOf[r] = c /\ ConnOf[s] = c => s = r
    BY <1>1 DEF OwnInv, Owners
<1>5. CASE c \notin alive
    <2>1. Place(c) = <<"gone", NoCall>>
        BY <1>2, <1>3, <1>4, <1>5 DEF Place
    <2>. QED  BY <1>1, <1>4, <1>5, <2>1
<1>6. CASE c \in alive /\ c \in Free
    <2>1. Place(c) = <<"pool", NoCall>>
        BY <1>2, <1>3, <1>4, <1>6 DEF Place
    <2>. QED  BY <1>1, <1>2, <1>4, <1>6, <2>1
<1>7. CASE c \in alive /\ c \notin Free /\ c \in wrapped
    <2>1. Place(c) = <<"user", NoCall>>
        BY <1>2, <1>3, <1>4, <1>7 DEF Place
    <2>. QED  BY <1>1, <1>2, <1>4, <1>7, <2>1
<1>8. CASE c \in alive /\ c \notin Free /\ c \notin wrapped /\ c \in Carried
    <2>1. Place(c) = <<"call", CHOOSE r \in Call : call[r].connection = c>>
        BY <1>2, <1>3, <1>4, <1>8 DEF Place
    <2>2. PICK r \in Call : ConnOf[r] = c
        BY <1>3, <1>8
    <2>3. \A s \in Call : call[s].connection = c => s = r
        BY <1>4, <2>2 DEF ConnOf
    <2>4. call[r].connection = c
        BY <2>2 DEF ConnOf
    <2>5. (CHOOSE s \in Call : call[s].connection = c) = r
        BY <2>3, <2>4
    <2>6. \A s \in Call : ConnOf[s] = c => s = r
        BY <2>3 DEF ConnOf
    <2>. QED  BY <1>1, <1>2, <1>8, <2>1, <2>2, <2>5, <2>6
<1>9. CASE c \in alive /\ c \notin Free /\ c \notin wrapped /\ c \notin Carried
    <2>1. Place(c) = <<"lost", NoCall>>
        BY <1>2, <1>3, <1>4, <1>9 DEF Place
    <2>. QED  BY <1>1, <1>2, <1>3, <1>9, <2>1
<1>. QED  BY <1>5, <1>6, <1>7, <1>8, <1>9

\* A connection that no step moves stays where it is.
LEMMA PlaceStays ==
    ASSUME PlacesKnown, PlacesKnown', NEW c \in Conn,
           c \in alive <=> c \in alive',
           c \in wrapped <=> c \in wrapped',
           \A p \in PoolId : c \in FreeOf[p] <=> c \in FreeOf'[p],
           \A r \in Call : ConnOf[r] = c <=> ConnOf'[r] = c
    PROVE  PlaceOf'[c] = PlaceOf[c]
BY DEF PlacesKnown

LEMMA PlacesStay ==
    ASSUME PlacesKnown, PlacesKnown', UNCHANGED <<alive, wrapped, FreeOf, ConnOf>>
    PROVE  PlaceOf' = PlaceOf
<1>1. \A c \in Conn : PlaceOf'[c] = PlaceOf[c]
    BY PlaceStays
<1>. QED  BY <1>1 DEF PlaceOf

\* A step that moves connection c and no other.
LEMMA PlaceMoves ==
    ASSUME PlacesKnown, PlacesKnown', NEW c \in Conn,
           \A d \in Conn : d # c =>
              /\ d \in alive <=> d \in alive'
              /\ d \in wrapped <=> d \in wrapped'
              /\ \A p \in PoolId : d \in FreeOf[p] <=> d \in FreeOf'[p]
              /\ \A r \in Call : ConnOf[r] = d <=> ConnOf'[r] = d
    PROVE  PlaceOf' = [PlaceOf EXCEPT ![c] = PlaceOf'[c]]
<1>1. \A d \in Conn : d # c => PlaceOf'[d] = PlaceOf[d]
    BY PlaceStays
<1>. QED  BY <1>1 DEF PlaceOf

-----------------------------------------------------------------------------
(* What a step of the pool does to the tasks not yet run.                  *)

LEMMA StartingAfterAdd ==
    ASSUME AsyncProofs!Inv, NEW r \in Call, Async!AddTask(r)
    PROVE  Starting' = Starting \cup {r} /\ UNCHANGED inAfter
<1>1. AsyncProofs!AddTask(r)
    BY SameAddTask
<1>2. Starting' = Starting \cup {r}
    BY <1>1, AsyncAssumption, AsyncProofs!BegunAfterAdd DEF Starting
<1>. QED  BY <1>1, <1>2 DEF AsyncProofs!AddTask

LEMMA StartingAfterBegin ==
    ASSUME AsyncProofs!Inv, Async!WorkBegin
    PROVE  Starting' = Starting /\ UNCHANGED inAfter
<1>1. AsyncProofs!WorkBegin
    BY SameWorkBegin
<1>2. Starting' = Starting
    BY <1>1, AsyncAssumption, AsyncProofs!BegunAfterBegin DEF Starting
<1>. QED  BY <1>1, <1>2 DEF AsyncProofs!WorkBegin

LEMMA StartingAfterEnd ==
    ASSUME AsyncProofs!Inv, NEW r \in Call, Async!WorkEnd(r)
    PROVE  /\ Starting' = Starting \ {r} /\ UNCHANGED inAfter
           /\ r \in Starting /\ r \in Tasks /\ r # inAfter
<1>1. AsyncProofs!WorkEnd(r)
    BY SameWorkEnd
<1>2. Starting' = Starting \ {r} /\ r \in Starting /\ r \in Tasks /\ r # inAfter
    BY <1>1, AsyncAssumption, AsyncProofs!BegunAfterEnd DEF Starting, Tasks
<1>. QED  BY <1>1, <1>2 DEF AsyncProofs!WorkEnd

LEMMA StartingAfterWork ==
    ASSUME AsyncProofs!Inv, Async!AfterWork
    PROVE  /\ Starting' = Starting
           /\ Head(finished) \in Tasks /\ Head(finished) \in Call
           /\ inAfter = NoCall /\ inAfter' = Head(finished)
<1>1. AsyncProofs!AfterWork
    BY SameAfterWork
<1>2. Starting' = Starting /\ Head(finished) \in Tasks /\ Head(finished) \in Call
    BY <1>1, AsyncAssumption, AsyncProofs!BegunAfterWork DEF Starting, Tasks
<1>. QED  BY <1>1, <1>2 DEF AsyncProofs!AfterWork

LEMMA StartingAfterDone ==
    ASSUME AsyncProofs!Inv, Async!AfterWorkDone
    PROVE  Starting' = Starting /\ inAfter' = NoCall
<1>1. AsyncProofs!AfterWorkDone
    BY SameAfterWorkDone
<1>2. Starting' = Starting
    BY <1>1, AsyncAssumption, AsyncProofs!BegunAfterDone DEF Starting
<1>. QED  BY <1>1, <1>2 DEF AsyncProofs!AfterWorkDone

LEMMA StartingUnchanged ==
    ASSUME UNCHANGED asyncVars
    PROVE  Starting' = Starting /\ UNCHANGED inAfter
BY DEF asyncVars, Starting, AsyncProofs!Begun

LEMMA StartingAreCalls ==
    ASSUME AsyncProofs!Inv
    PROVE  Starting \subseteq Call
<1>1. \A s \in Seq(Call) : AsyncProofs!Range(s) \subseteq Call
    BY LenProperties DEF AsyncProofs!Range
<1>. QED  BY <1>1 DEF Starting, AsyncProofs!Begun, AsyncProofs!Inv, AsyncProofs!TypeOK

-----------------------------------------------------------------------------
(* One lemma per action: Asked is kept and the service makes its step.     *)

Context ==
    /\ OwnInv /\ Asked
    /\ PlacesKnown /\ PlacesKnown'
    /\ Open = AllOpen /\ Open' = AllOpen'

LEMMA Numbers ==
    ASSUME Types, Asked
    PROVE  /\ nextPoolId \in Nat \ {0}
           /\ PoolId \subseteq Nat /\ NoPool = 0
           /\ \A p \in pools : p \in PoolId /\ p < nextPoolId
           /\ \A c \in Conn : m_poolId[c] \in Nat /\ m_poolId[c] < nextPoolId
           /\ \A r \in Call : PoolOf[r] \in Nat /\ PoolOf[r] < nextPoolId
<1>1. nextPoolId \in Nat \ {0}
    BY PoolAssumption DEF Types
<1>2. PoolId \subseteq Nat /\ NoPool = 0 /\ PoolId \cup {NoPool} \subseteq Nat
    BY PoolAssumption DEF PoolId, NoPool
<1>3. \A p \in pools : p \in PoolId /\ p < nextPoolId
    <2>1. \A p \in pools : p \in PoolId /\ p \in 1..nextPoolId - 1
        BY DEF Types, StackTypes, Asked
    <2>. QED  BY <1>1, <1>2, <2>1
<1>4. \A c \in Conn : m_poolId[c] \in Nat /\ m_poolId[c] < nextPoolId
    BY <1>2 DEF Types, Asked
<1>5. \A r \in Call : PoolOf[r] \in Nat /\ PoolOf[r] < nextPoolId
    BY <1>2, SetsHaveTypes DEF Asked
<1>. QED  BY <1>1, <1>2, <1>3, <1>4, <1>5

\* The service sees nothing.
ServiceStutters == UNCHANGED <<pools, AllOpen, Served, PoolOf, m_poolId, PlaceOf>>

LEMMA StutterIsStutter ==
    ASSUME Context, ServiceStutters
    PROVE  UNCHANGED Service!vars
<1>1. Async!After = Served /\ Async!After' = Served'
    BY DEF Async!After, Served
<1>. QED
    BY <1>1 DEF Context, ServiceStutters, Service!vars, PoolOf, PlaceOf

LEMMA NewPoolServes ==
    ASSUME Context, NewPool
    PROVE  Asked' /\ Service!OpenPool(nextPoolId)
<1>1. /\ nextPoolId \in PoolId /\ nextPoolId' = nextPoolId + 1
      /\ pools' = pools \cup {nextPoolId}
      /\ UNCHANGED <<asyncVars, m_availableConnections, m_waitingCallbacks, call, idle, connVars>>
    BY DEF NewPool
<1>2. Tasks' = Tasks /\ Starting' = Starting /\ UNCHANGED inAfter
    BY <1>1, TasksUnchanged, StartingUnchanged
<1>3. UNCHANGED <<WaitOf, FreeOf, ConnOf, PoolOf>>
    BY <1>1 DEF WaitOf, FreeOf, ConnOf, PoolOf
<1>4. AllOpen' = AllOpen
    BY <1>1, <1>2, <1>3 DEF AllOpen
<1>5. /\ nextPoolId \in Nat \ {0}
      /\ \A p \in pools : p \in Nat /\ 1 <= p /\ p < nextPoolId
      /\ \A c \in Conn : m_poolId[c] \in Nat /\ m_poolId[c] < nextPoolId
      /\ \A r \in Call : PoolOf[r] \in Nat /\ PoolOf[r] < nextPoolId
    BY Numbers DEF Context, OwnInv, PoolId
<1>6. Asked'
    <2>1. pools' \subseteq 1..nextPoolId' - 1
        BY <1>1, <1>5
    <2>2. \A c \in Conn : m_poolId'[c] < nextPoolId'
        BY <1>1, <1>5 DEF connVars
    <2>3. \A r \in Call : PoolOf'[r] < nextPoolId'
        BY <1>1, <1>3, <1>5
    <2>. QED  BY <1>2, <1>3, <1>4, <2>1, <2>2, <2>3 DEF Context, Asked
<1>7. PlaceOf' = PlaceOf
    BY <1>1, <1>3, PlacesStay DEF Context, connVars
<1>8. nextPoolId \notin pools /\ \A c \in Conn : m_poolId[c] # nextPoolId
    BY <1>5
<1>9. Async!After = Served /\ Async!After' = Served' /\ Served' = Served
    BY <1>2 DEF Async!After, Served
<1>10. Service!OpenPool(nextPoolId)
    BY <1>1, <1>3, <1>4, <1>7, <1>8, <1>9
       DEF Context, Service!OpenPool, PoolOf, PlaceOf, connVars
<1>. QED  BY <1>6, <1>10

\* A call that gets no connection at once.
LEMMA TaskAsks ==
    ASSUME Context, NEW r \in Call, r \notin Open, NEW p \in pools \cup {NoPool},
           AllOpen' = AllOpen \cup {r},
           Starting' \in {Starting, Starting \cup {r}},
           \A q \in PoolId : WaitOf'[q] = WaitOf[q] \/ (q = p /\ WaitOf'[q] = WaitOf[q] \cup {r}),
           UNCHANGED <<nextPoolId, pools, inAfter, connVars, FreeOf>>,
           ConnOf' = ConnOf, PoolOf' = [PoolOf EXCEPT ![r] = p]
    PROVE  Asked' /\ Service!Ask(r, p)
<1>1. /\ PoolOf \in [Call -> PoolId \cup {NoPool}]
      /\ nextPoolId \in Nat \ {0} /\ NoPool = 0
      /\ \A q \in pools : q \in PoolId /\ q < nextPoolId
      /\ \A s \in Call : PoolOf[s] < nextPoolId
    BY SetsHaveTypes, Numbers DEF Context, OwnInv
<1>2. /\ r \notin AllOpen /\ ConnOf[r] = NoConn /\ \A q \in PoolId : r \notin WaitOf[q]
    BY FreshCall DEF Context
<1>3. p < nextPoolId
    BY <1>1
<1>4. Asked'
    <2>1. \A s \in Call : PoolOf'[s] < nextPoolId'
        BY <1>1, <1>3
    <2>2. \A s \in Call : s \notin AllOpen' => PoolOf'[s] = NoPool
        BY <1>1 DEF Context, Asked
    <2>3. \A q \in PoolId : \A s \in WaitOf'[q] : PoolOf'[s] = q /\ ConnOf'[s] = NoConn
        <3>. SUFFICES ASSUME NEW q \in PoolId, NEW s \in WaitOf'[q]
                      PROVE  PoolOf'[s] = q /\ ConnOf'[s] = NoConn
            OBVIOUS
        <3>1. CASE s \in WaitOf[q]
            BY <1>1, <1>2, <3>1 DEF Context, Asked
        <3>2. CASE q = p /\ s = r
            BY <1>1, <1>2, <3>2
        <3>. QED  BY <3>1, <3>2
    <2>4. \A s \in Starting' : ConnOf'[s] = NoConn
        BY <1>2 DEF Context, Asked
    <2>. QED  BY <2>1, <2>2, <2>3, <2>4 DEF Context, Asked, connVars
<1>5. PlaceOf' = PlaceOf
    BY PlacesStay DEF Context, connVars
<1>6. Async!After = Served /\ Async!After' = Served' /\ Served' = Served
    BY DEF Async!After, Served
<1>7. Service!Ask(r, p)
    BY <1>5, <1>6 DEF Context, Service!Ask, PoolOf, PlaceOf, connVars
<1>. QED  BY <1>4, <1>7

LEMMA ConnectServes ==
    ASSUME Context, NEW r \in Call, NEW b \in BOOLEAN, Connect(r, b)
    PROVE  Asked' /\ Service!Ask(r, NoPool)
<1>1. /\ r \notin Open /\ Async!AddTask(r) /\ UNCHANGED <<poolVars, idle, connVars>>
      /\ call' = [call EXCEPT ![r].callback = b]
    BY DEF Connect
<1>2. ConnOf' = ConnOf /\ PoolOf' = PoolOf
    BY <1>1, CallbackWritten DEF Context, OwnInv, Types
<1>3. PoolOf' = [PoolOf EXCEPT ![r] = NoPool]
    <2>1. PoolOf[r] = NoPool
        BY <1>1 DEF Context, Asked
    <2>. QED  BY <1>2, <2>1 DEF PoolOf
<1>4. Tasks' = Tasks \cup {r} /\ Starting' = Starting \cup {r} /\ UNCHANGED inAfter
    BY <1>1, TasksAfterAdd, StartingAfterAdd DEF Context, OwnInv
<1>5. UNCHANGED <<WaitOf, FreeOf>>
    BY <1>1 DEF WaitOf, FreeOf, poolVars
<1>6. AllOpen' = AllOpen \cup {r}
    BY <1>1, <1>4, <1>5 DEF AllOpen
<1>. QED  BY <1>1, <1>2, <1>3, <1>4, <1>5, <1>6, TaskAsks DEF poolVars

LEMMA GetConnectionServes ==
    ASSUME Context, NEW p \in PoolId, NEW r \in Call, NEW b \in BOOLEAN, GetConnection(p, r, b)
    PROVE  Asked' /\ Service!Ask(r, p)
<1>0. /\ r \notin Open /\ p \in pools
      /\ UNCHANGED <<nextPoolId, pools, m_createdConnections, connVars>>
      /\ call \in [Call -> Cell] /\ OwnInv
    BY DEF GetConnection, Context, OwnInv, Types
<1>1. CASE /\ m_availableConnections[p] # <<>>
           /\ AddIdle(p, r, b, Last(m_availableConnections[p]))
           /\ m_availableConnections' = [m_availableConnections EXCEPT ![p] = Front(@)]
           /\ UNCHANGED <<asyncVars, m_waitingCallbacks>>
    <2>. DEFINE c == Last(m_availableConnections[p])
    <2>1. FreeOf' = [FreeOf EXCEPT ![p] = @ \ {c}] /\ c \in FreeOf[p] /\ c \in Conn
        BY <1>0, <1>1, FreePopped DEF OwnInv, Types, StackTypes, Owners
    <2>. HIDE DEF c
    <2>2. call' = [call EXCEPT ![r] = [poolId |-> p, callback |-> b, connection |-> c]]
          /\ idle' = idle \cup {r}
        BY <1>1 DEF AddIdle, c
    <2>3. ConnOf' = [ConnOf EXCEPT ![r] = c] /\ PoolOf' = [PoolOf EXCEPT ![r] = p]
        BY <1>0, <2>1, <2>2, CellWritten
    <2>4. /\ ConnOf \in [Call -> Conn \cup {NoConn}]
          /\ PoolOf \in [Call -> PoolId \cup {NoPool}]
          /\ FreeOf \in [PoolId -> SUBSET Conn]
        BY <1>0, SetsHaveTypes DEF OwnInv
    <2>5. /\ Tasks' = Tasks /\ Starting' = Starting /\ UNCHANGED inAfter /\ WaitOf' = WaitOf
        BY <1>1, TasksUnchanged, StartingUnchanged DEF WaitOf
    <2>6. AllOpen' = AllOpen \cup {r}
        BY <2>2, <2>5 DEF AllOpen
    <2>7. /\ r \notin AllOpen /\ ConnOf[r] = NoConn /\ \A q \in PoolId : r \notin WaitOf[q]
          /\ r \notin Tasks
        BY <1>0, FreshCall
    <2>8. r \notin Starting
        BY <2>7 DEF Tasks, Starting, AsyncProofs!Known, AsyncProofs!InFlight, AsyncProofs!Begun
    <2>9. Asked'
        <3>1. \A s \in Call : PoolOf'[s] < nextPoolId'
            <4>1. p < nextPoolId /\ \A s \in Call : PoolOf[s] < nextPoolId
                BY <1>0, Numbers DEF Context, OwnInv
            <4>. QED  BY <1>0, <2>3, <2>4, <4>1
        <3>2. \A s \in Call : s \notin AllOpen' => PoolOf'[s] = NoPool
            BY <2>3, <2>4, <2>6 DEF Context, Asked
        <3>3. \A q \in PoolId : \A s \in WaitOf'[q] : PoolOf'[s] = q /\ ConnOf'[s] = NoConn
            BY <2>3, <2>4, <2>5, <2>7 DEF Context, Asked
        <3>4. \A s \in Starting' : ConnOf'[s] = NoConn
            BY <2>3, <2>4, <2>5, <2>8 DEF Context, Asked
        <3>. QED  BY <1>0, <3>1, <3>2, <3>3, <3>4 DEF Context, Asked, connVars
    <2>10. /\ PlaceOf[c] = <<"pool", NoCall>> /\ m_poolId[c] = p
           /\ PlaceOf' = [PlaceOf EXCEPT ![c] = <<"call", r>>]
        <3>1. PlaceOf[c] = <<"pool", NoCall>> /\ m_poolId[c] = p
            BY <1>0, <2>1 DEF Context, PlacesKnown, OwnInv, Owners
        <3>2. ConnOf'[r] = c
            BY <2>3, <2>4
        <3>3. PlaceOf'[c] = <<"call", r>>
            BY <2>1, <3>2 DEF Context, PlacesKnown
        <3>4. PlaceOf' = [PlaceOf EXCEPT ![c] = PlaceOf'[c]]
            <4>1. \A d \in Conn : d # c =>
                      /\ \A q \in PoolId : d \in FreeOf[q] <=> d \in FreeOf'[q]
                      /\ \A s \in Call : ConnOf[s] = d <=> ConnOf'[s] = d
                <5>1. NoConn \notin Conn
                    BY PoolAssumption
                <5>. QED  BY <2>1, <2>3, <2>4, <2>7, <5>1
            <4>2. UNCHANGED <<alive, wrapped>>
                BY <1>0 DEF connVars
            <4>. QED  BY <2>1, <4>1, <4>2, PlaceMoves DEF Context
        <3>. QED  BY <3>1, <3>3, <3>4
    <2>11. Async!After = Served /\ Async!After' = Served' /\ Served' = Served
        BY <2>5 DEF Async!After, Served
    <2>12. Service!Ask(r, p)
        BY <1>0, <2>1, <2>3, <2>6, <2>7, <2>10, <2>11
           DEF Context, Service!Ask, Service!InPool, Service!With, PoolOf, PlaceOf, connVars
    <2>. QED  BY <2>9, <2>12
<1>2. CASE /\ call' = [call EXCEPT ![r].poolId = p, ![r].callback = b]
           /\ Async!AddTask(r)
           /\ UNCHANGED <<idle, m_availableConnections, m_waitingCallbacks>>
    <2>1. ConnOf' = ConnOf /\ PoolOf' = [PoolOf EXCEPT ![r] = p]
        BY <1>0, <1>2, AskWritten
    <2>2. Tasks' = Tasks \cup {r} /\ Starting' = Starting \cup {r} /\ UNCHANGED inAfter
        BY <1>0, <1>2, TasksAfterAdd, StartingAfterAdd DEF OwnInv
    <2>3. UNCHANGED <<WaitOf, FreeOf>>
        BY <1>2 DEF WaitOf, FreeOf
    <2>4. AllOpen' = AllOpen \cup {r}
        BY <1>2, <2>2, <2>3 DEF AllOpen
    <2>. QED  BY <1>0, <2>1, <2>2, <2>3, <2>4, TaskAsks
<1>3. CASE /\ call' = [call EXCEPT ![r].poolId = p, ![r].callback = b]
           /\ m_waitingCallbacks' = [m_waitingCallbacks EXCEPT ![p] = Append(@, r)]
           /\ UNCHANGED <<asyncVars, idle, m_availableConnections>>
    <2>1. ConnOf' = ConnOf /\ PoolOf' = [PoolOf EXCEPT ![r] = p]
        BY <1>0, <1>3, AskWritten
    <2>2. Tasks' = Tasks /\ Starting' = Starting /\ UNCHANGED inAfter
        BY <1>3, TasksUnchanged, StartingUnchanged
    <2>3. WaitOf' = [WaitOf EXCEPT ![p] = @ \cup {r}] /\ FreeOf' = FreeOf
        <3>1. /\ m_waitingCallbacks \in [PoolId -> Seq(Call)]
              /\ \A q \in PoolId : IsInjective(m_waitingCallbacks[q])
              /\ r \notin Range(m_waitingCallbacks[p])
            BY <1>0, FreshCall DEF OwnInv, Types, StackTypes, Calls, WaitOf
        <3>. QED  BY <1>3, <3>1, WaitPushed DEF FreeOf
    <2>4. WaitOf \in [PoolId -> SUBSET Call]
        BY <1>0, SetsHaveTypes DEF OwnInv
    <2>5. AllOpen' = AllOpen \cup {r}
        BY <1>3, <2>2, <2>3, <2>4 DEF AllOpen
    <2>6. \A q \in PoolId : WaitOf'[q] = WaitOf[q]
                              \/ (q = p /\ WaitOf'[q] = WaitOf[q] \cup {r})
        BY <2>3, <2>4
    <2>. QED  BY <1>0, <2>1, <2>2, <2>3, <2>5, <2>6, TaskAsks
<1>. QED  BY <1>1, <1>2, <1>3 DEF GetConnection

LEMMA MoveServes ==
    ASSUME Context, WorkBegin \/ \E r \in Call : ConnectFails(r)
    PROVE  Asked' /\ UNCHANGED Service!vars
<1>1. UNCHANGED <<poolVars, call, idle, connVars>>
    BY DEF WorkBegin, ConnectFails
<1>2. Tasks' = Tasks /\ Starting' \subseteq Starting /\ UNCHANGED inAfter
    BY TasksAfterMove, StartingAfterBegin, StartingAfterEnd
       DEF WorkBegin, ConnectFails, Context, OwnInv
<1>3. UNCHANGED <<WaitOf, FreeOf, ConnOf, PoolOf>>
    BY <1>1 DEF WaitOf, FreeOf, ConnOf, PoolOf, poolVars
<1>4. AllOpen' = AllOpen
    BY <1>1, <1>2, <1>3 DEF AllOpen
<1>5. Asked'
    BY <1>1, <1>2, <1>3, <1>4 DEF Context, Asked, poolVars, connVars
<1>6. PlaceOf' = PlaceOf
    BY <1>1, <1>3, PlacesStay DEF Context, connVars
<1>7. ServiceStutters
    BY <1>1, <1>2, <1>3, <1>4, <1>6 DEF ServiceStutters, Served, poolVars, connVars
<1>. QED  BY <1>5, <1>7, StutterIsStutter

LEMMA ConnectSucceedsServes ==
    ASSUME Context, NEW r \in Call, NEW c \in Conn, ConnectSucceeds(r, c)
    PROVE  Asked' /\ Service!OpenConnection(r, c)
<1>1. /\ c \notin alive /\ alive' = alive \cup {c}
      /\ call' = [call EXCEPT ![r].connection = c]
      /\ UNCHANGED <<poolVars, idle, wrapped>> /\ Async!WorkEnd(r)
    BY DEF ConnectSucceeds
<1>2. /\ Tasks' = Tasks /\ Starting' = Starting \ {r} /\ UNCHANGED inAfter
      /\ r \in Starting /\ r \in Tasks /\ r # inAfter
    BY <1>1, TasksAfterMove, StartingAfterEnd DEF Context, OwnInv
<1>3. ConnOf' = [ConnOf EXCEPT ![r] = c] /\ PoolOf' = PoolOf
    BY <1>1, ConnectionWritten DEF Context, OwnInv, Types
<1>4. /\ ConnOf \in [Call -> Conn \cup {NoConn}]
      /\ PoolOf \in [Call -> PoolId \cup {NoPool}]
      /\ FreeOf \in [PoolId -> SUBSET Conn]
      /\ m_poolId \in [Conn -> PoolId \cup {NoPool}]
      /\ NoConn \notin Conn
    BY SetsHaveTypes, PoolAssumption DEF Context, OwnInv, Types
<1>5. UNCHANGED <<WaitOf, FreeOf>>
    BY <1>1 DEF WaitOf, FreeOf, poolVars
<1>6. AllOpen' = AllOpen /\ r \in AllOpen
    BY <1>1, <1>2, <1>5 DEF AllOpen
<1>7. m_poolId' = [m_poolId EXCEPT ![c] = PoolOf[r]]
    BY DEF ConnectSucceeds, PoolOf
<1>8. ConnOf[r] = NoConn /\ \A q \in PoolId : r \notin WaitOf[q]
    BY <1>2 DEF Context, Asked, OwnInv, Calls
<1>9. Asked'
    <2>1. \A d \in Conn : m_poolId'[d] < nextPoolId'
        <3>1. (\A d \in Conn : m_poolId[d] < nextPoolId) /\ PoolOf[r] < nextPoolId
            BY DEF Context, Asked
        <3>. QED  BY <1>1, <1>4, <1>7, <3>1 DEF poolVars
    <2>2. \A q \in PoolId : \A s \in WaitOf'[q] : PoolOf'[s] = q /\ ConnOf'[s] = NoConn
        BY <1>3, <1>4, <1>5, <1>8 DEF Context, Asked
    <2>3. \A s \in Starting' : ConnOf'[s] = NoConn
        BY <1>2, <1>3, <1>4 DEF Context, Asked
    <2>. QED  BY <1>1, <1>3, <1>6, <2>1, <2>2, <2>3 DEF Context, Asked, poolVars
<1>10. PlaceOf[c] = <<"gone", NoCall>> /\ PlaceOf' = [PlaceOf EXCEPT ![c] = <<"call", r>>]
    <2>1. PlaceOf[c] = <<"gone", NoCall>>
        BY <1>1 DEF Context, PlacesKnown
    <2>2. ConnOf'[r] = c
        BY <1>3, <1>4
    <2>3. PlaceOf'[c] = <<"call", r>>
        BY <2>2 DEF Context, PlacesKnown
    <2>4. \A d \in Conn : d # c =>
              /\ d \in alive <=> d \in alive'
              /\ \A s \in Call : ConnOf[s] = d <=> ConnOf'[s] = d
        BY <1>1, <1>3, <1>4, <1>8
    <2>5. PlaceOf' = [PlaceOf EXCEPT ![c] = PlaceOf'[c]]
        BY <1>1, <1>5, <2>4, PlaceMoves DEF Context
    <2>. QED  BY <2>1, <2>3, <2>5
<1>11. \A d \in Conn : PlaceOf[d] # <<"call", r>>
    <2>. SUFFICES ASSUME NEW d \in Conn PROVE PlaceOf[d] # <<"call", r>>
        OBVIOUS
    <2>1. ConnOf[r] # d
        BY <1>4, <1>8
    <2>2. ASSUME NEW s \in Call, ConnOf[s] = d PROVE PlaceOf[d] = <<"call", s>> /\ s # r
        BY <2>1, <2>2 DEF Context, PlacesKnown
    <2>. QED  BY <2>2 DEF Context, PlacesKnown
<1>12. Async!After = Served /\ Async!After' = Served' /\ Served' = Served /\ r \notin Served
    BY <1>2 DEF Async!After, Served
<1>13. Service!OpenConnection(r, c)
    BY <1>1, <1>3, <1>6, <1>7, <1>10, <1>11, <1>12
       DEF Context, Service!OpenConnection, Service!Unserved, Service!HasNone, Service!With,
           Service!Gone, PoolOf, PlaceOf, poolVars
<1>. QED  BY <1>9, <1>13

LEMMA CallPlace ==
    ASSUME PlacesKnown, NEW d \in Conn, NEW r \in Call
    PROVE  PlaceOf[d] = <<"call", r>> <=> ConnOf[r] = d
<1>1. ASSUME ConnOf[r] # d PROVE PlaceOf[d] # <<"call", r>>
    <2>1. ASSUME NEW s \in Call, ConnOf[s] = d PROVE PlaceOf[d] = <<"call", s>> /\ s # r
        BY <1>1, <2>1 DEF PlacesKnown
    <2>. QED  BY <2>1 DEF PlacesKnown
<1>. QED  BY <1>1 DEF PlacesKnown

\* A step that moves what call r has to x, and no other connection.
LEMMA CallPlaceMoves ==
    ASSUME PlacesKnown, PlacesKnown', NEW r \in Call, NEW x,
           \A d \in Conn : ConnOf[r] = d => PlaceOf'[d] = x,
           \A d \in Conn : ConnOf[r] # d =>
              /\ d \in alive <=> d \in alive'
              /\ d \in wrapped <=> d \in wrapped'
              /\ \A p \in PoolId : d \in FreeOf[p] <=> d \in FreeOf'[p]
              /\ \A s \in Call : ConnOf[s] = d <=> ConnOf'[s] = d
    PROVE  PlaceOf' = Service!Moved(r, x)
<1>1. \A d \in Conn : ConnOf[r] # d => PlaceOf'[d] = PlaceOf[d]
    BY PlaceStays
<1>2. \A d \in Conn : PlaceOf'[d] = IF PlaceOf[d] = <<"call", r>> THEN x ELSE PlaceOf[d]
    BY <1>1, CallPlace
<1>3. PlaceOf' = [d \in Conn |-> IF PlaceOf[d] = <<"call", r>> THEN x ELSE PlaceOf[d]]
    BY <1>2 DEF PlaceOf
<1>. QED  BY <1>3 DEF Service!Moved, Service!With, PlaceOf

LEMMA AfterWorkServes ==
    ASSUME Context, AfterWork
    PROVE  Asked' /\ Service!CallBack(Head(finished))
<1>. DEFINE r == Head(finished)
<1>1. /\ Tasks' = Tasks /\ Starting' = Starting /\ r \in Tasks /\ r \in Call
      /\ inAfter = NoCall /\ inAfter' = r
    BY TasksAfterMove, StartingAfterWork DEF AfterWork, Context, OwnInv
<1>2. UNCHANGED <<nextPoolId, pools, m_availableConnections, m_waitingCallbacks, idle,
                  m_poolId, alive>>
    BY DEF AfterWork
<1>3. UNCHANGED <<WaitOf, FreeOf>>
    BY <1>2 DEF WaitOf, FreeOf
<1>4. AllOpen' = AllOpen /\ r \in AllOpen
    BY <1>1, <1>2, <1>3 DEF AllOpen
<1>5. Async!After = {} /\ Async!After' = {r}
    BY <1>1, PoolAssumption DEF Async!After
<1>6. \/ UNCHANGED <<wrapped, call>>
      \/ /\ wrapped' = wrapped \cup {ConnOf[r]} /\ ConnOf[r] # NoConn
         /\ call' = [call EXCEPT ![r].connection = NoConn]
    BY <1>1 DEF AfterWork, Delivers, ConnOf
<1>. HIDE DEF r
<1>7. /\ ConnOf \in [Call -> Conn \cup {NoConn}]
      /\ FreeOf \in [PoolId -> SUBSET Conn]
      /\ call \in [Call -> Cell] /\ NoConn \notin Conn
    BY SetsHaveTypes, PoolAssumption DEF Context, OwnInv, Types
<1>8. /\ PoolOf' = PoolOf /\ ConnOf' \in {ConnOf, [ConnOf EXCEPT ![r] = NoConn]}
      /\ PlaceOf' \in {PlaceOf, Service!Moved(r, <<"user", NoCall>>)}
    <2>1. CASE UNCHANGED <<wrapped, call>>
        <3>1. UNCHANGED <<ConnOf, PoolOf>>
            BY <2>1 DEF ConnOf, PoolOf
        <3>2. PlaceOf' = PlaceOf
            BY <1>2, <1>3, <2>1, <3>1, PlacesStay DEF Context
        <3>. QED  BY <3>1, <3>2
    <2>2. CASE /\ wrapped' = wrapped \cup {ConnOf[r]} /\ ConnOf[r] # NoConn
               /\ call' = [call EXCEPT ![r].connection = NoConn]
        <3>1. ConnOf' = [ConnOf EXCEPT ![r] = NoConn] /\ PoolOf' = PoolOf
            BY <1>1, <1>7, <2>2, ConnectionWritten
        <3>2. \A d \in Conn : ConnOf[r] = d => PlaceOf'[d] = <<"user", NoCall>>
            BY <2>2 DEF Context, PlacesKnown
        <3>3. \A d \in Conn : ConnOf[r] # d => \A s \in Call : ConnOf[s] = d <=> ConnOf'[s] = d
            BY <1>7, <3>1
        <3>4. \A d \in Conn : ConnOf[r] # d => (d \in wrapped <=> d \in wrapped')
            BY <2>2
        <3>5. PlaceOf' = Service!Moved(r, <<"user", NoCall>>)
            BY <1>1, <1>2, <1>3, <3>2, <3>3, <3>4, CallPlaceMoves DEF Context
        <3>. QED  BY <3>1, <3>5
    <2>. QED  BY <1>6, <2>1, <2>2
<1>9. Asked'
    <2>1. \A q \in PoolId : \A s \in WaitOf'[q] : PoolOf'[s] = q /\ ConnOf'[s] = NoConn
        <3>1. \A q \in PoolId : r \notin WaitOf[q]
            BY <1>1 DEF Context, OwnInv, Calls
        <3>2. WaitOf \in [PoolId -> SUBSET Call]
            BY SetsHaveTypes DEF Context, OwnInv
        <3>. QED  BY <1>3, <1>7, <1>8, <3>1, <3>2 DEF Context, Asked
    <2>2. \A s \in Starting' : ConnOf'[s] = NoConn
        BY <1>1, <1>7, <1>8, StartingAreCalls DEF Context, OwnInv, Asked
    <2>. QED  BY <1>1, <1>2, <1>4, <1>8, <2>1, <2>2 DEF Context, Asked
<1>10. Service!CallBack(r)
    BY <1>2, <1>4, <1>5, <1>8
       DEF Context, Service!CallBack, Service!Unserved, Service!WithUser, PoolOf, PlaceOf
<1>. QED  BY <1>9, <1>10 DEF r

\* A call that is over: its cell is cleared.
LEMMA OverKeepsAsked ==
    ASSUME Context, NEW r \in Call, \A q \in PoolId : r \notin WaitOf[q],
           AllOpen' = AllOpen \ {r}, Starting' = Starting,
           UNCHANGED <<nextPoolId, pools, m_poolId, WaitOf>>,
           ConnOf' = [ConnOf EXCEPT ![r] = NoConn],
           PoolOf' = [PoolOf EXCEPT ![r] = NoPool]
    PROVE  Asked'
<1>1. /\ ConnOf \in [Call -> Conn \cup {NoConn}]
      /\ PoolOf \in [Call -> PoolId \cup {NoPool}]
      /\ WaitOf \in [PoolId -> SUBSET Call]
      /\ Starting \subseteq Call
    BY SetsHaveTypes, StartingAreCalls DEF Context, OwnInv
<1>2. \A s \in Call : PoolOf'[s] < nextPoolId'
    <2>1. NoPool < nextPoolId /\ \A s \in Call : PoolOf[s] < nextPoolId
        BY Numbers DEF Context, OwnInv
    <2>. QED  BY <1>1, <2>1
<1>3. \A s \in Call : s \notin AllOpen' => PoolOf'[s] = NoPool
    BY <1>1 DEF Context, Asked
<1>4. \A q \in PoolId : \A s \in WaitOf'[q] : PoolOf'[s] = q /\ ConnOf'[s] = NoConn
    BY <1>1 DEF Context, Asked
<1>5. \A s \in Starting' : ConnOf'[s] = NoConn
    BY <1>1 DEF Context, Asked
<1>. QED  BY <1>2, <1>3, <1>4, <1>5 DEF Context, Asked

LEMMA AfterWorkDoneServes ==
    ASSUME Context, NEW r \in Call, r = inAfter, AfterWorkDone
    PROVE  Asked' /\ Service!EndTask(r)
<1>1. /\ Tasks' = Tasks \ {r} /\ Starting' = Starting /\ r \in Tasks /\ r \in Call
      /\ inAfter' = NoCall /\ r # NoCall
    BY TasksAfterDone, StartingAfterDone, PoolAssumption DEF AfterWorkDone, Context, OwnInv
<1>2. UNCHANGED <<poolVars, idle, m_poolId, wrapped>>
    BY DEF AfterWorkDone
<1>3. UNCHANGED <<WaitOf, FreeOf>>
    BY <1>2 DEF WaitOf, FreeOf, poolVars
<1>4. call' = [call EXCEPT ![r] = [poolId |-> NoPool, callback |-> FALSE,
                                   connection |-> NoConn]]
    BY DEF AfterWorkDone, Blank
<1>5. /\ ConnOf' = [ConnOf EXCEPT ![r] = NoConn]
      /\ PoolOf' = [PoolOf EXCEPT ![r] = NoPool]
    BY <1>1, <1>4, CellWritten DEF Context, OwnInv, Types
<1>6. /\ ConnOf \in [Call -> Conn \cup {NoConn}]
      /\ WaitOf \in [PoolId -> SUBSET Call]
      /\ alive \subseteq Conn /\ NoConn \notin Conn
    BY SetsHaveTypes, PoolAssumption DEF Context, OwnInv, Types
<1>7. alive' = alive \ {ConnOf[r]}
    BY <1>1 DEF AfterWorkDone, ConnOf
<1>8. r \notin idle /\ \A q \in PoolId : r \notin WaitOf[q]
    BY <1>1 DEF Context, OwnInv, Calls
<1>9. AllOpen' = AllOpen \ {r} /\ r \in AllOpen
    BY <1>1, <1>2, <1>3, <1>6, <1>8 DEF AllOpen
<1>10. Async!After = {r} /\ Async!After' = {}
    BY <1>1 DEF Async!After
<1>11. Asked'
    BY <1>1, <1>2, <1>3, <1>5, <1>8, <1>9, OverKeepsAsked DEF poolVars
<1>12. PlaceOf' = Service!Moved(r, <<"gone", NoCall>>)
    <2>1. \A d \in Conn : ConnOf[r] = d => PlaceOf'[d] = <<"gone", NoCall>>
        BY <1>7 DEF Context, PlacesKnown
    <2>2. \A d \in Conn : ConnOf[r] # d =>
              /\ d \in alive <=> d \in alive'
              /\ \A s \in Call : ConnOf[s] = d <=> ConnOf'[s] = d
        BY <1>5, <1>6, <1>7
    <2>. QED  BY <1>1, <1>2, <1>3, <2>1, <2>2, CallPlaceMoves DEF Context
<1>13. Service!EndTask(r)
    BY <1>2, <1>5, <1>9, <1>10, <1>12
       DEF Context, Service!EndTask, Service!Over, Service!Gone, PoolOf, PlaceOf, poolVars
<1>. QED  BY <1>11, <1>13

LEMMA IdleCallbackServes ==
    ASSUME Context, NEW r \in Call, IdleCallback(r)
    PROVE  Asked' /\ Service!Deliver(r)
<1>1. /\ r \in idle /\ idle' = idle \ {r} /\ inAfter = NoCall
      /\ UNCHANGED <<asyncVars, poolVars, m_poolId, alive>>
    BY DEF IdleCallback
<1>2. Tasks' = Tasks /\ Starting' = Starting /\ UNCHANGED inAfter
    BY <1>1, TasksUnchanged, StartingUnchanged
<1>3. UNCHANGED <<WaitOf, FreeOf>>
    BY <1>1 DEF WaitOf, FreeOf, poolVars
<1>4. call' = [call EXCEPT ![r] = [poolId |-> NoPool, callback |-> FALSE,
                                   connection |-> NoConn]]
    BY DEF IdleCallback, Blank
<1>5. /\ ConnOf' = [ConnOf EXCEPT ![r] = NoConn]
      /\ PoolOf' = [PoolOf EXCEPT ![r] = NoPool]
    BY <1>4, CellWritten DEF Context, OwnInv, Types
<1>6. /\ ConnOf \in [Call -> Conn \cup {NoConn}]
      /\ WaitOf \in [PoolId -> SUBSET Call]
      /\ FreeOf \in [PoolId -> SUBSET Conn]
      /\ NoConn \notin Conn
    BY SetsHaveTypes, PoolAssumption DEF Context, OwnInv, Types
<1>7. wrapped' \in {wrapped, wrapped \cup {ConnOf[r]}}
    BY <1>1 DEF IdleCallback, ConnOf
<1>8. r \notin Tasks /\ \A q \in PoolId : r \notin WaitOf[q]
    BY <1>1 DEF Context, OwnInv, Calls
<1>9. AllOpen' = AllOpen \ {r} /\ r \in AllOpen
    BY <1>1, <1>2, <1>3, <1>6, <1>8 DEF AllOpen
<1>10. Async!After = {} /\ Async!After' = {}
    BY <1>1, <1>2 DEF Async!After
<1>11. Asked'
    BY <1>1, <1>2, <1>3, <1>5, <1>8, <1>9, OverKeepsAsked DEF poolVars
<1>12. /\ ConnOf[r] \in Conn /\ ConnOf[r] \in alive /\ ConnOf[r] \notin wrapped
       /\ \A q \in PoolId : ConnOf[r] \notin FreeOf[q]
       /\ \A s \in Call : ConnOf'[s] # ConnOf[r]
    BY <1>1, <1>5, <1>6 DEF Context, OwnInv, Owners
<1>13. \A d \in Conn : ConnOf[r] # d =>
          /\ d \in wrapped <=> d \in wrapped'
          /\ \A s \in Call : ConnOf[s] = d <=> ConnOf'[s] = d
    BY <1>5, <1>6, <1>7
<1>14. PICK x \in {<<"user", NoCall>>, <<"lost", NoCall>>} : PlaceOf'[ConnOf[r]] = x
    <2>1. CASE wrapped' = wrapped
        BY <1>1, <1>3, <1>12, <2>1 DEF Context, PlacesKnown
    <2>2. CASE wrapped' = wrapped \cup {ConnOf[r]}
        BY <1>12, <2>2 DEF Context, PlacesKnown
    <2>. QED  BY <1>7, <2>1, <2>2
<1>15. PlaceOf' = Service!Moved(r, x)
    BY <1>1, <1>3, <1>13, <1>14, CallPlaceMoves DEF Context
<1>16. Service!Over(r, x)
    BY <1>1, <1>5, <1>9, <1>10, <1>15
       DEF Context, Service!Over, PoolOf, PlaceOf, poolVars
<1>17. Service!Deliver(r)
    BY <1>9, <1>10, <1>16
       DEF Context, Service!Deliver, Service!Unserved, Service!WithUser, Service!Lost
<1>. QED  BY <1>11, <1>17

LEMMA ReleaseServes ==
    ASSUME Context, NEW c \in Conn, Release(c)
    PROVE  Asked' /\ Service!GiveBack(c)
<1>. DEFINE p == m_poolId[c]
            con == Append(m_availableConnections[p], c)
<1>1. /\ c \in wrapped /\ wrapped' = wrapped \ {c} /\ p \in pools /\ p \in PoolId
      /\ CheckWaitingCallbacks(p, con)
      /\ UNCHANGED <<asyncVars, nextPoolId, pools, m_createdConnections, m_poolId, alive>>
    BY DEF Release, Context, OwnInv, Types, StackTypes
<1>2. /\ m_availableConnections \in [PoolId -> Seq(Conn)]
      /\ m_waitingCallbacks \in [PoolId -> Seq(Call)]
      /\ \A q \in PoolId : IsInjective(m_availableConnections[q])
      /\ \A q \in PoolId : IsInjective(m_waitingCallbacks[q])
      /\ call \in [Call -> Cell]
    BY DEF Context, OwnInv, Types, StackTypes, Owners, Calls
<1>3. /\ ConnOf \in [Call -> Conn \cup {NoConn}]
      /\ PoolOf \in [Call -> PoolId \cup {NoPool}]
      /\ FreeOf \in [PoolId -> SUBSET Conn]
      /\ WaitOf \in [PoolId -> SUBSET Call]
      /\ Starting \subseteq Call
    BY SetsHaveTypes, StartingAreCalls DEF Context, OwnInv
<1>4. Tasks' = Tasks /\ Starting' = Starting /\ UNCHANGED inAfter
    BY <1>1, TasksUnchanged, StartingUnchanged
<1>5. /\ c \in alive /\ c # NoConn /\ \A q \in PoolId : c \notin FreeOf[q]
      /\ \A s \in Call : ConnOf[s] # c
    BY <1>1, PoolAssumption DEF Context, OwnInv, Owners
<1>6. c \notin Range(m_availableConnections[p])
    BY <1>1, <1>5 DEF FreeOf
<1>7. con # <<>> /\ Last(con) = c /\ Front(con) = m_availableConnections[p]
    <2>1. m_availableConnections[p] \in Seq(Conn)
        BY <1>1, <1>2
    <2>2. Last(con) = c /\ Front(con) = m_availableConnections[p]
        BY <2>1, PushedOn, FrontOfAppend
    <2>3. con \in Seq(Conn) /\ Len(con) = Len(m_availableConnections[p]) + 1
          /\ Len(m_availableConnections[p]) \in Nat
        BY <2>1, AppendProperties, LenProperties
    <2>4. con # <<>>
        <3>. HIDE DEF con
        <3>. QED  BY <2>3, EmptySeq
    <2>. QED  BY <2>2, <2>4
<1>8. PlaceOf[c] = <<"user", NoCall>>
    BY <1>1 DEF Context, PlacesKnown
<1>9. Async!After' = Async!After /\ Async!After = {inAfter} \ {NoCall}
    BY <1>4 DEF Async!After
<1>10. CASE m_waitingCallbacks[p] # <<>>
    <2>. DEFINE r == Last(m_waitingCallbacks[p])
    <2>1. /\ idle' = idle \cup {r}
          /\ call' = [call EXCEPT ![r] = [poolId |-> p, callback |-> call[r].callback,
                                          connection |-> c]]
          /\ m_availableConnections' = [m_availableConnections EXCEPT
                                            ![p] = m_availableConnections[p]]
          /\ m_waitingCallbacks' = [m_waitingCallbacks EXCEPT ![p] = Front(@)]
        BY <1>1, <1>7, <1>10 DEF CheckWaitingCallbacks, AddIdle
    <2>2. m_availableConnections' = m_availableConnections
        BY <1>1, <1>2, <2>1
    <2>3. /\ WaitOf' = [WaitOf EXCEPT ![p] = @ \ {r}]
          /\ r \in Call /\ r \in WaitOf[p]
        BY <1>1, <1>2, <1>10, <2>1, WaitPopped
    <2>. HIDE DEF r
    <2>4. ConnOf' = [ConnOf EXCEPT ![r] = c] /\ PoolOf' = [PoolOf EXCEPT ![r] = p]
        <3>1. call[r].callback \in BOOLEAN
            BY <1>2, <2>3 DEF Cell
        <3>. HIDE DEF p
        <3>2. ASSUME NEW b \in BOOLEAN, NEW q \in PoolId,
                     call' = [call EXCEPT ![r] = [poolId |-> q, callback |-> b,
                                                  connection |-> c]]
              PROVE  /\ ConnOf' = [ConnOf EXCEPT ![r] = c]
                     /\ PoolOf' = [PoolOf EXCEPT ![r] = q]
            <4>1. q \in PoolId \cup {NoPool} /\ c \in Conn \cup {NoConn}
                OBVIOUS
            <4>. QED  BY <1>2, <2>3, <3>2, <4>1, CellWritten
        <3>. QED  BY <1>1, <2>1, <3>1, <3>2
    <2>5. FreeOf' = FreeOf
        BY <2>2 DEF FreeOf
    <2>6. AllOpen' = AllOpen /\ r \in AllOpen
        BY <1>1, <1>3, <1>4, <2>1, <2>3 DEF AllOpen
    <2>7. /\ r \notin Tasks /\ PoolOf[r] = p /\ ConnOf[r] = NoConn
          /\ \A q \in PoolId : r \in WaitOf[q] => q = p
        BY <1>1, <2>3 DEF Context, OwnInv, Calls, Asked
    <2>8. r \notin Starting
        BY <2>7 DEF Tasks, Starting, AsyncProofs!Known, AsyncProofs!InFlight, AsyncProofs!Begun
    <2>9. r \notin Async!After
        BY <1>9, <2>7 DEF Tasks, AsyncProofs!Known, AsyncProofs!InFlight, AsyncProofs!After
    <2>. HIDE DEF p
    <2>10. PoolOf' = PoolOf
        BY <1>3, <2>3, <2>4, <2>7
    <2>11. Asked'
        <3>1. \A q \in PoolId : \A s \in WaitOf'[q] : PoolOf'[s] = q /\ ConnOf'[s] = NoConn
            BY <1>1, <1>3, <2>3, <2>4, <2>7, <2>10 DEF Context, Asked
        <3>2. \A s \in Starting' : ConnOf'[s] = NoConn
            BY <1>3, <1>4, <2>3, <2>4, <2>8 DEF Context, Asked
        <3>. QED  BY <1>1, <2>6, <2>10, <3>1, <3>2 DEF Context, Asked
    <2>12. PlaceOf' = [PlaceOf EXCEPT ![c] = <<"call", r>>]
        <3>1. ConnOf'[r] = c
            BY <1>3, <2>3, <2>4
        <3>2. PlaceOf'[c] = <<"call", r>>
            BY <2>3, <3>1 DEF Context, PlacesKnown
        <3>3. \A d \in Conn : d # c =>
                  /\ d \in wrapped <=> d \in wrapped'
                  /\ \A s \in Call : ConnOf[s] = d <=> ConnOf'[s] = d
            <4>1. NoConn \notin Conn
                BY PoolAssumption
            <4>. QED  BY <1>1, <1>3, <2>4, <2>7, <4>1
        <3>4. PlaceOf' = [PlaceOf EXCEPT ![c] = PlaceOf'[c]]
            BY <1>1, <2>5, <3>3, PlaceMoves DEF Context
        <3>. QED  BY <3>2, <3>4
    <2>13. \A d \in Conn : PlaceOf[d] # <<"call", r>>
        <3>1. NoConn \notin Conn
            BY PoolAssumption
        <3>. QED  BY <2>3, <2>7, <3>1, CallPlace DEF Context
    <2>14. Service!GiveBack(c)
        BY <1>1, <1>8, <1>9, <2>3, <2>6, <2>7, <2>9, <2>10, <2>12, <2>13
           DEF Context, Service!GiveBack, Service!Unserved, Service!HasNone, Service!With,
               Service!WithUser, PoolOf, PlaceOf, p
    <2>. QED  BY <2>11, <2>14
<1>11. CASE m_waitingCallbacks[p] = <<>>
    <2>1. /\ m_availableConnections' = [m_availableConnections EXCEPT ![p] = Append(@, c)]
          /\ UNCHANGED <<m_waitingCallbacks, call, idle>>
        BY <1>1, <1>2, <1>7, <1>11 DEF CheckWaitingCallbacks
    <2>2. FreeOf' = [FreeOf EXCEPT ![p] = @ \cup {c}]
        BY <1>1, <1>2, <1>6, <2>1, FreePushed
    <2>3. UNCHANGED <<WaitOf, ConnOf, PoolOf>>
        BY <2>1 DEF WaitOf, ConnOf, PoolOf
    <2>4. AllOpen' = AllOpen
        BY <1>4, <2>1, <2>3 DEF AllOpen
    <2>. HIDE DEF p
    <2>5. Asked'
        BY <1>1, <1>4, <2>3, <2>4 DEF Context, Asked
    <2>6. PlaceOf' = [PlaceOf EXCEPT ![c] = <<"pool", NoCall>>]
        <3>1. c \in FreeOf'[p]
            BY <1>1, <1>3, <2>2
        <3>2. PlaceOf'[c] = <<"pool", NoCall>>
            BY <1>1, <3>1 DEF Context, PlacesKnown
        <3>3. \A d \in Conn : d # c =>
                  /\ d \in wrapped <=> d \in wrapped'
                  /\ \A q \in PoolId : d \in FreeOf[q] <=> d \in FreeOf'[q]
            BY <1>1, <1>3, <2>2
        <3>4. PlaceOf' = [PlaceOf EXCEPT ![c] = PlaceOf'[c]]
            BY <1>1, <2>3, <3>3, PlaceMoves DEF Context
        <3>. QED  BY <3>2, <3>4
    <2>7. Service!GiveBack(c)
        BY <1>1, <1>8, <1>9, <2>3, <2>4, <2>6
           DEF Context, Service!GiveBack, Service!InPool, Service!WithUser, PoolOf, PlaceOf, p
    <2>. QED  BY <2>5, <2>7
<1>. QED  BY <1>10, <1>11

LEMMA CollectWrapperServes ==
    ASSUME Context, NEW c \in Conn, CollectWrapper(c)
    PROVE  Asked' /\ Service!Retire(c)
<1>1. /\ wrapped' = wrapped \ {c} /\ alive' = alive \ {c} /\ c \in wrapped
      /\ UNCHANGED <<asyncVars, poolVars, call, idle, m_poolId>>
    BY DEF CollectWrapper
<1>2. Tasks' = Tasks /\ Starting' = Starting /\ UNCHANGED inAfter
    BY <1>1, TasksUnchanged, StartingUnchanged
<1>3. UNCHANGED <<WaitOf, FreeOf, ConnOf, PoolOf>>
    BY <1>1 DEF WaitOf, FreeOf, ConnOf, PoolOf, poolVars
<1>4. AllOpen' = AllOpen
    BY <1>1, <1>2, <1>3 DEF AllOpen
<1>5. Asked'
    BY <1>1, <1>2, <1>3, <1>4 DEF Context, Asked, poolVars
<1>6. PlaceOf[c] = <<"user", NoCall>> /\ PlaceOf'[c] = <<"gone", NoCall>>
    BY <1>1 DEF Context, PlacesKnown
<1>7. PlaceOf' = [PlaceOf EXCEPT ![c] = PlaceOf'[c]]
    BY <1>1, <1>3, PlaceMoves DEF Context
<1>8. Async!After' = Async!After
    BY <1>2 DEF Async!After
<1>9. Service!Retire(c)
    BY <1>1, <1>3, <1>4, <1>6, <1>7, <1>8
       DEF Context, Service!Retire, Service!Gone, Service!WithUser, PoolOf, PlaceOf, poolVars
<1>. QED  BY <1>5, <1>9

LEMMA CollectPoolServes ==
    ASSUME Context, NEW p \in PoolId, CollectPool(p)
    PROVE  Asked' /\ Service!ClosePool(p)
<1>1. /\ p \in pools /\ pools' = pools \ {p} /\ alive' = alive \ FreeOf[p]
      /\ m_availableConnections' = [m_availableConnections EXCEPT ![p] = <<>>]
      /\ m_waitingCallbacks' = [m_waitingCallbacks EXCEPT ![p] = <<>>]
      /\ call' = [r \in Call |-> IF r \in WaitOf[p] THEN Blank ELSE call[r]]
      /\ UNCHANGED <<asyncVars, nextPoolId, idle, m_poolId, wrapped>>
    BY DEF CollectPool, FreeOf, WaitOf, Available, Waiting
<1>2. Tasks' = Tasks /\ Starting' = Starting /\ UNCHANGED inAfter
    BY <1>1, TasksUnchanged, StartingUnchanged
<1>3. FreeOf' = [FreeOf EXCEPT ![p] = {}] /\ WaitOf' = [WaitOf EXCEPT ![p] = {}]
    BY <1>1, FreeEmptied, WaitEmptied DEF Context, OwnInv, Types, StackTypes, Owners, Calls
<1>4. /\ FreeOf \in [PoolId -> SUBSET Conn]
      /\ WaitOf \in [PoolId -> SUBSET Call]
      /\ alive \subseteq Conn
    BY SetsHaveTypes DEF Context, OwnInv, Types
<1>5. Blank.connection = NoConn /\ Blank.poolId = NoPool
    BY DEF Blank
<1>6. \A r \in WaitOf[p] : /\ r \in Call /\ r \notin Tasks /\ r \in AllOpen
                           /\ PoolOf[r] = p /\ ConnOf[r] = NoConn
    BY <1>4 DEF Context, OwnInv, Calls, Asked, AllOpen
<1>7. ConnOf' = ConnOf
    <2>1. \A r \in Call : call'[r].connection = call[r].connection
        BY <1>1, <1>5, <1>6 DEF ConnOf
    <2>. QED  BY <2>1 DEF ConnOf
<1>8. PoolOf' = [r \in Call |-> IF r \in WaitOf[p] THEN NoPool ELSE PoolOf[r]]
    <2>1. \A r \in Call : call'[r].poolId = IF r \in WaitOf[p] THEN NoPool ELSE PoolOf[r]
        BY <1>1, <1>5 DEF PoolOf
    <2>. QED  BY <2>1 DEF PoolOf
<1>9. AllOpen' = AllOpen \ WaitOf[p]
    <2>1. /\ WaitOf[p] \cap (Tasks \cup idle) = {}
          /\ \A q \in PoolId : q # p => WaitOf[p] \cap WaitOf[q] = {}
        BY DEF Context, OwnInv, Calls
    <2>. QED  BY <1>1, <1>2, <1>3, <1>4, <2>1 DEF AllOpen
<1>10. Asked'
    <2>1. /\ nextPoolId \in Nat \ {0} /\ NoPool = 0
          /\ \A r \in Call : PoolOf[r] < nextPoolId
        BY Numbers DEF Context, OwnInv
    <2>2. pools' \subseteq 1..nextPoolId' - 1
        BY <1>1 DEF Context, Asked
    <2>3. \A r \in Call : PoolOf'[r] < nextPoolId'
        BY <1>1, <1>8, <2>1
    <2>4. \A r \in Call : r \notin AllOpen' => PoolOf'[r] = NoPool
        BY <1>8, <1>9 DEF Context, Asked
    <2>5. \A q \in PoolId : \A s \in WaitOf'[q] : PoolOf'[s] = q /\ ConnOf'[s] = NoConn
        <3>1. ASSUME NEW q \in PoolId, NEW s \in WaitOf'[q]
              PROVE  q # p /\ s \in WaitOf[q] /\ s \notin WaitOf[p] /\ s \in Call
            BY <1>3, <1>4, <3>1 DEF Context, OwnInv, Calls
        <3>. QED  BY <1>7, <1>8, <3>1 DEF Context, Asked
    <2>. QED  BY <1>1, <1>2, <1>7, <2>2, <2>3, <2>4, <2>5 DEF Context, Asked
<1>11. PlaceOf' = [c \in Conn |-> IF PlaceOf[c] = <<"pool", NoCall>> /\ m_poolId[c] = p
                                  THEN <<"gone", NoCall>> ELSE PlaceOf[c]]
    <2>1. ASSUME NEW c \in Conn
          PROVE  PlaceOf[c] = <<"pool", NoCall>> /\ m_poolId[c] = p <=> c \in FreeOf[p]
        <3>1. c \in FreeOf[p] => PlaceOf[c] = <<"pool", NoCall>> /\ m_poolId[c] = p
            BY DEF Context, PlacesKnown, OwnInv, Owners
        <3>2. PlaceOf[c] = <<"pool", NoCall>> => \E q \in PoolId : c \in FreeOf[q]
            BY DEF Context, PlacesKnown
        <3>. QED  BY <3>1, <3>2 DEF Context, OwnInv, Owners
    <2>2. ASSUME NEW c \in Conn, c \in FreeOf[p] PROVE PlaceOf'[c] = <<"gone", NoCall>>
        BY <1>1, <2>2 DEF Context, PlacesKnown
    <2>3. ASSUME NEW c \in Conn, c \notin FreeOf[p] PROVE PlaceOf'[c] = PlaceOf[c]
        <3>1. \A q \in PoolId : c \in FreeOf[q] <=> c \in FreeOf'[q]
            BY <1>3, <1>4, <2>3
        <3>2. (c \in alive <=> c \in alive') /\ (c \in wrapped <=> c \in wrapped')
            BY <1>1, <2>3
        <3>. QED  BY <1>7, <3>1, <3>2, PlaceStays DEF Context
    <2>4. \A c \in Conn : PlaceOf'[c] = IF PlaceOf[c] = <<"pool", NoCall>> /\ m_poolId[c] = p
                                        THEN <<"gone", NoCall>> ELSE PlaceOf[c]
        BY <2>1, <2>2, <2>3
    <2>. QED  BY <2>4 DEF PlaceOf
<1>12. Async!After' = Async!After /\ Async!After \cap WaitOf[p] = {}
    BY <1>2, <1>6 DEF Async!After, Tasks, AsyncProofs!Known, AsyncProofs!InFlight,
                      AsyncProofs!After
<1>13. \A r \in WaitOf[p] : \A c \in Conn : PlaceOf[c] # <<"call", r>>
    <2>1. NoConn \notin Conn
        BY PoolAssumption
    <2>. QED  BY <1>6, <2>1, CallPlace DEF Context
<1>14. Service!ClosePool(p)
    <2>1. WaitOf[p] \in SUBSET {r \in AllOpen \ Async!After :
                                   PoolOf[r] = p /\ \A c \in Conn : PlaceOf[c] # <<"call", r>>}
        BY <1>6, <1>12, <1>13
    <2>2. /\ Open' = Open \ WaitOf[p]
          /\ Open = AllOpen
        BY <1>9 DEF Context
    <2>. QED
        BY <1>1, <1>8, <1>11, <1>12, <2>1, <2>2
           DEF Service!ClosePool, Service!Unserved, Service!HasNone, Service!With,
               Service!Gone, Service!InPool, PoolOf, PlaceOf
<1>. QED  BY <1>10, <1>14

-----------------------------------------------------------------------------
(* The refinement.                                                         *)

LEMMA ServiceInit == Init => Asked /\ Service!Init
<1>. SUFFICES ASSUME Init PROVE Asked /\ Service!Init
    OBVIOUS
<1>1. Blank.connection = NoConn /\ Blank.poolId = NoPool
    BY DEF Blank
<1>2. ConnOf = [r \in Call |-> NoConn] /\ PoolOf = [r \in Call |-> NoPool]
    BY <1>1 DEF Init, ConnOf, PoolOf
<1>3. Range(<<>>) = {} /\ AsyncProofs!Range(<<>>) = {}
    BY DEF Range, AsyncProofs!Range
<1>4. WaitOf = [p \in PoolId |-> {}]
    BY <1>3 DEF Init, WaitOf
<1>5. Async!After = {} /\ AsyncProofs!After = {} /\ working = {}
    BY DEF Init, Async!Init, Async!After, AsyncProofs!After
<1>6. Tasks = {}
    BY <1>3, <1>5 DEF Init, Async!Init, Tasks, AsyncProofs!Known, AsyncProofs!InFlight
<1>7. Starting = {}
    BY <1>3, <1>5 DEF Init, Async!Init, Starting, AsyncProofs!Begun
<1>8. Open = {}
    BY <1>4, <1>6, OpenIsAllOpen DEF Init, AllOpen
<1>9. Asked
    <2>1. nextPoolId = 1 /\ pools = {} /\ \A c \in Conn : m_poolId[c] = 0
        BY DEF Init, NoPool
    <2>2. \A r \in Call : PoolOf[r] = NoPool /\ PoolOf[r] = 0
        BY <1>2 DEF NoPool
    <2>3. \A r \in Call : PoolOf[r] < nextPoolId
        BY <2>1, <2>2
    <2>. QED  BY <1>2, <1>4, <1>7, <2>1, <2>2, <2>3 DEF Asked
<1>10. [c \in Conn |-> Place(c)] = [c \in Conn |-> <<"gone", NoCall>>]
    <2>1. \A c \in Conn : Place(c) = <<"gone", NoCall>>
        <3>1. /\ Free = {} /\ wrapped = {} /\ alive = {}
            BY <1>3 DEF Init, Free, Available
        <3>2. Carried = {}
            BY <1>2 DEF Carried, ConnOf
        <3>. QED  BY <3>1, <3>2 DEF Place
    <2>. QED  BY <2>1
<1>11. [r \in Call |-> call[r].poolId] = [r \in Call |-> NoPool]
    BY <1>2 DEF PoolOf
<1>12. Service!Init
    BY <1>5, <1>8, <1>10, <1>11 DEF Init, Service!Init, Service!Gone
<1>. QED  BY <1>9, <1>12

LEMMA ServiceNext ==
    ASSUME Context, [Next]_vars
    PROVE  Asked' /\ [Service!Next]_(Service!vars)
<1>1. CASE UNCHANGED vars
    <2>1. UNCHANGED <<asyncVars, poolVars, call, idle, connVars>>
        BY <1>1 DEF vars
    <2>2. Starting' = Starting /\ UNCHANGED inAfter /\ Tasks' = Tasks
        BY <2>1, StartingUnchanged, TasksUnchanged
    <2>3. UNCHANGED <<WaitOf, FreeOf, ConnOf, PoolOf>>
        BY <2>1 DEF WaitOf, FreeOf, ConnOf, PoolOf, poolVars
    <2>4. AllOpen' = AllOpen
        BY <2>1, <2>2, <2>3 DEF AllOpen
    <2>5. Asked'
        BY <2>1, <2>2, <2>3, <2>4 DEF Context, Asked, poolVars, connVars
    <2>6. PlaceOf' = PlaceOf
        BY <2>1, <2>3, PlacesStay DEF Context, connVars
    <2>7. ServiceStutters
        BY <2>1, <2>2, <2>3, <2>4, <2>6 DEF ServiceStutters, Served, poolVars, connVars
    <2>. QED  BY <2>5, <2>7, StutterIsStutter
<1>2. CASE Ask \/ AskWithoutCallback
    <2>1. ASSUME NewPool PROVE Asked' /\ Service!Next
        <3>1. nextPoolId \in PoolId
            BY <2>1 DEF NewPool
        <3>. QED  BY <2>1, <3>1, NewPoolServes DEF Service!Next
    <2>2. ASSUME NEW r \in Call, NEW b \in BOOLEAN, Connect(r, b)
          PROVE  Asked' /\ Service!Next
        BY <2>2, ConnectServes DEF Service!Next
    <2>3. ASSUME NEW p \in PoolId, NEW r \in Call, NEW b \in BOOLEAN, GetConnection(p, r, b)
          PROVE  Asked' /\ Service!Next
        BY <2>3, GetConnectionServes DEF Service!Next
    <2>. QED  BY <1>2, <2>1, <2>2, <2>3 DEF Ask, AskWithoutCallback
<1>3. CASE Answer
    <2>1. ASSUME WorkBegin \/ \E r \in Call : ConnectFails(r)
          PROVE  Asked' /\ UNCHANGED Service!vars
        BY <2>1, MoveServes
    <2>2. ASSUME NEW r \in Call, NEW c \in Conn, ConnectSucceeds(r, c)
          PROVE  Asked' /\ Service!Next
        BY <2>2, ConnectSucceedsServes DEF Service!Next
    <2>3. ASSUME AfterWork PROVE Asked' /\ Service!Next
        <3>1. Head(finished) \in Call
            BY <2>3, StartingAfterWork DEF AfterWork, Context, OwnInv
        <3>. QED  BY <2>3, <3>1, AfterWorkServes DEF Service!Next
    <2>4. ASSUME AfterWorkDone PROVE Asked' /\ Service!Next
        <3>1. PICK r \in Call : r = inAfter
            BY <2>4, TasksAfterDone DEF AfterWorkDone, Context, OwnInv
        <3>. QED  BY <2>4, <3>1, AfterWorkDoneServes DEF Service!Next
    <2>5. ASSUME NEW r \in Call, IdleCallback(r) PROVE Asked' /\ Service!Next
        BY <2>5, IdleCallbackServes DEF Service!Next
    <2>. QED  BY <1>3, <2>1, <2>2, <2>3, <2>4, <2>5 DEF Answer
<1>4. CASE GiveBack \/ Collect
    <2>1. ASSUME NEW c \in Conn, Release(c) PROVE Asked' /\ Service!Next
        BY <2>1, ReleaseServes DEF Service!Next
    <2>2. ASSUME NEW c \in Conn, CollectWrapper(c) PROVE Asked' /\ Service!Next
        BY <2>2, CollectWrapperServes DEF Service!Next
    <2>3. ASSUME NEW p \in PoolId, CollectPool(p) PROVE Asked' /\ Service!Next
        BY <2>3, CollectPoolServes DEF Service!Next
    <2>. QED  BY <1>4, <2>1, <2>2, <2>3 DEF GiveBack, Collect
<1>. QED  BY <1>1, <1>2, <1>3, <1>4 DEF Next

LEMMA ServiceStep ==
    OwnInv /\ OwnInv' /\ Asked /\ [Next]_vars => Asked' /\ [Service!Next]_(Service!vars)
<1>1. (OwnInv => PlacesKnown) /\ (Open = AllOpen)
    BY OwnersPlace, OpenIsAllOpen
<1>2. (OwnInv => PlacesKnown)' /\ (Open = AllOpen)'
    BY <1>1, PTL
<1>. QED  BY <1>1, <1>2, ServiceNext DEF Context

LEMMA AskedInvariant == Safe => []Asked
BY OwnInvariant, ServiceInit, ServiceStep, PTL DEF Safe

\* The pools, the scheduler, the idle handles and the collector do what
\* PoolService promises, for any number of pools, calls and connections and any
\* pool size: src/PoolWrapper.cpp:32-159, src/TaskConnection.cpp:10-62,
\* src/ConnectionWrapper.cpp:246-262.
THEOREM PoolImplementsService == Safe => ImplementsService
BY OwnInvariant, AskedInvariant, ServiceInit, ServiceStep, PTL
   DEF Safe, ImplementsService, Service!Safe

=============================================================================
