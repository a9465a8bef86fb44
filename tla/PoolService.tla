----------------------------- MODULE PoolService -----------------------------
(***************************************************************************)
(* What connect, the pools and release promise to a program, without the   *)
(* scheduler, the counters, the two stacks and the idle handles: a         *)
(* Connection is in one place at a time; a call gets at most one, of the   *)
(* pool it asked; only its user gives a connection back, to the pool that  *)
(* opened it or straight to a call that waits there; a call is answered    *)
(* once. How many connections a pool opens is not part of the promise.     *)
(***************************************************************************)
EXTENDS Integers

CONSTANTS
    Call,       \* calls of connect and getConnection, reusable once answered
    Conn,       \* Connection objects
    PoolId,
    NoPool,     \* mysql.connect asks no pool
    NoCall

VARIABLES
    open,       \* pools that exist
    asked,      \* calls that are not over
    served,     \* calls whose task is calling back
    wants,      \* per call, the pool it asked
    home,       \* per connection, the pool that opened it
    place       \* per connection, where it is

vars == <<open, asked, served, wants, home, place>>

\* The places of a connection: not there, in its pool, with a MysqlConnection
\* object, without an owner, or with the call that will deliver it.
Gone == <<"gone", NoCall>>
InPool == <<"pool", NoCall>>
WithUser == <<"user", NoCall>>
Lost == <<"lost", NoCall>>
With(r) == <<"call", r>>

Unserved == asked \ served

HasNone(r) == \A c \in Conn : place[c] # With(r)

\* What call r has goes to place x.
Moved(r, x) == [c \in Conn |-> IF place[c] = With(r) THEN x ELSE place[c]]

Init ==
    /\ open = {} /\ asked = {} /\ served = {}
    /\ wants = [r \in Call |-> NoPool]
    /\ home = [c \in Conn |-> NoPool]
    /\ place = [c \in Conn |-> Gone]

\* A new pool has an id that no connection was ever opened for.
OpenPool(p) ==
    /\ p \notin open
    /\ \A c \in Conn : home[c] # p
    /\ open' = open \cup {p}
    /\ UNCHANGED <<asked, served, wants, home, place>>

\* A pool may have a free connection for the call.
Ask(r, p) ==
    /\ r \notin asked
    /\ p \in open \cup {NoPool}
    /\ asked' = asked \cup {r}
    /\ wants' = [wants EXCEPT ![r] = p]
    /\ \/ UNCHANGED place
       \/ \E c \in Conn : /\ place[c] = InPool /\ home[c] = p
                          /\ place' = [place EXCEPT ![c] = With(r)]
    /\ UNCHANGED <<open, served, home>>

\* A connection is opened for a call that has none.
OpenConnection(r, c) ==
    /\ r \in Unserved
    /\ HasNone(r)
    /\ place[c] = Gone
    /\ place' = [place EXCEPT ![c] = With(r)]
    /\ home' = [home EXCEPT ![c] = wants[r]]
    /\ UNCHANGED <<open, asked, served, wants>>

\* The task of a call calls back: with what it has, or with an error, or it has
\* no callback and keeps the connection.
CallBack(r) ==
    /\ r \in Unserved
    /\ served' = served \cup {r}
    /\ place' \in {place, Moved(r, WithUser)}
    /\ UNCHANGED <<open, asked, wants, home>>

\* The call is over. Its task, if it had one, deletes what it still has.
Over(r, x) ==
    /\ asked' = asked \ {r}
    /\ served' = served \ {r}
    /\ wants' = [wants EXCEPT ![r] = NoPool]
    /\ place' = Moved(r, x)
    /\ UNCHANGED <<open, home>>

EndTask(r) == r \in served /\ Over(r, Gone)

\* A free connection is delivered; without a callback nobody has it then.
Deliver(r) == r \in Unserved /\ \E x \in {WithUser, Lost} : Over(r, x)

GiveBack(c) ==
    /\ place[c] = WithUser
    /\ home[c] \in open
    /\ \/ place' = [place EXCEPT ![c] = InPool]
       \/ \E r \in Unserved : /\ wants[r] = home[c] /\ HasNone(r)
                              /\ place' = [place EXCEPT ![c] = With(r)]
    /\ UNCHANGED <<open, asked, served, wants, home>>

\* The collector takes the user's object.
Retire(c) ==
    /\ place[c] = WithUser
    /\ place' = [place EXCEPT ![c] = Gone]
    /\ UNCHANGED <<open, asked, served, wants, home>>

\* The collector takes a pool: its free connections are deleted and calls that
\* have no connection may be forgotten.
ClosePool(p) ==
    /\ p \in open
    /\ open' = open \ {p}
    /\ place' = [c \in Conn |-> IF place[c] = InPool /\ home[c] = p THEN Gone ELSE place[c]]
    /\ \E forgotten \in SUBSET {r \in Unserved : wants[r] = p /\ HasNone(r)} :
          /\ asked' = asked \ forgotten
          /\ wants' = [r \in Call |-> IF r \in forgotten THEN NoPool ELSE wants[r]]
    /\ UNCHANGED <<served, home>>

Next ==
    \/ \E p \in PoolId : OpenPool(p) \/ ClosePool(p)
    \/ \E r \in Call :
          \/ \E p \in PoolId \cup {NoPool} : Ask(r, p)
          \/ \E c \in Conn : OpenConnection(r, c)
          \/ CallBack(r) \/ EndTask(r) \/ Deliver(r)
    \/ \E c \in Conn : GiveBack(c) \/ Retire(c)

Safe == Init /\ [][Next]_vars

=============================================================================
