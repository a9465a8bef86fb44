------------------------------ MODULE Collector ------------------------------
(***************************************************************************)
(* Pool with one more thing the garbage collector does: it takes a         *)
(* MysqlConnection object that was released. release() clears the internal *)
(* field of the JavaScript object (handle_->SetPointerInInternalField), so *)
(* its methods do nothing any more; the ConnectionWrapper behind it still  *)
(* has m_connection and deletes it in its destructor.                      *)
(***************************************************************************)
EXTENDS Pool

VARIABLE released   \* connections with a released MysqlConnection object that
                    \* the collector has not taken

CollectorInit == Init /\ released = {}

ReleaseWrapper(c) ==
    /\ Release(c)
    /\ released' = released \cup {c}

\* ~ConnectionWrapper of a released object.
CollectReleased(c) ==
    /\ c \in released
    /\ released' = released \ {c}
    /\ alive' = alive \ {c}
    /\ UNCHANGED <<asyncVars, poolVars, call, idle, m_poolId, wrapped>>

CollectorNext ==
    \/ /\ Ask \/ AskWithoutCallback \/ Answer \/ Collect
       /\ UNCHANGED released
    \/ \E c \in Conn : ReleaseWrapper(c) \/ CollectReleased(c)

CollectorSafe == CollectorInit /\ [][CollectorNext]_<<vars, released>>

\* src/ConnectionWrapper.cpp:256 of a released connection: "if pool still
\* exists, it will become an owner of this Connection*". What the pool has,
\* and what it lends, is not deleted by somebody else.
PoolOwnsReleased == Free \cup Carried \cup wrapped \subseteq alive

=============================================================================
