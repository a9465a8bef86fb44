------------------------------- MODULE Options -------------------------------
(***************************************************************************)
(* ConnectionOptions: what becomes of the dictionary given to              *)
(* mysql.connect or to new mysql.Pool on its way to the MySQL driver. The  *)
(* constructor copies the dictionary, because the options are used later   *)
(* and on other threads; a pool copies its options once more for every     *)
(* connection it opens; Connection::Connection makes the driver's map of   *)
(* them. Meanwhile the program may change its dictionary.                  *)
(***************************************************************************)
EXTENDS Integers, Functions

CONSTANTS
    Half,           \* an int is in -Half..Half - 1: 2^31 in the code
    Second,         \* milliseconds in a second: 1000 in the code
    DefaultPort,    \* 3306 in the code
    Text,           \* texts
    Dicts,          \* dictionaries: functions from the options they have
    Indeterminate,  \* what a member no constructor sets may hold
    Undefined,      \* the value undefined; for a number also what is no number
    None

Word == 2 * Half    \* unsigned integers are modulo Word

TextOption == {"socketPath", "host", "user", "password", "database", "charset"}
NumberOption == {"port", "connectTimeout", "pool"}
Option == TextOption \cup NumberOption \cup {"reconnect"}

\* What a program may give: each option with a value of its type, or undefined.
IsDict(d) ==
    /\ DOMAIN d \subseteq Option
    /\ \A o \in DOMAIN d : \/ d[o] = Undefined
                           \/ o \in TextOption /\ d[o] \in Text
                           \/ o \in NumberOption /\ d[o] \in Int
                           \/ o = "reconnect" /\ d[o] \in BOOLEAN

ASSUME WidthAssumption ==
    /\ Half \in Nat \ {0} /\ Second \in Nat \ {0}
    /\ DefaultPort \in 0..Half - 1
    /\ Indeterminate \subseteq 0..Word - 1 /\ Indeterminate # {}

ASSUME DictAssumption == \A d \in Dicts : IsDict(d)

ASSUME TextAssumption == {"", "undefined", "localhost", "root", "utf8"} \subseteq Text

ASSUME UndefinedAssumption ==
    /\ Undefined \notin Int \cup Text \cup BOOLEAN
    /\ None \notin Int \cup Text \cup BOOLEAN

VARIABLES
    dict,           \* the program's dictionary
    given,          \* the dictionary when the constructor ran
    m_options,      \* ConnectionOptions of the call or pool, None before that
    optionsCopy,    \* the copy for a connection that is to be opened, or None
    sqlOptions      \* what the driver was last asked to open, or None

vars == <<dict, given, m_options, optionsCopy, sqlOptions>>

Init ==
    /\ dict \in Dicts
    /\ given = dict
    /\ m_options = None
    /\ optionsCopy = None
    /\ sqlOptions = None

\* Value::ToString of what is no text already.
ToText(v) == IF v = Undefined THEN "undefined" ELSE v

\* Value::ToUint32
ToUint32(v) == IF v = Undefined THEN 0 ELSE v % Word

\* Mutant: the member is an unsigned int.
ToUnsigned(u) == u

\* An unsigned integer assigned to an int.
ToInt(u) == IF u < Half THEN u ELSE u - Word

\* Mutant: a pool of size 0.
PoolSizeAsIs(u) == u

\* The pool's size. The test for NaN is of an integer and never true.
PoolSizeFrom(u) == IF u < 1 THEN 1 ELSE u

\* Object::Has: an option that is there and undefined counts as given.
Has(d, o) == o \in DOMAIN d

\* An option of dictionary d as text, or its default.
TextOr(d, o, default) == IF Has(d, o) THEN ToText(d[o]) ELSE default

\* The same as an int.
IntOr(d, o, default) == IF Has(d, o) THEN ToInt(ToUint32(d[o])) ELSE default

IsTrue(d, o) == Has(d, o) /\ d[o] = TRUE

PoolSizeOf(d) == IF Has(d, "pool") THEN PoolSizeFrom(ToUint32(d["pool"])) ELSE 1

\* ConnectionOptions(options)
FromDict(d) ==
    [ m_socket |-> TextOr(d, "socketPath", ""), m_isSetSocket |-> Has(d, "socketPath"),
      m_host |-> TextOr(d, "host", "localhost"), m_port |-> IntOr(d, "port", DefaultPort),
      m_user |-> TextOr(d, "user", "root"), m_password |-> TextOr(d, "password", ""),
      m_db |-> TextOr(d, "database", ""), m_isDbSet |-> Has(d, "database"),
      m_autoReconnect |-> IsTrue(d, "reconnect"),
      m_charset |-> TextOr(d, "charset", "utf8"),
      m_connectTimeout |-> IntOr(d, "connectTimeout", -1),
      m_poolSize |-> PoolSizeOf(d) ]

\* Mutant: the copy constructor forgets one more member, m_charset.
CopyWithoutCharset(o, n) == [o EXCEPT !.m_poolSize = n, !.m_charset = ""]

\* The copy constructor: every member but m_poolSize, which keeps whatever n
\* the memory holds.
CopyOf(o, n) == [o EXCEPT !.m_poolSize = n]

IsConnectTimeoutSet(o) == o.m_connectTimeout # -1

\* An int divided by Second, towards zero.
InSeconds(t) == IF t >= 0 THEN t \div Second ELSE -((-t) \div Second)

\* Mutant: host and port are given to the driver with the socket.
UnlessSocketAlways(o, v) == v

\* Host and port are not given to the driver when the socket is.
UnlessSocket(o, v) == IF o.m_isSetSocket THEN None ELSE v

\* The map that Connection::Connection gives to driver->connect; None stands
\* for a key that is not in it.
SqlOptions(o) ==
    [ socket |-> IF o.m_isSetSocket THEN o.m_socket ELSE None,
      hostName |-> UnlessSocket(o, o.m_host),
      port |-> UnlessSocket(o, o.m_port),
      userName |-> o.m_user, password |-> o.m_password,
      schema |-> IF o.m_isDbSet THEN o.m_db ELSE None,
      OPT_CONNECT_TIMEOUT |->
          IF IsConnectTimeoutSet(o) THEN InSeconds(o.m_connectTimeout) ELSE None,
      OPT_RECONNECT |-> o.m_autoReconnect,
      OPT_CHARSET_NAME |-> o.m_charset ]

\* mysql.connect(dict) or new mysql.Pool(dict)
Construct ==
    /\ m_options = None
    /\ m_options' = FromDict(dict)
    /\ given' = dict
    /\ UNCHANGED <<dict, optionsCopy, sqlOptions>>

\* The program deletes an option of its dictionary.
ChangeDict(o) ==
    /\ o \in DOMAIN dict
    /\ dict' = Restrict(dict, DOMAIN dict \ {o})
    /\ UNCHANGED <<given, m_options, optionsCopy, sqlOptions>>

\* getConnection makes the options of a connection that it will open.
CopyOptions ==
    /\ m_options # None
    /\ optionsCopy = None
    /\ \E n \in Indeterminate : optionsCopy' = CopyOf(m_options, n)
    /\ UNCHANGED <<dict, given, m_options, sqlOptions>>

\* TaskConnection::asyncWork with the copy, or with the options themselves
\* when the call is mysql.connect. The Connection owns them then.
OpenConnection ==
    /\ \E o \in {m_options, optionsCopy} \ {None} : sqlOptions' = SqlOptions(o)
    /\ optionsCopy' = None
    /\ UNCHANGED <<dict, given, m_options>>

Next ==
    \/ Construct
    \/ \E o \in Option : ChangeDict(o)
    \/ CopyOptions
    \/ OpenConnection

Safe == Init /\ [][Next]_vars

-----------------------------------------------------------------------------
(* Properties *)

Opened == sqlOptions # None

ConnectionOptions ==
    [ m_socket : Text, m_isSetSocket : BOOLEAN, m_host : Text, m_port : -Half..Half - 1,
      m_user : Text, m_password : Text, m_db : Text, m_isDbSet : BOOLEAN,
      m_autoReconnect : BOOLEAN, m_charset : Text, m_connectTimeout : -Half..Half - 1,
      m_poolSize : 0..Word - 1 ]

TypeOK ==
    /\ m_options \in ConnectionOptions \cup {None}
    /\ optionsCopy \in ConnectionOptions \cup {None}

\* A connection is opened with the options the program gave when it called,
\* whatever it does to its dictionary later, and whether the options were
\* copied by a pool or not (src/ConnectionOptions.cpp:10-11, 105-118).
OpensAsGiven == Opened => sqlOptions = SqlOptions(FromDict(given))

\* The values README.md shows for the options that may be left out.
Documented ==
    [ host |-> "localhost", port |-> DefaultPort, user |-> "root", password |-> "",
      reconnect |-> FALSE, charset |-> "utf8", connectTimeout |-> -1 ]

Significant(d) == {o \in DOMAIN d : o \in DOMAIN Documented => d[o] # Documented[o]}

\* README.md:53-64. To give an option its documented default is to leave it
\* out; for connectTimeout: -1 this takes a conversion to an unsigned integer
\* and back, and the test of isConnectTimeoutSet.
DefaultsAsDocumented ==
    Opened => sqlOptions = SqlOptions(FromDict(Restrict(given, Significant(given))))

\* README.md:58: "if given, hostname and port options will be ignored".
SocketDecides == Opened /\ "socketPath" \in DOMAIN given =>
    sqlOptions = SqlOptions(FromDict(Restrict(given, DOMAIN given \ {"host", "port"})))

\* A pool may open at least one connection, whatever number or text was given
\* for its size: with 0 every call of getConnection would wait forever. A size
\* that an unsigned int can hold is kept.
PoolSizeUsable == m_options # None =>
    /\ m_options.m_poolSize >= 1
    /\ "pool" \in DOMAIN given /\ given["pool"] \in 1..Word - 1
          => m_options.m_poolSize = given["pool"]

=============================================================================
