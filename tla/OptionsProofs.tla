---------------------------- MODULE OptionsProofs ----------------------------
(***************************************************************************)
(* Proofs about Options, for every width of the integers, every default    *)
(* port and every set of dictionaries. Inv says where each copy of the     *)
(* options comes from; the rest are facts about the conversions.           *)
(***************************************************************************)
EXTENDS Options, TLAPS

LEMMA ModRange ==
    ASSUME NEW a \in Int, NEW b \in Nat \ {0}
    PROVE  a % b \in 0..b - 1
OBVIOUS

LEMMA ModSmall ==
    ASSUME NEW b \in Nat \ {0}, NEW a \in 0..b - 1
    PROVE  a % b = a
OBVIOUS

LEMMA ModMinusOne ==
    ASSUME NEW b \in Nat \ {0}
    PROVE  (-1) % b = b - 1
OBVIOUS

-----------------------------------------------------------------------------
(* The conversions.                                                        *)

LEMMA ToIntRange ==
    ASSUME NEW u \in 0..Word - 1
    PROVE  ToInt(u) \in -Half..Half - 1
BY WidthAssumption DEF ToInt, Word

LEMMA ToUint32Range ==
    ASSUME NEW v \in Int \cup {Undefined}
    PROVE  ToUint32(v) \in 0..Word - 1
<1>1. Word \in Nat \ {0}
    BY WidthAssumption DEF Word
<1>. QED  BY <1>1, ModRange DEF ToUint32

\* A number that an unsigned int can hold is kept.
LEMMA ToUint32Keeps ==
    ASSUME NEW v \in 0..Word - 1
    PROVE  ToUint32(v) = v
<1>1. Word \in Nat \ {0} /\ v \in Int
    BY WidthAssumption DEF Word
<1>2. v # Undefined
    BY <1>1, UndefinedAssumption
<1>. QED  BY <1>1, <1>2, ModSmall DEF ToUint32

\* A number that an int can hold comes back from the unsigned integer, -1 too.
LEMMA IntKept ==
    ASSUME NEW v \in 0..Half - 1 \cup {-1}
    PROVE  ToInt(ToUint32(v)) = v
<1>1. Word \in Nat \ {0} /\ Half \in Nat \ {0} /\ Word = 2 * Half /\ v # Undefined
    BY WidthAssumption, UndefinedAssumption DEF Word
<1>2. CASE v \in 0..Half - 1
    BY <1>1, <1>2, ToUint32Keeps DEF ToInt
<1>3. CASE v = -1
    <2>1. ToUint32(v) = Word - 1
        BY <1>1, <1>3, ModMinusOne DEF ToUint32
    <2>. QED  BY <1>1, <1>3, <2>1 DEF ToInt
<1>. QED  BY <1>2, <1>3

LEMMA TextOrType ==
    ASSUME NEW d, IsDict(d), NEW o \in TextOption, NEW default \in Text
    PROVE  TextOr(d, o, default) \in Text
<1>1. o \notin NumberOption /\ o # "reconnect"
    BY DEF TextOption, NumberOption
<1>2. o \in DOMAIN d => d[o] = Undefined \/ d[o] \in Text
    BY <1>1, Zenon DEF IsDict
<1>. QED  BY <1>2, TextAssumption DEF TextOr, ToText, Has

LEMMA NumberType ==
    ASSUME NEW d, IsDict(d), NEW o \in NumberOption, o \in DOMAIN d
    PROVE  /\ ToUint32(d[o]) \in 0..Word - 1
           /\ ToInt(ToUint32(d[o])) \in -Half..Half - 1
<1>1. o \notin TextOption /\ o # "reconnect"
    BY DEF TextOption, NumberOption
<1>2. d[o] \in Int \cup {Undefined}
    BY <1>1, Zenon DEF IsDict
<1>. QED  BY <1>2, ToUint32Range, ToIntRange

LEMMA IntOrType ==
    ASSUME NEW d, IsDict(d), NEW o \in NumberOption, NEW default \in -Half..Half - 1
    PROVE  IntOr(d, o, default) \in -Half..Half - 1
BY NumberType DEF IntOr, Has

LEMMA FromDictType ==
    ASSUME NEW d, IsDict(d)
    PROVE  FromDict(d) \in ConnectionOptions
<1>1. /\ TextOr(d, "socketPath", "") \in Text
      /\ TextOr(d, "host", "localhost") \in Text
      /\ TextOr(d, "user", "root") \in Text
      /\ TextOr(d, "password", "") \in Text
      /\ TextOr(d, "database", "") \in Text
      /\ TextOr(d, "charset", "utf8") \in Text
    BY TextOrType, TextAssumption DEF TextOption
<1>2. /\ IntOr(d, "port", DefaultPort) \in -Half..Half - 1
      /\ IntOr(d, "connectTimeout", -1) \in -Half..Half - 1
    BY IntOrType, WidthAssumption DEF NumberOption
<1>3. PoolSizeOf(d) \in 0..Word - 1
    BY NumberType, WidthAssumption DEF PoolSizeOf, Has, PoolSizeFrom, NumberOption, Word
<1>4. PICK autoReconnect \in BOOLEAN : autoReconnect = IsTrue(d, "reconnect")
    BY Zenon DEF IsTrue, Has
<1>5. Has(d, "socketPath") \in BOOLEAN /\ Has(d, "database") \in BOOLEAN
    BY DEF Has
<1>6. PICK isSetSocket \in BOOLEAN : isSetSocket = Has(d, "socketPath")
    BY <1>5, Zenon
<1>7. PICK isDbSet \in BOOLEAN : isDbSet = Has(d, "database")
    BY <1>5, Zenon
<1>. DEFINE options ==
        [ m_socket |-> TextOr(d, "socketPath", ""), m_isSetSocket |-> isSetSocket,
          m_host |-> TextOr(d, "host", "localhost"), m_port |-> IntOr(d, "port", DefaultPort),
          m_user |-> TextOr(d, "user", "root"), m_password |-> TextOr(d, "password", ""),
          m_db |-> TextOr(d, "database", ""), m_isDbSet |-> isDbSet,
          m_autoReconnect |-> autoReconnect, m_charset |-> TextOr(d, "charset", "utf8"),
          m_connectTimeout |-> IntOr(d, "connectTimeout", -1), m_poolSize |-> PoolSizeOf(d) ]
<1>8. options \in ConnectionOptions
    BY <1>1, <1>2, <1>3 DEF ConnectionOptions
<1>9. FromDict(d) = options
    BY <1>4, <1>6, <1>7, Zenon DEF FromDict
<1>. QED  BY <1>8, <1>9

LEMMA CopyFields ==
    ASSUME NEW o \in ConnectionOptions, NEW n
    PROVE  /\ CopyOf(o, n).m_socket = o.m_socket
           /\ CopyOf(o, n).m_isSetSocket = o.m_isSetSocket
           /\ CopyOf(o, n).m_host = o.m_host
           /\ CopyOf(o, n).m_port = o.m_port
           /\ CopyOf(o, n).m_user = o.m_user
           /\ CopyOf(o, n).m_password = o.m_password
           /\ CopyOf(o, n).m_db = o.m_db
           /\ CopyOf(o, n).m_isDbSet = o.m_isDbSet
           /\ CopyOf(o, n).m_autoReconnect = o.m_autoReconnect
           /\ CopyOf(o, n).m_charset = o.m_charset
           /\ CopyOf(o, n).m_connectTimeout = o.m_connectTimeout
BY DEF CopyOf, ConnectionOptions

LEMMA CopyType ==
    ASSUME NEW o \in ConnectionOptions, NEW n \in Indeterminate
    PROVE  CopyOf(o, n) \in ConnectionOptions
<1>1. n \in 0..Word - 1
    BY WidthAssumption
<1>. DEFINE copy ==
        [ m_socket |-> o.m_socket, m_isSetSocket |-> o.m_isSetSocket, m_host |-> o.m_host,
          m_port |-> o.m_port, m_user |-> o.m_user, m_password |-> o.m_password,
          m_db |-> o.m_db, m_isDbSet |-> o.m_isDbSet, m_autoReconnect |-> o.m_autoReconnect,
          m_charset |-> o.m_charset, m_connectTimeout |-> o.m_connectTimeout,
          m_poolSize |-> n ]
<1>2. copy \in ConnectionOptions
    BY <1>1 DEF ConnectionOptions
<1>3. CopyOf(o, n) = copy
    BY DEF CopyOf, ConnectionOptions
<1>. QED  BY <1>2, <1>3

\* The members that the driver's map is made of.
LEMMA SameFieldsOpenTheSame ==
    ASSUME NEW o, NEW c,
           c.m_socket = o.m_socket, c.m_isSetSocket = o.m_isSetSocket,
           c.m_host = o.m_host, c.m_port = o.m_port,
           c.m_user = o.m_user, c.m_password = o.m_password,
           c.m_db = o.m_db, c.m_isDbSet = o.m_isDbSet,
           c.m_autoReconnect = o.m_autoReconnect, c.m_charset = o.m_charset,
           c.m_connectTimeout = o.m_connectTimeout
    PROVE  SqlOptions(c) = SqlOptions(o)
BY SMT DEF SqlOptions, UnlessSocket, IsConnectTimeoutSet

\* What the copy constructor leaves out is not used when a connection opens.
LEMMA CopyOpensTheSame ==
    ASSUME NEW o \in ConnectionOptions, NEW n
    PROVE  SqlOptions(CopyOf(o, n)) = SqlOptions(o)
BY CopyFields, SameFieldsOpenTheSame

-----------------------------------------------------------------------------
(* Where the copies of the options come from.                              *)

Inv ==
    /\ IsDict(dict)
    /\ IsDict(given)
    /\ m_options = None => optionsCopy = None /\ sqlOptions = None
    /\ m_options # None => m_options = FromDict(given)
    /\ optionsCopy # None => \E n \in Indeterminate : optionsCopy = CopyOf(FromDict(given), n)
    /\ sqlOptions # None => sqlOptions = SqlOptions(FromDict(given))

LEMMA InitInv == Init => Inv
BY DictAssumption DEF Init, Inv

LEMMA ConstructInv == Inv /\ Construct => Inv'
BY Zenon DEF Inv, Construct

LEMMA ChangeDictInv ==
    ASSUME Inv, NEW o \in Option, ChangeDict(o)
    PROVE  Inv'
<1>1. dict' = [x \in DOMAIN dict \ {o} |-> dict[x]]
    BY DEF ChangeDict, Restrict
<1>2. IsDict(dict')
    BY <1>1 DEF Inv, IsDict
<1>. QED  BY <1>2 DEF Inv, ChangeDict

LEMMA CopyOptionsInv == Inv /\ CopyOptions => Inv'
BY Zenon DEF Inv, CopyOptions

LEMMA OpenConnectionInv == Inv /\ OpenConnection => Inv'
<1>. SUFFICES ASSUME Inv, OpenConnection PROVE Inv'
    OBVIOUS
<1>1. PICK o \in {m_options, optionsCopy} \ {None} : sqlOptions' = SqlOptions(o)
    BY DEF OpenConnection
<1>2. m_options # None /\ m_options = FromDict(given)
    BY <1>1 DEF Inv
<1>3. FromDict(given) \in ConnectionOptions
    BY FromDictType DEF Inv
<1>4. SqlOptions(o) = SqlOptions(FromDict(given))
    BY <1>1, <1>2, <1>3, CopyOpensTheSame DEF Inv
<1>. QED  BY <1>1, <1>2, <1>4 DEF Inv, OpenConnection

LEMMA NextInv == Inv /\ [Next]_vars => Inv'
<1>1. Inv /\ UNCHANGED vars => Inv'
    BY DEF Inv, vars
<1>. QED
    BY <1>1, ConstructInv, ChangeDictInv, CopyOptionsInv, OpenConnectionInv DEF Next

LEMMA OptionsInvariant == Safe => []Inv
BY InitInv, NextInv, PTL DEF Safe

\* The members of ConnectionOptions have their types; a number is in the range
\* of its C++ type whatever was given: src/ConnectionOptions.h:33-44.
THEOREM TypesAreKept == Safe => []TypeOK
<1>1. Inv => TypeOK
    BY FromDictType, CopyType DEF Inv, TypeOK
<1>. QED  BY <1>1, OptionsInvariant, PTL

\* A connection is opened with what was given, copied by a pool or not:
\* src/ConnectionOptions.cpp:105-118.
THEOREM OpenedAsGiven == Safe => []OpensAsGiven
<1>1. Inv => OpensAsGiven
    BY DEF Inv, OpensAsGiven, Opened
<1>. QED  BY <1>1, OptionsInvariant, PTL

\* A pool may open a connection: src/ConnectionOptions.cpp:93-102.
THEOREM PoolSizesAreUsable == Safe => []PoolSizeUsable
<1>1. Inv => PoolSizeUsable
    <2>. SUFFICES ASSUME Inv, m_options # None PROVE PoolSizeUsable
        BY DEF PoolSizeUsable
    <2>1. m_options.m_poolSize = PoolSizeOf(given) /\ IsDict(given)
        <3>1. FromDict(given).m_poolSize = PoolSizeOf(given)
            BY Zenon DEF FromDict
        <3>. QED  BY <3>1 DEF Inv
    <2>2. PoolSizeOf(given) >= 1
        BY <2>1, NumberType, WidthAssumption DEF PoolSizeOf, PoolSizeFrom, Has, NumberOption, Word
    <2>3. ASSUME "pool" \in DOMAIN given, given["pool"] \in 1..Word - 1
          PROVE  PoolSizeOf(given) = given["pool"]
        <3>1. ToUint32(given["pool"]) = given["pool"]
            BY <2>3, ToUint32Keeps, WidthAssumption DEF Word
        <3>. QED  BY <2>3, <3>1 DEF PoolSizeOf, PoolSizeFrom, Has
    <2>. QED  BY <2>1, <2>2, <2>3 DEF PoolSizeUsable
<1>. QED  BY <1>1, OptionsInvariant, PTL

-----------------------------------------------------------------------------
(* Dictionaries that say the same.                                         *)

LEMMA FromDictFields ==
    ASSUME NEW d
    PROVE  /\ FromDict(d).m_socket = TextOr(d, "socketPath", "")
           /\ FromDict(d).m_isSetSocket = Has(d, "socketPath")
           /\ FromDict(d).m_host = TextOr(d, "host", "localhost")
           /\ FromDict(d).m_port = IntOr(d, "port", DefaultPort)
           /\ FromDict(d).m_user = TextOr(d, "user", "root")
           /\ FromDict(d).m_password = TextOr(d, "password", "")
           /\ FromDict(d).m_db = TextOr(d, "database", "")
           /\ FromDict(d).m_isDbSet = Has(d, "database")
           /\ FromDict(d).m_autoReconnect = IsTrue(d, "reconnect")
           /\ FromDict(d).m_charset = TextOr(d, "charset", "utf8")
           /\ FromDict(d).m_connectTimeout = IntOr(d, "connectTimeout", -1)
BY Zenon DEF FromDict

\* An option that both have, with the same value, or that neither has.
Agree(d, e, o) == Has(d, o) = Has(e, o) /\ (Has(d, o) => d[o] = e[o])

LEMMA TextAgrees ==
    ASSUME NEW d, NEW e, NEW o, Agree(d, e, o), NEW default
    PROVE  TextOr(d, o, default) = TextOr(e, o, default)
BY Zenon DEF Agree, TextOr

LEMMA IntAgrees ==
    ASSUME NEW d, NEW e, NEW o, Agree(d, e, o), NEW default
    PROVE  IntOr(d, o, default) = IntOr(e, o, default)
BY Zenon DEF Agree, IntOr

LEMMA TruthAgrees ==
    ASSUME NEW d, NEW e, NEW o, Agree(d, e, o)
    PROVE  Has(d, o) = Has(e, o) /\ IsTrue(d, o) = IsTrue(e, o)
BY Zenon DEF Agree, IsTrue

LEMMA SocketOpensTheSame ==
    ASSUME NEW o, NEW c,
           c.m_socket = o.m_socket, c.m_isSetSocket, o.m_isSetSocket,
           c.m_user = o.m_user, c.m_password = o.m_password,
           c.m_db = o.m_db, c.m_isDbSet = o.m_isDbSet,
           c.m_autoReconnect = o.m_autoReconnect, c.m_charset = o.m_charset,
           c.m_connectTimeout = o.m_connectTimeout
    PROVE  SqlOptions(c) = SqlOptions(o)
BY SMT DEF SqlOptions, UnlessSocket, IsConnectTimeoutSet

\* With a socket the driver gets neither host nor port: src/Connection.cpp:72-78.
THEOREM SocketsDecide == Safe => []SocketDecides
<1>1. Inv => SocketDecides
    <2>. SUFFICES ASSUME Inv, Opened, "socketPath" \in DOMAIN given
                  PROVE  SqlOptions(FromDict(given)) =
                         SqlOptions(FromDict(Restrict(given, DOMAIN given \ {"host", "port"})))
        BY DEF SocketDecides, Inv, Opened
    <2>. DEFINE e == Restrict(given, DOMAIN given \ {"host", "port"})
    <2>1. ASSUME NEW o, o # "host", o # "port" PROVE Agree(given, e, o)
        BY <2>1 DEF Agree, Has, Restrict
    <2>2. /\ Agree(given, e, "socketPath") /\ Agree(given, e, "user")
          /\ Agree(given, e, "password") /\ Agree(given, e, "database")
          /\ Agree(given, e, "reconnect") /\ Agree(given, e, "charset")
          /\ Agree(given, e, "connectTimeout")
        BY <2>1
    <2>3. Has(given, "socketPath") /\ Has(e, "socketPath")
        BY <2>2, Zenon DEF Has, Agree
    <2>. HIDE DEF e
    <2>4. \A default : \A o \in {"socketPath", "user", "password", "database", "charset"} :
              TextOr(given, o, default) = TextOr(e, o, default)
        BY <2>2, TextAgrees
    <2>5. IntOr(given, "connectTimeout", -1) = IntOr(e, "connectTimeout", -1)
        BY <2>2, IntAgrees
    <2>6. Has(given, "database") = Has(e, "database")
        BY <2>2, TruthAgrees
    <2>7. IsTrue(given, "reconnect") = IsTrue(e, "reconnect")
        BY <2>2, TruthAgrees
    <2>8. /\ FromDict(given).m_isSetSocket /\ FromDict(e).m_isSetSocket
          /\ FromDict(given).m_socket = FromDict(e).m_socket
          /\ FromDict(given).m_user = FromDict(e).m_user
          /\ FromDict(given).m_password = FromDict(e).m_password
          /\ FromDict(given).m_db = FromDict(e).m_db
          /\ FromDict(given).m_isDbSet = FromDict(e).m_isDbSet
          /\ FromDict(given).m_autoReconnect = FromDict(e).m_autoReconnect
          /\ FromDict(given).m_charset = FromDict(e).m_charset
          /\ FromDict(given).m_connectTimeout = FromDict(e).m_connectTimeout
        <3>1. FromDict(given).m_isSetSocket /\ FromDict(e).m_isSetSocket
            BY <2>3, FromDictFields
        <3>2. /\ FromDict(given).m_socket = FromDict(e).m_socket
              /\ FromDict(given).m_user = FromDict(e).m_user
              /\ FromDict(given).m_password = FromDict(e).m_password
              /\ FromDict(given).m_db = FromDict(e).m_db
              /\ FromDict(given).m_charset = FromDict(e).m_charset
            <4>1. /\ TextOr(given, "socketPath", "") = TextOr(e, "socketPath", "")
                  /\ TextOr(given, "user", "root") = TextOr(e, "user", "root")
                  /\ TextOr(given, "password", "") = TextOr(e, "password", "")
                  /\ TextOr(given, "database", "") = TextOr(e, "database", "")
                  /\ TextOr(given, "charset", "utf8") = TextOr(e, "charset", "utf8")
                BY <2>4, Zenon
            <4>. QED  BY <4>1, FromDictFields, Zenon
        <3>3. FromDict(given).m_connectTimeout = FromDict(e).m_connectTimeout
            BY <2>5, FromDictFields
        <3>4. FromDict(given).m_isDbSet = FromDict(e).m_isDbSet
            BY <2>6, FromDictFields
        <3>5. FromDict(given).m_autoReconnect = FromDict(e).m_autoReconnect
            BY <2>7, FromDictFields
        <3>. QED  BY <3>1, <3>2, <3>3, <3>4, <3>5
    <2>9. SqlOptions(FromDict(given)) = SqlOptions(FromDict(e))
        BY <2>8, SocketOpensTheSame, Zenon
    <2>. QED  BY <2>9 DEF e
<1>. QED  BY <1>1, OptionsInvariant, PTL

\* An option with its documented default reads as if it were left out:
\* src/ConnectionOptions.cpp:13-91.
LEMMA DefaultReads ==
    ASSUME NEW d, NEW e, NEW o \in DOMAIN Documented,
           Agree(d, e, o) \/ (Has(d, o) /\ d[o] = Documented[o] /\ ~Has(e, o))
    PROVE  /\ o \in TextOption => TextOr(d, o, Documented[o]) = TextOr(e, o, Documented[o])
           /\ o \in NumberOption => IntOr(d, o, Documented[o]) = IntOr(e, o, Documented[o])
           /\ o = "reconnect" => IsTrue(d, o) = IsTrue(e, o)
<1>1. CASE Agree(d, e, o)
    <2>1. /\ TextOr(d, o, Documented[o]) = TextOr(e, o, Documented[o])
          /\ IntOr(d, o, Documented[o]) = IntOr(e, o, Documented[o])
        BY <1>1, TextAgrees, IntAgrees
    <2>2. IsTrue(d, o) = IsTrue(e, o)
        BY <1>1, TruthAgrees
    <2>. QED  BY <2>1, <2>2
<1>2. CASE Has(d, o) /\ d[o] = Documented[o] /\ ~Has(e, o)
    <2>1. ASSUME o \in TextOption PROVE ToText(Documented[o]) = Documented[o]
        <3>1. Documented[o] \in Text
            <4>1. o \in {"host", "user", "password", "charset"}
                BY <2>1 DEF Documented, TextOption
            <4>2. /\ Documented["host"] = "localhost" /\ Documented["user"] = "root"
                  /\ Documented["password"] = "" /\ Documented["charset"] = "utf8"
                BY DEF Documented
            <4>. QED  BY <4>1, <4>2, TextAssumption
        <3>. QED  BY <3>1, UndefinedAssumption DEF ToText
    <2>2. ASSUME o \in NumberOption PROVE ToInt(ToUint32(Documented[o])) = Documented[o]
        <3>1. o = "port" \/ o = "connectTimeout"
            BY <2>2 DEF Documented, NumberOption
        <3>2. Documented["port"] = DefaultPort /\ Documented["connectTimeout"] = -1
            BY DEF Documented
        <3>3. ToInt(ToUint32(DefaultPort)) = DefaultPort /\ ToInt(ToUint32(-1)) = -1
            BY IntKept, WidthAssumption
        <3>. QED  BY <3>1, <3>2, <3>3, Zenon
    <2>3. o = "reconnect" => ~Documented[o]
        BY DEF Documented
    <2>4. ASSUME o = "reconnect" PROVE IsTrue(d, o) = IsTrue(e, o)
        BY <1>2, <2>3, <2>4 DEF IsTrue, Has
    <2>5. o \in TextOption => TextOr(d, o, Documented[o]) = TextOr(e, o, Documented[o])
        BY <1>2, <2>1, Zenon DEF TextOr
    <2>6. o \in NumberOption => IntOr(d, o, Documented[o]) = IntOr(e, o, Documented[o])
        BY <1>2, <2>2, Zenon DEF IntOr
    <2>. QED  BY <2>4, <2>5, <2>6, Zenon
<1>. QED  BY <1>1, <1>2

\* To give a documented default is to give nothing: README.md:53-64.
THEOREM DefaultsAreAsDocumented == Safe => []DefaultsAsDocumented
<1>1. Inv => DefaultsAsDocumented
    <2>. SUFFICES ASSUME Inv, Opened
                  PROVE  SqlOptions(FromDict(given)) =
                         SqlOptions(FromDict(Restrict(given, Significant(given))))
        BY DEF DefaultsAsDocumented, Inv, Opened
    <2>. DEFINE e == Restrict(given, Significant(given))
    <2>1. ASSUME NEW o
          PROVE  \/ Agree(given, e, o)
                 \/ /\ Has(given, o) /\ ~Has(e, o)
                    /\ o \in DOMAIN Documented /\ given[o] = Documented[o]
        BY DEF Agree, Has, Restrict, Significant
    <2>. HIDE DEF e
    <2>2. /\ "socketPath" \notin DOMAIN Documented /\ "database" \notin DOMAIN Documented
          /\ {"host", "port", "user", "password", "reconnect", "charset", "connectTimeout"}
                \subseteq DOMAIN Documented
          /\ {"host", "user", "password", "charset"} \subseteq TextOption
          /\ {"port", "connectTimeout"} \subseteq NumberOption
        BY DEF Documented, TextOption, NumberOption
    <2>3. Documented["host"] = "localhost" /\ Documented["user"] = "root"
          /\ Documented["password"] = "" /\ Documented["charset"] = "utf8"
        BY DEF Documented
    <2>4. Documented["port"] = DefaultPort /\ Documented["connectTimeout"] = -1
        BY DEF Documented
    <2>5. Agree(given, e, "socketPath") /\ Agree(given, e, "database")
        BY <2>1, <2>2, Zenon
    <2>6. /\ TextOr(given, "host", "localhost") = TextOr(e, "host", "localhost")
          /\ TextOr(given, "user", "root") = TextOr(e, "user", "root")
          /\ TextOr(given, "password", "") = TextOr(e, "password", "")
          /\ TextOr(given, "charset", "utf8") = TextOr(e, "charset", "utf8")
        <3>1. \A o \in {"host", "user", "password", "charset"} :
                 TextOr(given, o, Documented[o]) = TextOr(e, o, Documented[o])
            BY <2>1, <2>2, DefaultReads
        <3>. QED  BY <3>1, <2>3, Zenon
    <2>7. /\ IntOr(given, "port", DefaultPort) = IntOr(e, "port", DefaultPort)
          /\ IntOr(given, "connectTimeout", -1) = IntOr(e, "connectTimeout", -1)
        <3>1. \A o \in {"port", "connectTimeout"} :
                 IntOr(given, o, Documented[o]) = IntOr(e, o, Documented[o])
            BY <2>1, <2>2, DefaultReads
        <3>. QED  BY <3>1, <2>4, Zenon
    <2>8. IsTrue(given, "reconnect") = IsTrue(e, "reconnect")
        BY <2>1, <2>2, DefaultReads
    <2>9. /\ FromDict(given).m_socket = FromDict(e).m_socket
          /\ FromDict(given).m_isSetSocket = FromDict(e).m_isSetSocket
          /\ FromDict(given).m_host = FromDict(e).m_host
          /\ FromDict(given).m_port = FromDict(e).m_port
          /\ FromDict(given).m_user = FromDict(e).m_user
          /\ FromDict(given).m_password = FromDict(e).m_password
          /\ FromDict(given).m_db = FromDict(e).m_db
          /\ FromDict(given).m_isDbSet = FromDict(e).m_isDbSet
          /\ FromDict(given).m_autoReconnect = FromDict(e).m_autoReconnect
          /\ FromDict(given).m_charset = FromDict(e).m_charset
          /\ FromDict(given).m_connectTimeout = FromDict(e).m_connectTimeout
        <3>0. \A default : \A o \in {"socketPath", "database"} :
                 TextOr(given, o, default) = TextOr(e, o, default)
            BY <2>5, TextAgrees
        <3>1. /\ Has(given, "socketPath") = Has(e, "socketPath")
              /\ Has(given, "database") = Has(e, "database")
            BY <2>5, Zenon DEF Agree
        <3>2. /\ FromDict(given).m_socket = FromDict(e).m_socket
              /\ FromDict(given).m_host = FromDict(e).m_host
              /\ FromDict(given).m_user = FromDict(e).m_user
              /\ FromDict(given).m_password = FromDict(e).m_password
              /\ FromDict(given).m_db = FromDict(e).m_db
              /\ FromDict(given).m_charset = FromDict(e).m_charset
            BY <3>0, <2>6, FromDictFields, Zenon
        <3>3. /\ FromDict(given).m_port = FromDict(e).m_port
              /\ FromDict(given).m_connectTimeout = FromDict(e).m_connectTimeout
            BY <2>7, FromDictFields
        <3>4. /\ FromDict(given).m_isSetSocket = FromDict(e).m_isSetSocket
              /\ FromDict(given).m_isDbSet = FromDict(e).m_isDbSet
            BY <3>1, FromDictFields
        <3>5. FromDict(given).m_autoReconnect = FromDict(e).m_autoReconnect
            BY <2>8, FromDictFields
        <3>. QED  BY <3>2, <3>3, <3>4, <3>5
    <2>10. SqlOptions(FromDict(given)) = SqlOptions(FromDict(e))
        BY <2>9, SameFieldsOpenTheSame, Zenon
    <2>. QED  BY <2>10 DEF e
<1>. QED  BY <1>1, OptionsInvariant, PTL

=============================================================================
