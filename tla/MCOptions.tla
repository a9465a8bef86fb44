------------------------------ MODULE MCOptions ------------------------------
(* Dictionaries for TLC: every choice of at most three options, with the   *)
(* values at the edges of the integer types and the documented defaults.   *)
EXTENDS Options

ValuesOf(o) ==
    CASE o \in TextOption ->
            {"other"} \cup (IF o \in DOMAIN Documented THEN {Documented[o]} ELSE {})
      [] o = "port" -> {-1, 0, DefaultPort, Half, Undefined}
      [] o = "connectTimeout" -> {-Word, -Half - 1, -2, -1, 0, 1, Second - 1, Second, Half - 1,
                                  Half, Word - 1, Word, Undefined}
      [] o = "pool" -> {-1, 0, 1, Half, Word - 1, Word, Undefined}
      [] o = "reconnect" -> BOOLEAN \cup {Undefined}

MCDicts ==
    {<<>>} \cup
    UNION {UNION {{[o \in {a, b, c} |-> IF o = a THEN v[1] ELSE IF o = b THEN v[2] ELSE v[3]] :
                     v \in ValuesOf(a) \X ValuesOf(b) \X ValuesOf(c)} :
                  c \in Option} : a \in Option, b \in Option}

=============================================================================
