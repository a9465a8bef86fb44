--------------------------- MODULE StatementProofs ---------------------------
(***************************************************************************)
(* Proofs about Statement, for result sets of any size: every object a     *)
(* call allocates is accounted for at each of its steps, and the rows made *)
(* of a result set are, at each column, what has been read of it.          *)
(***************************************************************************)
EXTENDS Statement, SequenceTheorems, TLAPS

-----------------------------------------------------------------------------
(* The inductive invariant.                                                *)

\* The first n columns of a row of values, as createRow's map has them.
FirstOf(columns, name) ==
    CHOOSE i \in DOMAIN columns :
        columns[i] = name /\ \A k \in 1..i - 1 : columns[k] # name

Part(columns, values, n) ==
    [name \in {columns[k] : k \in 1..n} |-> AsText(values[FirstOf(columns, name)])]

Values == UNION {[1..n -> Value] : n \in Nat}

Objects == {Part(c, v, Len(c)) : c \in Columns, v \in Values}

Heap == [task : Int, handle : Int, parameters : Int, list : Int, row : Int]

\* Where a call can be and with what.
Stages ==
    /\ pc \in {"idle", "queued", "fetching", "finished", "answered"}
    /\ method \in Method
    /\ callback \in BOOLEAN /\ m_exception \in BOOLEAN
    /\ column \in Nat /\ refused \in 0..MaxRefused
    /\ rows \in Seq(Objects)
    /\ Len(result.columns) \in Nat
    /\ column # 0 => pc = "fetching"
    /\ pc = "queued" => rows = <<>>
    /\ m_exception => rows = <<>>
    /\ pc \in {"queued", "fetching"} => ~m_exception
    /\ pc = "fetching" => method \in Fetch \cup {"executeId"}
    /\ method \notin Fetch => rows = <<>>
    /\ pc = "fetching" /\ method = "fetchRow" => rows = <<>>

\* The live objects of each kind.
TaskAccount == heap.task = refused + (IF pc = "idle" THEN 0 ELSE 1)

HandleAccount == heap.handle = IF pc # "idle" /\ callback THEN 1 ELSE 0

ParametersAccount == heap.parameters = IF pc # "idle" /\ method \in Query THEN 1 ELSE 0

ListAccount ==
    heap.list = IF /\ method = "fetchAll"
                   /\ pc = "fetching" \/ (pc \in {"finished", "answered"} /\ ~m_exception)
                THEN 1 ELSE 0

RowAccount == heap.row = IF pc = "idle" THEN 0 ELSE Made

Accounts ==
    /\ heap \in Heap
    /\ TaskAccount /\ HandleAccount /\ ParametersAccount /\ ListAccount /\ RowAccount

\* What has been read of the result set.
Reading ==
    method \in Fetch /\ pc \in {"fetching", "finished", "answered"} /\ ~m_exception =>
        /\ result \in ResultSet
        /\ Len(rows) <= Len(result.rows)
        /\ \A i \in 1..Len(rows) :
              rows[i] = Part(result.columns, result.rows[i], Len(result.columns))
        /\ column # 0 =>
              /\ column <= Len(result.columns) + 1
              /\ Len(rows) < Len(result.rows)
              /\ row = Part(result.columns, result.rows[Len(rows) + 1], column - 1)
        /\ pc # "fetching" =>
              /\ method = "fetchAll" => Len(rows) = Len(result.rows)
              /\ method = "fetchRow" => Len(rows) = 1 \/ result.rows = <<>>

Answered == pc = "answered" => answer = IF callback THEN Answer ELSE Nothing

Sizes ==
    /\ Len(result.rows) \in Nat
    /\ column <= Len(result.columns) + 1
    /\ Len(rows) <= Len(result.rows)
    /\ answer # Nothing => callback

Inv == Stages /\ Accounts /\ Reading /\ Answered /\ Sizes

-----------------------------------------------------------------------------
(* Objects are accounted for.                                              *)

StagesAndAccounts == Stages /\ Accounts

LEMMA CallAccounts ==
    ASSUME StagesAndAccounts, NEW m \in Method, NEW a \in Argument, Call(m, a)
    PROVE  StagesAndAccounts'
<1>. USE DEF StagesAndAccounts, Accounts, Heap
<1>1. ASSUME NEW leavesTask \in BOOLEAN, Refuse(m, leavesTask)
      PROVE  StagesAndAccounts'
    <2>. DEFINE d == IF leavesTask /\ m \in Fetch THEN 1 ELSE 0
    <2>1. d \in {0, 1} /\ (d = 1 => refused < MaxRefused)
        BY <1>1 DEF Refuse
    <2>2. /\ heap' = [heap EXCEPT !.task = @ + d] /\ refused' = refused + d
          /\ UNCHANGED <<pc, method, callback, workVars, m_exception>>
        BY <1>1 DEF Refuse
    <2>3. pc = "idle"
        BY DEF Call
    <2>. HIDE DEF d
    <2>4. Stages'
        BY <2>1, <2>2, StatementAssumption DEF Stages, workVars
    <2>5. /\ heap' \in Heap /\ heap'.task = heap.task + d /\ heap'.handle = heap.handle
          /\ heap'.parameters = heap.parameters /\ heap'.list = heap.list
          /\ heap'.row = heap.row
        BY <2>1, <2>2
    <2>6. TaskAccount'
        BY <2>1, <2>2, <2>3, <2>5, StatementAssumption DEF TaskAccount, Stages
    <2>7. HandleAccount' /\ ParametersAccount' /\ ListAccount' /\ RowAccount'
        BY <2>2, <2>3, <2>5
           DEF HandleAccount, ParametersAccount, ListAccount, RowAccount, Made, workVars
    <2>. QED  BY <2>4, <2>5, <2>6, <2>7
<1>2. ASSUME Queue(m, a), pc = "idle" PROVE StagesAndAccounts'
    <2>. DEFINE h == IF a.callback = "function" THEN 1 ELSE 0
                q == IF m \in Query THEN 1 ELSE 0
    <2>1. h \in {0, 1} /\ q \in {0, 1}
        OBVIOUS
    <2>2. /\ heap' = [heap EXCEPT !.task = @ + 1, !.handle = @ + h, !.parameters = @ + q]
          /\ UNCHANGED refused
          /\ pc' = "queued" /\ method' = m /\ callback' = (a.callback = "function")
          /\ result' = NoResult /\ rows' = <<>> /\ column' = 0 /\ m_exception' = FALSE
        BY <1>2 DEF Queue
    <2>3. Stages'
        <3>1. Len(result'.columns) \in Nat
            BY <2>2 DEF NoResult
        <3>2. rows' \in Seq(Objects)
            BY <2>2
        <3>. QED  BY <2>2, <3>1, <3>2 DEF Stages
    <2>. HIDE DEF h, q
    <2>4. /\ heap' \in Heap /\ heap'.task = heap.task + 1 /\ heap'.handle = heap.handle + h
          /\ heap'.parameters = heap.parameters + q /\ heap'.list = heap.list
          /\ heap'.row = heap.row
        <3>. DEFINE h1 == [heap EXCEPT !.task = @ + 1]
                    h2 == [h1 EXCEPT !.handle = @ + h]
                    h3 == [h2 EXCEPT !.parameters = @ + q]
        <3>1. heap' = h3
            BY <2>2
        <3>2. /\ h1 \in Heap /\ h1.task = heap.task + 1 /\ h1.handle = heap.handle
              /\ h1.parameters = heap.parameters /\ h1.list = heap.list /\ h1.row = heap.row
            OBVIOUS
        <3>. HIDE DEF h1
        <3>3. /\ h2 \in Heap /\ h2.task = h1.task /\ h2.handle = h1.handle + h
              /\ h2.parameters = h1.parameters /\ h2.list = h1.list /\ h2.row = h1.row
            BY <2>1, <3>2
        <3>. HIDE DEF h2
        <3>4. /\ h3 \in Heap /\ h3.task = h2.task /\ h3.handle = h2.handle
              /\ h3.parameters = h2.parameters + q /\ h3.list = h2.list /\ h3.row = h2.row
            BY <2>1, <3>3
        <3>. HIDE DEF h3
        <3>. QED  BY <3>1, <3>2, <3>3, <3>4
    <2>5. TaskAccount'
        BY <1>2, <2>2, <2>4, StatementAssumption DEF TaskAccount, Stages
    <2>6. HandleAccount'
        <3>1. heap.handle = 0
            BY <1>2 DEF HandleAccount
        <3>2. heap'.handle = IF a.callback = "function" THEN 1 ELSE 0
            BY <2>1, <2>4, <3>1 DEF h
        <3>3. CASE a.callback = "function"
            BY <2>2, <3>2, <3>3 DEF HandleAccount
        <3>4. CASE a.callback # "function"
            BY <2>2, <3>2, <3>4 DEF HandleAccount
        <3>. QED  BY <3>3, <3>4
    <2>7. ParametersAccount'
        BY <1>2, <2>1, <2>2, <2>4 DEF ParametersAccount, q
    <2>8. ListAccount'
        BY <1>2, <2>2, <2>4 DEF ListAccount
    <2>9. RowAccount'
        BY <1>2, <2>2, <2>4 DEF RowAccount, Made
    <2>. QED  BY <2>3, <2>4, <2>5, <2>6, <2>7, <2>8, <2>9
<1>. QED  BY <1>1, <1>2 DEF Call, ParseAndRun, RunTransaction

\* What the threads do leaves the task, its callback and its parameters alone.
LEMMA WorkKeeps ==
    ASSUME StagesAndAccounts, Work
    PROVE  /\ pc \in {"queued", "fetching"} /\ pc' \in {"fetching", "finished"}
           /\ UNCHANGED <<method, callback, refused, answer>>
<1>1. column # 0 => pc = "fetching" /\ column \in Nat /\ Len(result.columns) \in Nat
    BY DEF StagesAndAccounts, Stages
<1>2. column > Len(result.columns) \/ column \in 1..Len(result.columns) => pc = "fetching"
    BY DEF StagesAndAccounts, Stages
<1>3. CASE Executed \/ ExecuteThrows \/ GotResult
    BY <1>3 DEF Executed, ExecuteThrows, GotResult, Finish
<1>4. CASE BeginRow \/ AddColumn \/ EndOfRows \/ FetchThrows
    BY <1>2, <1>4 DEF BeginRow, AddColumn, EndOfRows, FetchThrows, Finish
<1>5. CASE EndRow
    BY <1>2, <1>5 DEF EndRow, Finish
<1>. QED  BY <1>3, <1>4, <1>5 DEF Work

\* The parts of a result set.
LEMMA ResultParts ==
    ASSUME NEW t \in ResultSet
    PROVE  /\ t.columns \in Columns
           /\ Len(t.rows) \in 0..MaxRows
           /\ t.rows \in [1..Len(t.rows) -> [1..Len(t.columns) -> Value]]
<1>. DEFINE R(c) == UNION {[1..n -> [1..Len(c) -> Value]] : n \in 0..MaxRows}
<1>1. PICK c \in Columns : t \in [columns : {c}, rows : R(c)]
    BY Zenon DEF ResultSet
<1>2. t.columns = c /\ t.rows \in R(c)
    <2>. HIDE DEF R
    <2>. QED  BY <1>1, Zenon
<1>3. PICK k \in 0..MaxRows : t.rows \in [1..k -> [1..Len(c) -> Value]]
    BY <1>2, Zenon
<1>4. Len(t.rows) = k
    BY <1>3, StatementAssumption
<1>. QED  BY <1>2, <1>3, <1>4, Zenon

\* A row that has all its columns.
LEMMA RowIsWhole ==
    ASSUME Stages, Reading, EndRow, method \in Fetch
    PROVE  /\ row = Part(result.columns, result.rows[Len(rows) + 1], Len(result.columns))
           /\ row \in Objects
           /\ Len(rows) \in Nat /\ Len(rows) < Len(result.rows)
<1>1. column > Len(result.columns) /\ column # 0 /\ pc = "fetching" /\ ~m_exception
      /\ column \in Nat /\ Len(result.columns) \in Nat
    BY DEF EndRow, Stages
<1>2. /\ result \in ResultSet
      /\ column <= Len(result.columns) + 1
      /\ Len(rows) < Len(result.rows)
      /\ row = Part(result.columns, result.rows[Len(rows) + 1], column - 1)
    BY <1>1 DEF Reading
<1>3. column - 1 = Len(result.columns)
    BY <1>1, <1>2
<1>4. row = Part(result.columns, result.rows[Len(rows) + 1], Len(result.columns))
    BY <1>2, <1>3
<1>5. Len(rows) \in Nat
    BY LenProperties DEF Stages
<1>. DEFINE c == result.columns
            k == Len(result.rows)
<1>6. c \in Columns /\ k \in 0..MaxRows /\ result.rows \in [1..k -> [1..Len(c) -> Value]]
    BY <1>2, ResultParts
<1>7. k \in Nat
    BY <1>6, StatementAssumption
<1>8. result.rows[Len(rows) + 1] \in [1..Len(c) -> Value]
    BY <1>2, <1>5, <1>6, <1>7
<1>9. result.rows[Len(rows) + 1] \in Values
    BY <1>1, <1>6, <1>8 DEF Values
<1>. QED  BY <1>2, <1>4, <1>5, <1>6, <1>9 DEF Objects

LEMMA WorkStages ==
    ASSUME StagesAndAccounts, Reading, Work
    PROVE  Stages'
<1>. USE DEF Stages
<1>. USE DEF StagesAndAccounts
<1>1. CASE Executed \/ ExecuteThrows
    BY <1>1 DEF Executed, ExecuteThrows, Finish, workVars, Fetch
<1>2. CASE GotResult
    <2>1. /\ pc = "queued" /\ pc' = "fetching" /\ method \in Fetch \cup {"executeId"}
          /\ UNCHANGED <<method, callback, rows, row, column, m_exception, refused>>
        BY <1>2 DEF GotResult
    <2>2. Len(result'.columns) \in Nat
        <3>1. CASE method \in Fetch
            <4>1. result' \in ResultSet
                BY <1>2, <3>1 DEF GotResult
            <4>. QED  BY <4>1, ResultParts, StatementAssumption
        <3>2. CASE method \notin Fetch
            BY <1>2, <3>2 DEF GotResult, InsertIdResults
        <3>. QED  BY <3>1, <3>2
    <2>. QED  BY <2>1, <2>2
<1>3. CASE BeginRow \/ AddColumn
    BY <1>3 DEF BeginRow, AddColumn
<1>4. CASE EndRow
    <2>1. /\ pc = "fetching" /\ column' = 0
          /\ UNCHANGED <<result, method, callback, refused>>
        BY <1>4 DEF EndRow, Finish
    <2>2. CASE method = "fetchAll" /\ rows' = Append(rows, row)
               /\ UNCHANGED <<pc, m_exception>>
        BY <1>4, <2>1, <2>2, RowIsWhole, AppendProperties DEF Fetch
    <2>3. CASE method = "fetchRow" /\ rows' = Append(rows, row) /\ Finish(FALSE)
        BY <1>4, <2>1, <2>3, RowIsWhole, AppendProperties DEF Fetch, Finish
    <2>4. CASE method = "executeId" /\ UNCHANGED rows /\ Finish(FALSE)
        BY <1>4, <2>1, <2>4 DEF Finish
    <2>. QED  BY <1>4, <2>2, <2>3, <2>4 DEF EndRow
<1>5. CASE EndOfRows
    <2>1. CASE method = "executeId"
        BY <1>5, <2>1 DEF EndOfRows, Finish, workVars, Fetch
    <2>2. CASE method # "executeId"
        BY <1>5, <2>2 DEF EndOfRows, Finish, workVars
    <2>. QED  BY <2>1, <2>2
<1>6. CASE FetchThrows
    <2>1. <<>> \in Seq(Objects)
        OBVIOUS
    <2>. QED  BY <1>6, <2>1 DEF FetchThrows, Finish
<1>. QED  BY <1>1, <1>2, <1>3, <1>4, <1>5, <1>6 DEF Work

LEMMA MadeIsNat == Stages => Made \in Nat /\ Len(rows) \in Nat
BY LenProperties DEF Stages, Made

\* The accounts that no thread touches.
LEMMA WorkKeepsAccounts ==
    ASSUME StagesAndAccounts, Work, heap' \in Heap,
           heap'.task = heap.task, heap'.handle = heap.handle,
           heap'.parameters = heap.parameters, ListAccount', RowAccount'
    PROVE  Accounts'
<1>1. TaskAccount'
    BY WorkKeeps DEF TaskAccount, StagesAndAccounts, Accounts
<1>2. HandleAccount'
    BY WorkKeeps DEF HandleAccount, StagesAndAccounts, Accounts
<1>3. ParametersAccount'
    BY WorkKeeps DEF ParametersAccount, StagesAndAccounts, Accounts
<1>. QED  BY <1>1, <1>2, <1>3 DEF Accounts

LEMMA WorkAccounts ==
    ASSUME StagesAndAccounts, Work
    PROVE  Accounts'
<1>. USE DEF StagesAndAccounts, Heap
<1>0. /\ heap \in Heap
      /\ heap.list = IF /\ method = "fetchAll"
                        /\ pc = "fetching" \/ (pc \in {"finished", "answered"} /\ ~m_exception)
                     THEN 1 ELSE 0
      /\ heap.row = IF pc = "idle" THEN 0 ELSE Made
      /\ Made \in Nat /\ Len(rows) \in Nat
    BY MadeIsNat DEF Accounts, ListAccount, RowAccount
<1>1. CASE Executed \/ ExecuteThrows
    <2>1. /\ pc = "queued" /\ pc' = "finished" /\ UNCHANGED <<heap, rows, column, method>>
          /\ m_exception' \/ method # "fetchAll"
        BY <1>1 DEF Executed, ExecuteThrows, Finish, workVars, Fetch
    <2>2. ListAccount'
        BY <1>0, <2>1 DEF ListAccount
    <2>3. RowAccount'
        BY <1>0, <2>1 DEF RowAccount, Made
    <2>. QED  BY <1>0, <2>1, <2>2, <2>3, WorkKeepsAccounts
<1>2. CASE GotResult
    <2>. DEFINE l == IF method = "fetchAll" THEN 1 ELSE 0
    <2>1. /\ pc = "queued" /\ pc' = "fetching" /\ UNCHANGED <<rows, column, method>>
          /\ heap' = [heap EXCEPT !.list = @ + l]
        BY <1>2 DEF GotResult
    <2>2. l \in {0, 1} /\ heap.list = 0
        BY <1>0, <2>1
    <2>. HIDE DEF l
    <2>3. /\ heap' \in Heap /\ heap'.task = heap.task /\ heap'.handle = heap.handle
          /\ heap'.parameters = heap.parameters /\ heap'.list = l
          /\ heap'.row = heap.row
        BY <1>0, <2>1, <2>2
    <2>4. ListAccount'
        BY <2>1, <2>3 DEF ListAccount, l
    <2>5. RowAccount'
        BY <1>0, <2>1, <2>3 DEF RowAccount, Made
    <2>. QED  BY <2>3, <2>4, <2>5, WorkKeepsAccounts
<1>3. CASE BeginRow
    <2>1. /\ pc = "fetching" /\ column = 0 /\ column' = 1
          /\ heap' = [heap EXCEPT !.row = @ + 1]
          /\ UNCHANGED <<pc, method, m_exception, rows>>
        BY <1>3 DEF BeginRow
    <2>2. /\ heap' \in Heap /\ heap'.task = heap.task /\ heap'.handle = heap.handle
          /\ heap'.parameters = heap.parameters /\ heap'.list = heap.list
          /\ heap'.row = heap.row + 1
        BY <1>0, <2>1
    <2>3. ListAccount'
        BY <1>0, <2>1, <2>2 DEF ListAccount
    <2>4. RowAccount'
        BY <1>0, <2>1, <2>2 DEF RowAccount, Made
    <2>. QED  BY <2>2, <2>3, <2>4, WorkKeepsAccounts
<1>4. CASE AddColumn
    <2>1. /\ column \in Nat /\ column > 0 /\ column' = column + 1
          /\ UNCHANGED <<pc, method, m_exception, rows, heap>>
        BY <1>4 DEF AddColumn, Stages
    <2>2. ListAccount'
        BY <1>0, <2>1 DEF ListAccount
    <2>3. RowAccount'
        BY <1>0, <2>1 DEF RowAccount, Made
    <2>. QED  BY <1>0, <2>1, <2>2, <2>3, WorkKeepsAccounts
<1>5. CASE EndRow
    <2>1. /\ column \in Nat /\ column > 0 /\ column' = 0 /\ pc = "fetching"
          /\ heap.row = Len(rows) + 1 /\ ~m_exception
          /\ UNCHANGED method
        BY <1>0, <1>5 DEF EndRow, Stages, Made, Finish
    <2>2. CASE method \in Fetch
        <3>1. rows' = Append(rows, row) /\ UNCHANGED heap
            BY <1>5, <2>2 DEF EndRow, Fetch
        <3>2. ASSUME method = "fetchAll" PROVE ListAccount'
            <4>1. UNCHANGED <<pc, m_exception>>
                BY <1>5, <3>2 DEF EndRow
            <4>. QED  BY <1>0, <2>1, <3>1, <3>2, <4>1 DEF ListAccount
        <3>3. ASSUME method = "fetchRow" PROVE ListAccount'
            BY <1>0, <2>1, <3>1, <3>3 DEF ListAccount
        <3>4. Len(rows') = Len(rows) + 1
            BY <3>1, AppendProperties DEF Stages
        <3>5. pc' \in {"fetching", "finished"}
            BY WorkKeeps
        <3>6. RowAccount'
            BY <1>0, <2>1, <3>1, <3>4, <3>5 DEF RowAccount, Made
        <3>. QED  BY <1>0, <2>2, <3>1, <3>2, <3>3, <3>6, WorkKeepsAccounts DEF Fetch
    <2>3. CASE method = "executeId"
        <3>1. heap' = [heap EXCEPT !.row = @ - 1] /\ UNCHANGED rows
            BY <1>5, <2>3 DEF EndRow
        <3>2. /\ heap' \in Heap /\ heap'.task = heap.task /\ heap'.handle = heap.handle
              /\ heap'.parameters = heap.parameters /\ heap'.list = heap.list
              /\ heap'.row = heap.row - 1
            BY <1>0, <3>1
        <3>3. pc' \in {"fetching", "finished"}
            BY WorkKeeps
        <3>4. ListAccount'
            BY <1>0, <2>1, <2>3, <3>2 DEF ListAccount
        <3>5. RowAccount'
            BY <1>0, <2>1, <3>1, <3>2, <3>3 DEF RowAccount, Made
        <3>. QED  BY <3>2, <3>4, <3>5, WorkKeepsAccounts
    <2>. QED  BY <1>5, <2>2, <2>3 DEF EndRow, Fetch
<1>6. CASE EndOfRows
    <2>1. /\ pc = "fetching" /\ pc' = "finished" /\ (m_exception' <=> method = "executeId")
          /\ UNCHANGED <<heap, rows, column, method>>
        BY <1>6 DEF EndOfRows, Finish, workVars
    <2>2. ListAccount'
        BY <1>0, <2>1 DEF ListAccount
    <2>3. RowAccount'
        BY <1>0, <2>1 DEF RowAccount, Made
    <2>. QED  BY <1>0, <2>1, <2>2, <2>3, WorkKeepsAccounts
<1>7. CASE FetchThrows
    <2>. DEFINE l == IF method = "fetchAll" THEN 1 ELSE 0
                h1 == [heap EXCEPT !.row = @ - Made]
                h2 == [h1 EXCEPT !.list = @ - l]
    <2>1. /\ pc = "fetching" /\ pc' = "finished" /\ m_exception' = TRUE
          /\ rows' = <<>> /\ column' = 0 /\ UNCHANGED method
          /\ heap' = h2
        BY <1>7 DEF FetchThrows, Finish
    <2>2. l \in {0, 1} /\ heap.list = l /\ heap.row = Made
        BY <1>0, <2>1
    <2>. HIDE DEF l
    <2>3. /\ h1 \in Heap /\ h1.task = heap.task /\ h1.handle = heap.handle
          /\ h1.parameters = heap.parameters /\ h1.list = heap.list /\ h1.row = 0
        BY <1>0, <2>2
    <2>. HIDE DEF h1
    <2>4. /\ h2 \in Heap /\ h2.task = h1.task /\ h2.handle = h1.handle
          /\ h2.parameters = h1.parameters /\ h2.list = h1.list - l /\ h2.row = h1.row
        BY <2>2, <2>3
    <2>. HIDE DEF h2
    <2>5. ListAccount'
        <3>1. heap'.list = 0
            BY <2>1, <2>2, <2>3, <2>4
        <3>. QED  BY <2>1, <3>1 DEF ListAccount
    <2>6. RowAccount'
        BY <2>1, <2>3, <2>4 DEF RowAccount, Made
    <2>. QED  BY <2>1, <2>3, <2>4, <2>5, <2>6, WorkKeepsAccounts
<1>. QED  BY <1>1, <1>2, <1>3, <1>4, <1>5, <1>6, <1>7 DEF Work

LEMMA AnswerAccounts ==
    ASSUME StagesAndAccounts, AfterAsyncWork
    PROVE  StagesAndAccounts'
<1>1. /\ pc = "finished" /\ pc' = "answered" /\ column = 0
      /\ UNCHANGED <<method, callback, workVars, m_exception, heap, refused>>
    BY DEF AfterAsyncWork, StagesAndAccounts, Stages
<1>2. Stages'
    BY <1>1 DEF StagesAndAccounts, Stages, workVars
<1>3. TaskAccount' /\ ParametersAccount' /\ ListAccount'
    BY <1>1 DEF StagesAndAccounts, Accounts, TaskAccount, ParametersAccount, ListAccount
<1>4. HandleAccount'
    BY <1>1 DEF StagesAndAccounts, Accounts, HandleAccount
<1>5. RowAccount'
    BY <1>1 DEF StagesAndAccounts, Accounts, RowAccount, Made, workVars
<1>. QED  BY <1>1, <1>2, <1>3, <1>4, <1>5 DEF StagesAndAccounts, Accounts

LEMMA DeleteAccounts ==
    ASSUME StagesAndAccounts, DeleteTask
    PROVE  StagesAndAccounts'
<1>1. /\ pc = "answered" /\ pc' = "idle" /\ column = 0
      /\ UNCHANGED <<method, callback, workVars, m_exception, answer, refused>>
    BY DEF DeleteTask, StagesAndAccounts, Stages
<1>2. Stages'
    BY <1>1 DEF StagesAndAccounts, Stages, workVars
<1>. DEFINE h == IF callback THEN 1 ELSE 0
            q == IF method \in Query THEN 1 ELSE 0
            l == IF method = "fetchAll" /\ ~m_exception THEN 1 ELSE 0
<1>3. heap' = [ task |-> heap.task - 1, handle |-> heap.handle - h,
                parameters |-> heap.parameters - q, list |-> heap.list - l,
                row |-> heap.row - Len(rows) ]
    BY DEF DeleteTask
<1>4. heap.task = refused + 1 /\ refused \in Nat
    BY <1>1, StatementAssumption DEF StagesAndAccounts, Accounts, TaskAccount, Stages
<1>5. heap.handle = h /\ h \in {0, 1}
    BY <1>1 DEF StagesAndAccounts, Accounts, HandleAccount
<1>6. heap.parameters = q /\ q \in {0, 1}
    BY <1>1 DEF StagesAndAccounts, Accounts, ParametersAccount
<1>7. heap.list = l /\ l \in {0, 1}
    BY <1>1 DEF StagesAndAccounts, Accounts, ListAccount
<1>8. heap.row = Len(rows) /\ Len(rows) \in Nat
    BY <1>1, MadeIsNat DEF StagesAndAccounts, Accounts, RowAccount, Made
<1>. HIDE DEF h, q, l
<1>9. heap' = [ task |-> refused, handle |-> 0, parameters |-> 0, list |-> 0, row |-> 0 ]
    BY <1>3, <1>4, <1>5, <1>6, <1>7, <1>8
<1>10. heap' \in Heap
    BY <1>4, <1>9 DEF Heap
<1>11. TaskAccount' /\ ParametersAccount' /\ ListAccount' /\ RowAccount'
    BY <1>1, <1>4, <1>9 DEF TaskAccount, ParametersAccount, ListAccount, RowAccount
<1>12. HandleAccount'
    BY <1>1, <1>9 DEF HandleAccount
<1>. QED  BY <1>2, <1>10, <1>11, <1>12 DEF StagesAndAccounts, Accounts

-----------------------------------------------------------------------------
(* The rows are those of the result set.                                   *)

\* The first column of a name is the first of it among any more columns.
LEMMA FirstIsFirst ==
    ASSUME NEW columns \in Columns, NEW n \in DOMAIN columns,
           \A k \in 1..n - 1 : columns[k] # columns[n]
    PROVE  FirstOf(columns, columns[n]) = n
<1>1. DOMAIN columns = 1..Len(columns) /\ Len(columns) \in Nat
    BY StatementAssumption
<1>2. \A i \in DOMAIN columns :
          columns[i] = columns[n] /\ (\A k \in 1..i - 1 : columns[k] # columns[n]) => i = n
    <2>. SUFFICES ASSUME NEW i \in DOMAIN columns, columns[i] = columns[n],
                         \A k \in 1..i - 1 : columns[k] # columns[n]
                  PROVE  i = n
        OBVIOUS
    <2>1. i \in Nat /\ n \in Nat /\ i >= 1 /\ n >= 1
        BY <1>1
    <2>2. ~(i < n)
        BY <2>1
    <2>3. ~(n < i)
        BY <2>1
    <2>. QED  BY <2>1, <2>2, <2>3
<1>. QED  BY <1>2 DEF FirstOf

\* Adding a column to the map of the columns before it.
LEMMA PartGrows ==
    ASSUME NEW columns \in Columns, NEW values, NEW n \in Nat, n + 1 \in DOMAIN columns
    PROVE  WithColumn(Part(columns, values, n), columns[n + 1], AsText(values[n + 1]))
              = Part(columns, values, n + 1)
<1>. DEFINE p == Part(columns, values, n)
            D == {columns[k] : k \in 1..n}
            name == columns[n + 1]
            E == {columns[k] : k \in 1..n + 1}
<1>1. DOMAIN p = D
    BY DEF Part
<1>2. E = D \cup {name}
    <2>1. 1..n + 1 = 1..n \cup {n + 1}
        OBVIOUS
    <2>. QED  BY <2>1
<1>3. \A x \in D : p[x] = AsText(values[FirstOf(columns, x)])
    BY DEF Part
<1>4. name \notin D => FirstOf(columns, name) = n + 1
    <2>. SUFFICES ASSUME name \notin D PROVE FirstOf(columns, name) = n + 1
        OBVIOUS
    <2>1. \A k \in 1..(n + 1) - 1 : columns[k] # columns[n + 1]
        OBVIOUS
    <2>. QED  BY <2>1, FirstIsFirst
<1>. HIDE DEF D, E, name
<1>5. \A x \in E : (IF x \in D THEN p[x] ELSE AsText(values[n + 1]))
                      = AsText(values[FirstOf(columns, x)])
    BY <1>2, <1>3, <1>4
<1>6. WithColumn(p, name, AsText(values[n + 1]))
         = [x \in E |-> IF x \in D THEN p[x] ELSE AsText(values[n + 1])]
    BY <1>1, <1>2 DEF WithColumn
<1>7. Part(columns, values, n + 1) = [x \in E |-> AsText(values[FirstOf(columns, x)])]
    BY DEF Part, E
<1>. HIDE DEF p
<1>8. WithColumn(p, name, AsText(values[n + 1])) = Part(columns, values, n + 1)
    BY <1>5, <1>6, <1>7
<1>. QED  BY <1>8 DEF p, name

LEMMA WorkReading ==
    ASSUME StagesAndAccounts, Reading, Work
    PROVE  Reading'
<1>. USE DEF StagesAndAccounts
<1>0. Len(rows) \in Nat /\ column \in Nat /\ Len(result.columns) \in Nat
    BY MadeIsNat DEF Stages
<1>1. CASE Executed \/ ExecuteThrows
    BY <1>1 DEF Reading, Executed, ExecuteThrows, Finish
<1>2. CASE GotResult
    <2>1. /\ pc = "queued" /\ pc' = "fetching" /\ rows = <<>> /\ column = 0
          /\ UNCHANGED <<method, rows, column, m_exception>>
          /\ method \in Fetch => result' \in ResultSet
        BY <1>2 DEF GotResult, Stages
    <2>2. result' \in ResultSet => Len(result'.rows) \in Nat
        <3>. SUFFICES ASSUME result' \in ResultSet PROVE Len(result'.rows) \in Nat
            OBVIOUS
        <3>. QED  BY ResultParts, StatementAssumption
    <2>. QED  BY <2>1, <2>2 DEF Reading
<1>3. CASE BeginRow
    <2>1. /\ pc = "fetching" /\ column' = 1 /\ row' = <<>> /\ MoreRows
          /\ UNCHANGED <<pc, method, result, rows, m_exception>>
        BY <1>3 DEF BeginRow
    <2>2. <<>> = Part(result.columns, result.rows[Len(rows) + 1], 0)
        <3>1. {result.columns[k] : k \in 1..0} = {}
            OBVIOUS
        <3>. DEFINE f(name) == AsText(result.rows[Len(rows) + 1][FirstOf(result.columns, name)])
        <3>2. Part(result.columns, result.rows[Len(rows) + 1], 0) = [name \in {} |-> f(name)]
            BY <3>1 DEF Part
        <3>. HIDE DEF f
        <3>3. [name \in {} |-> f(name)] = <<>>
            OBVIOUS
        <3>. QED  BY <3>2, <3>3
    <2>3. Part(result.columns, result.rows[Len(rows) + 1], 0)
            = Part(result.columns, result.rows[Len(rows) + 1], 1 - 1)
        OBVIOUS
    <2>. QED  BY <1>0, <2>1, <2>2, <2>3 DEF Reading, MoreRows
<1>4. CASE AddColumn
    <2>1. /\ column \in 1..Len(result.columns) /\ column' = column + 1
          /\ row' = WithColumn(row, result.columns[column],
                               AsText(result.rows[Len(rows) + 1][column]))
          /\ UNCHANGED <<pc, method, result, rows, m_exception>>
        BY <1>4 DEF AddColumn
    <2>2. CASE method \in Fetch /\ ~m_exception
        <3>1. /\ pc = "fetching" /\ result \in ResultSet /\ Len(rows) < Len(result.rows)
              /\ Len(rows) <= Len(result.rows)
              /\ \A i \in 1..Len(rows) :
                    rows[i] = Part(result.columns, result.rows[i], Len(result.columns))
              /\ row = Part(result.columns, result.rows[Len(rows) + 1], column - 1)
            <4>1. column # 0
                BY <1>0, <2>1
            <4>2. pc = "fetching"
                BY <4>1 DEF Stages
            <4>. QED  BY <2>2, <4>1, <4>2 DEF Reading
        <3>2. result.columns \in Columns
            BY <3>1 DEF ResultSet
        <3>. DEFINE n == column - 1
        <3>3. n \in Nat /\ n + 1 = column /\ n + 1 \in DOMAIN result.columns
            BY <1>0, <2>1, <3>2, StatementAssumption
        <3>4. row' = Part(result.columns, result.rows[Len(rows) + 1], column)
            BY <2>1, <3>1, <3>2, <3>3, PartGrows
        <3>5. column' - 1 = column /\ column' <= Len(result.columns) + 1
            BY <1>0, <2>1
        <3>6. row' = Part(result.columns, result.rows[Len(rows) + 1], column' - 1)
            BY <3>4, <3>5
        <3>. QED  BY <2>1, <3>1, <3>5, <3>6 DEF Reading
    <2>3. CASE ~(method \in Fetch /\ ~m_exception)
        BY <2>1, <2>3 DEF Reading
    <2>. QED  BY <2>2, <2>3
<1>5. CASE EndRow
    <2>1. CASE method \in Fetch
        <3>. DEFINE w == result.rows[Len(rows) + 1]
        <3>1. /\ row = Part(result.columns, w, Len(result.columns))
              /\ row \in Objects
              /\ Len(rows) < Len(result.rows)
            BY <1>5, <2>1, RowIsWhole
        <3>2. /\ rows' = Append(rows, row) /\ column' = 0 /\ UNCHANGED <<result, method>>
              /\ method = "fetchAll" => UNCHANGED pc
              /\ pc = "fetching" /\ ~m_exception
            BY <1>5, <2>1, <1>0 DEF EndRow, Finish, Fetch, Stages
        <3>3. /\ result \in ResultSet
              /\ \A i \in 1..Len(rows) :
                    rows[i] = Part(result.columns, result.rows[i], Len(result.columns))
            BY <2>1, <3>2 DEF Reading
        <3>4. /\ Len(rows') = Len(rows) + 1 /\ rows'[Len(rows) + 1] = row
              /\ \A i \in 1..Len(rows) : rows'[i] = rows[i]
            BY <3>1, <3>2, AppendProperties DEF Stages
        <3>5. Len(result.rows) \in Nat
            BY <3>3, ResultParts, StatementAssumption
        <3>6. Len(rows') <= Len(result.rows)
            BY <1>0, <3>1, <3>4, <3>5
        <3>7. \A i \in 1..Len(rows') :
                  rows'[i] = Part(result.columns, result.rows[i], Len(result.columns))
            <4>. SUFFICES ASSUME NEW i \in 1..Len(rows')
                          PROVE  rows'[i]
                                   = Part(result.columns, result.rows[i], Len(result.columns))
                OBVIOUS
            <4>1. CASE i = Len(rows) + 1
                BY <3>1, <3>4, <4>1
            <4>2. CASE i # Len(rows) + 1
                <5>1. i \in 1..Len(rows)
                    BY <1>0, <3>4, <4>2
                <5>. QED  BY <3>3, <3>4, <5>1
            <4>. QED  BY <4>1, <4>2
        <3>8. method = "fetchRow" => Len(rows') = 1
            BY <3>2, <3>4 DEF Stages
        <3>9. pc' # "fetching" => method # "fetchAll"
            BY <3>2
        <3>10. \A i \in 1..Len(rows') :
                  rows'[i] = Part(result'.columns, result'.rows[i], Len(result'.columns))
            BY <3>2, <3>7
        <3>11. result' \in ResultSet /\ Len(rows') <= Len(result'.rows)
            BY <3>2, <3>3, <3>6
        <3>12. column' = 0 /\ method' = method
            BY <3>2
        <3>. QED  BY <3>8, <3>9, <3>10, <3>11, <3>12 DEF Reading
    <2>2. CASE method \notin Fetch
        BY <1>5, <2>2 DEF EndRow, Finish, Reading, Fetch
    <2>. QED  BY <2>1, <2>2
<1>6. CASE EndOfRows
    <2>1. /\ pc = "fetching" /\ column = 0 /\ ~MoreRows /\ ~m_exception
          /\ UNCHANGED <<rows, row, column, result, method>>
        BY <1>6 DEF EndOfRows, Finish, workVars, Stages
    <2>2. CASE method \in Fetch
        <3>1. /\ result \in ResultSet
              /\ Len(rows) <= Len(result.rows)
              /\ \A i \in 1..Len(rows) :
                    rows[i] = Part(result.columns, result.rows[i], Len(result.columns))
            BY <2>1, <2>2 DEF Reading
        <3>. DEFINE k == Len(result.rows)
        <3>2. /\ result.columns \in Columns
              /\ result.rows \in [1..k -> [1..Len(result.columns) -> Value]]
            BY <3>1, ResultParts
        <3>3. Len(result.rows) = k /\ k \in Nat
            BY <3>1, ResultParts, StatementAssumption
        <3>4. Len(rows) = Len(result.rows)
            BY <1>0, <2>1, <3>1, <3>3 DEF MoreRows
        <3>5. method = "fetchRow" => result.rows = <<>>
            <4>. SUFFICES ASSUME method = "fetchRow" PROVE result.rows = <<>>
                OBVIOUS
            <4>1. rows = <<>>
                BY <2>1 DEF Stages
            <4>2. k = 0
                BY <3>3, <3>4, <4>1
            <4>. QED  BY <3>2, <4>2
        <3>. QED  BY <2>1, <3>1, <3>4, <3>5 DEF Reading
    <2>3. CASE method \notin Fetch
        BY <2>1, <2>3 DEF Reading
    <2>. QED  BY <2>2, <2>3
<1>7. CASE FetchThrows
    BY <1>7 DEF FetchThrows, Finish, Reading
<1>. QED  BY <1>1, <1>2, <1>3, <1>4, <1>5, <1>6, <1>7 DEF Work

LEMMA CallReading ==
    ASSUME Reading, Answered, Sizes, NEW m \in Method, NEW a \in Argument, Call(m, a)
    PROVE  Reading' /\ Answered' /\ Sizes'
<1>1. CASE UNCHANGED <<pc, method, callback, workVars, m_exception, answer>>
    BY <1>1 DEF Reading, Answered, Sizes, Answer, workVars
<1>2. CASE Queue(m, a)
    BY <1>2 DEF Queue, Reading, Answered, Sizes, NoResult
<1>. QED  BY <1>1, <1>2 DEF Call, ParseAndRun, RunTransaction, Refuse

LEMMA WorkSizes ==
    ASSUME StagesAndAccounts, Reading, Sizes, Work
    PROVE  Answered' /\ Sizes'
<1>1. pc' # "answered" /\ UNCHANGED <<callback, answer>>
    BY WorkKeeps
<1>2. Len(rows) \in Nat /\ column \in Nat /\ Len(result.columns) \in Nat
    BY MadeIsNat DEF StagesAndAccounts, Stages
<1>. DEFINE Bounds == /\ Len(result.rows) \in Nat
                      /\ column <= Len(result.columns) + 1
                      /\ Len(rows) <= Len(result.rows)
<1>. SUFFICES Bounds'
    BY <1>1 DEF Sizes, Answered
<1>3. CASE UNCHANGED workVars
    BY <1>3 DEF Sizes, workVars
<1>4. CASE GotResult
    <2>1. rows = <<>> /\ column = 0 /\ UNCHANGED <<rows, column>>
        BY <1>4 DEF GotResult, StagesAndAccounts, Stages
    <2>2. Len(result'.rows) \in Nat /\ Len(result'.columns) \in Nat
        <3>1. CASE method \in Fetch
            <4>1. result' \in ResultSet
                BY <1>4, <3>1 DEF GotResult
            <4>. QED  BY <4>1, ResultParts, StatementAssumption
        <3>2. CASE method \notin Fetch
            BY <1>4, <3>2 DEF GotResult, InsertIdResults
        <3>. QED  BY <3>1, <3>2
    <2>. QED  BY <2>1, <2>2
<1>5. CASE BeginRow \/ AddColumn
    BY <1>2, <1>5 DEF BeginRow, AddColumn, Sizes
<1>6. CASE EndRow
    <2>1. column' = 0 /\ UNCHANGED result
        BY <1>6 DEF EndRow
    <2>2. CASE method \in Fetch
        <3>1. rows' = Append(rows, row)
            BY <1>6, <2>2 DEF EndRow, Fetch
        <3>2. Len(rows) < Len(result.rows)
            BY <1>6, <2>2, RowIsWhole DEF StagesAndAccounts
        <3>3. Len(rows') = Len(rows) + 1
            BY <3>1, AppendProperties DEF StagesAndAccounts, Stages
        <3>. QED  BY <1>2, <2>1, <3>2, <3>3 DEF Sizes
    <2>3. CASE method \notin Fetch
        <3>1. UNCHANGED rows
            BY <1>6, <2>3 DEF EndRow, Fetch
        <3>. QED  BY <1>2, <2>1, <3>1 DEF Sizes
    <2>. QED  BY <2>2, <2>3
<1>7. CASE FetchThrows
    BY <1>2, <1>7 DEF FetchThrows, Sizes
<1>. QED  BY <1>3, <1>4, <1>5, <1>6, <1>7 DEF Work, Executed, ExecuteThrows, EndOfRows

LEMMA EndReading ==
    ASSUME Stages, Reading, Answered, Sizes, AfterAsyncWork \/ DeleteTask
    PROVE  Reading' /\ Answered' /\ Sizes'
<1>1. CASE AfterAsyncWork
    <2>1. /\ pc = "finished" /\ pc' = "answered" /\ column = 0
          /\ answer' = IF callback THEN Answer ELSE Nothing
          /\ UNCHANGED <<method, callback, workVars, m_exception>>
        BY <1>1 DEF AfterAsyncWork, Stages
    <2>2. Reading'
        BY <2>1 DEF Reading, workVars
    <2>3. Answered'
        BY <2>1 DEF Answered, Answer, workVars
    <2>4. Sizes'
        BY <2>1 DEF Sizes, workVars
    <2>. QED  BY <2>2, <2>3, <2>4
<1>2. CASE DeleteTask
    BY <1>2 DEF DeleteTask, Reading, Answered, Sizes, workVars
<1>. QED  BY <1>1, <1>2

-----------------------------------------------------------------------------
(* The invariant.                                                          *)

LEMMA InvInit == Init => Inv
<1>. SUFFICES ASSUME Init PROVE Inv
    OBVIOUS
<1>1. Stages
    <2>1. rows \in Seq(Objects) /\ rows = <<>> /\ column = 0 /\ pc = "idle"
        BY DEF Init
    <2>2. Len(result.columns) \in Nat
        BY DEF Init, NoResult
    <2>3. callback = FALSE /\ m_exception = FALSE
        BY DEF Init
    <2>4. method \in Method
        BY DEF Init, Method, Query
    <2>5. refused \in 0..MaxRefused
        BY StatementAssumption DEF Init
    <2>. QED  BY <2>1, <2>2, <2>3, <2>4, <2>5 DEF Stages
<1>2. Accounts
    BY DEF Init, Accounts, Heap, Empty, TaskAccount, HandleAccount, ParametersAccount,
           ListAccount, RowAccount
<1>3. Reading /\ Answered
    BY DEF Init, Reading, Answered
<1>4. Sizes
    BY DEF Init, Sizes, NoResult
<1>. QED  BY <1>1, <1>2, <1>3, <1>4 DEF Inv

LEMMA InvNext == Inv /\ [Next]_vars => Inv'
<1>. SUFFICES ASSUME Inv, [Next]_vars PROVE Inv'
    OBVIOUS
<1>. USE DEF Inv, StagesAndAccounts
<1>1. ASSUME NEW m \in Method, NEW a \in Argument, Call(m, a) PROVE Inv'
    BY <1>1, CallAccounts, CallReading
<1>2. CASE Work
    BY <1>2, WorkStages, WorkAccounts, WorkReading, WorkSizes
<1>3. CASE AfterAsyncWork
    BY <1>3, AnswerAccounts, EndReading
<1>4. CASE DeleteTask
    BY <1>4, DeleteAccounts, EndReading
<1>5. CASE UNCHANGED vars
    <2>1. Stages' /\ Reading' /\ Sizes'
        BY <1>5 DEF vars, workVars, Stages, Reading, Sizes
    <2>2. Answered'
        BY <1>5 DEF vars, workVars, Answered, Answer
    <2>3. TaskAccount' /\ ParametersAccount' /\ ListAccount' /\ RowAccount' /\ (heap \in Heap)'
        BY <1>5 DEF vars, workVars, Accounts, TaskAccount, ParametersAccount, ListAccount,
                    RowAccount, Made, Heap
    <2>4. HandleAccount'
        BY <1>5 DEF vars, Accounts, HandleAccount
    <2>. QED  BY <2>1, <2>2, <2>3, <2>4 DEF Accounts
<1>. QED  BY <1>1, <1>2, <1>3, <1>4, <1>5 DEF Next

LEMMA Invariant == Spec => []Inv
BY InvInit, InvNext, PTL DEF Spec, Safe

\* The types of a call's state and of its result, for result sets of any size.
THEOREM TypesAreKept == Spec => []TypeOK
<1>1. Inv => TypeOK
    <2>. SUFFICES ASSUME Inv PROVE TypeOK
        OBVIOUS
    <2>1. heap \in [DOMAIN Empty -> Int]
        BY DEF Inv, Accounts, Heap, Empty
    <2>2. column \in 0..Len(result.columns) + 1
        BY DEF Inv, Stages, Sizes
    <2>. QED  BY <2>1, <2>2 DEF Inv, Stages, Sizes, TypeOK
<1>. QED  BY <1>1, Invariant, PTL

\* No object is deleted twice, wherever a call of the driver throws:
\* src/Connection.cpp:131-168, src/TaskQuery.cpp:7-10, src/TaskQueryFetchAll.cpp:51-60.
THEOREM NothingIsDeletedTwice == Spec => []DeletedOnce
<1>1. Inv => DeletedOnce
    <2>. SUFFICES ASSUME Inv, NEW kind \in DOMAIN heap PROVE heap[kind] >= 0
        BY DEF DeletedOnce
    <2>1. heap \in Heap /\ refused \in Nat /\ Made \in Nat
        BY MadeIsNat, StatementAssumption DEF Inv, Accounts, Stages
    <2>2. heap.task >= 0 /\ heap.row >= 0
        BY <2>1 DEF Inv, Accounts, TaskAccount, RowAccount
    <2>3. heap.parameters >= 0 /\ heap.list >= 0
        BY DEF Inv, Accounts, ParametersAccount, ListAccount
    <2>4. heap.handle >= 0
        <3>1. heap.handle \in {0, 1}
            BY DEF Inv, Accounts, HandleAccount
        <3>. QED  BY <3>1
    <2>. QED  BY <2>1, <2>2, <2>3, <2>4 DEF Heap
<1>. QED  BY <1>1, Invariant, PTL

\* A program whose calls of fetchAll and fetchRow have arguments of the right
\* types loses no memory: src/ConnectionWrapper.cpp:82-149, src/Task.cpp:22-30,
\* src/Connection.cpp:131-184.
THEOREM AcceptedCallsAreDeleted == Spec => []AcceptedCallsLeaveNothing
<1>1. Inv => AcceptedCallsLeaveNothing
    <2>. SUFFICES ASSUME Inv, pc = "idle", refused = 0 PROVE heap = Empty
        BY DEF AcceptedCallsLeaveNothing
    <2>1. heap \in Heap
        BY DEF Inv, Accounts
    <2>2. heap.task = 0
        BY DEF Inv, Accounts, TaskAccount
    <2>3. heap.parameters = 0 /\ heap.list = 0 /\ heap.row = 0
        BY DEF Inv, Accounts, ParametersAccount, ListAccount, RowAccount
    <2>4. heap.handle = 0
        BY DEF Inv, Accounts, HandleAccount
    <2>. QED  BY <2>1, <2>2, <2>3, <2>4 DEF Heap, Empty
<1>. QED  BY <1>1, Invariant, PTL

\* A callback that gets no error gets the whole result, of any number of rows
\* and columns: src/Connection.cpp:131-184, src/TaskQueryFetchAll.cpp:14-49.
THEOREM AnswersAreWhole == Spec => []AnswerIsWhole
<1>1. Inv => AnswerIsWhole
    <2>. SUFFICES ASSUME Inv, pc = "answered", callback, answer # [kind |-> "error"]
                  PROVE  /\ method = "fetchAll" =>
                              answer = [kind |-> "rows",
                                        rows |-> [i \in DOMAIN result.rows |->
                                                    AsObject(result.columns, result.rows[i])]]
                         /\ method = "fetchRow" =>
                              answer = IF result.rows = <<>> THEN [kind |-> "null"]
                                       ELSE [kind |-> "row",
                                             row |-> AsObject(result.columns, result.rows[1])]
        BY DEF AnswerIsWhole
    <2>1. answer = Answer
        BY DEF Inv, Answered
    <2>2. ~m_exception
        BY <2>1 DEF Answer
    <2>. SUFFICES ASSUME method \in Fetch
                  PROVE  /\ method = "fetchAll" =>
                              answer = [kind |-> "rows",
                                        rows |-> [i \in DOMAIN result.rows |->
                                                    AsObject(result.columns, result.rows[i])]]
                         /\ method = "fetchRow" =>
                              answer = IF result.rows = <<>> THEN [kind |-> "null"]
                                       ELSE [kind |-> "row",
                                             row |-> AsObject(result.columns, result.rows[1])]
        BY DEF Fetch
    <2>3. /\ result \in ResultSet
          /\ \A i \in 1..Len(rows) :
                rows[i] = Part(result.columns, result.rows[i], Len(result.columns))
          /\ method = "fetchAll" => Len(rows) = Len(result.rows)
          /\ method = "fetchRow" => Len(rows) = 1 \/ result.rows = <<>>
          /\ Len(rows) <= Len(result.rows)
        BY <2>2 DEF Inv, Reading
    <2>4. rows \in Seq(Objects) /\ Len(rows) \in Nat
        BY MadeIsNat DEF Inv, Stages
    <2>. DEFINE c == result.columns
                k == Len(result.rows)
    <2>5. c \in Columns /\ k \in 0..MaxRows /\ result.rows \in [1..k -> [1..Len(c) -> Value]]
        BY <2>3, ResultParts
    <2>6. k \in Nat /\ Len(result.rows) = k /\ DOMAIN result.rows = 1..k
        BY <2>5, StatementAssumption
    <2>7. ASSUME NEW values
          PROVE  AsObject(c, values) = Part(c, values, Len(c))
        <3>1. DOMAIN c = 1..Len(c)
            BY StatementAssumption
        <3>2. Range(c) = {c[i] : i \in 1..Len(c)}
            BY <3>1 DEF Range
        <3>. QED  BY <3>2 DEF AsObject, Part, FirstOf
    <2>8. ASSUME method = "fetchAll"
          PROVE  answer = [kind |-> "rows",
                           rows |-> [i \in DOMAIN result.rows |->
                                       AsObject(result.columns, result.rows[i])]]
        <3>1. answer = [kind |-> "rows", rows |-> rows]
            BY <2>1, <2>2, <2>8 DEF Answer
        <3>2. DOMAIN rows = 1..k
            BY <2>3, <2>4, <2>6, <2>8
        <3>3. rows = [i \in 1..k |-> rows[i]]
            BY <2>4, <3>2
        <3>4. \A i \in 1..k : rows[i] = AsObject(c, result.rows[i])
            BY <2>3, <2>5, <2>6, <2>7, <2>8
        <3>5. rows = [i \in 1..k |-> AsObject(c, result.rows[i])]
            BY <3>3, <3>4
        <3>. QED  BY <2>5, <2>6, <3>1, <3>5
    <2>9. ASSUME method = "fetchRow"
          PROVE  answer = IF result.rows = <<>> THEN [kind |-> "null"]
                          ELSE [kind |-> "row",
                                row |-> AsObject(result.columns, result.rows[1])]
        <3>1. answer = IF rows = <<>> THEN [kind |-> "null"]
                       ELSE [kind |-> "row", row |-> rows[1]]
            BY <2>1, <2>2, <2>9 DEF Answer
        <3>2. CASE result.rows = <<>>
            <4>1. rows = <<>>
                BY <2>3, <2>4, <3>2, EmptySeq
            <4>. QED  BY <3>1, <3>2, <4>1
        <3>3. CASE result.rows # <<>>
            <4>1. Len(rows) = 1
                BY <2>3, <2>9, <3>3
            <4>2. rows # <<>>
                BY <4>1
            <4>3. rows[1] = Part(result.columns, result.rows[1], Len(result.columns))
                BY <2>3, <4>1
            <4>4. rows[1] = AsObject(c, result.rows[1])
                BY <2>5, <2>7, <4>3
            <4>. QED  BY <2>5, <3>1, <3>3, <4>2, <4>4
        <3>. QED  BY <3>2, <3>3
    <2>. QED  BY <2>8, <2>9
<1>. QED  BY <1>1, Invariant, PTL

=============================================================================
