------------------------------ MODULE Statement ------------------------------
(***************************************************************************)
(* One call of a method of a MysqlConnection object after another, each    *)
(* followed from its arguments to its callback: what parseAndRun, execute  *)
(* and runTransaction refuse, how a thread turns the driver's result set   *)
(* into Row objects when any call of the driver may throw, what the        *)
(* callback gets, and who deletes the task, its parameters and its rows.   *)
(*                                                                         *)
(* When several calls are in progress is the matter of Scheduler and       *)
(* Connection; here a call begins when the one before it is over. The      *)
(* heap is a number of live objects of each kind; below 0 it means an      *)
(* object deleted twice.                                                   *)
(***************************************************************************)
EXTENDS Integers, Sequences, FiniteSets, Functions

CONSTANTS
    Columns,    \* the sequences of column names a result set may have
    MaxRows,    \* bound: rows of a result set
    MaxRefused, \* bound: calls of fetchAll and fetchRow that are refused
    Null        \* SQL's NULL

ASSUME StatementAssumption ==
    /\ \A c \in Columns : c \in Seq(STRING) /\ c # <<>>
    /\ MaxRows \in Nat /\ MaxRefused \in Nat
    /\ Null \notin STRING

Fetch == {"fetchAll", "fetchRow"}
Query == Fetch \cup {"execute", "executeId"}
Method == Query \cup {"beginTransaction", "commit", "rollback"}

\* The arguments, as far as the methods tell them apart: the object called on,
\* the query, the binds (an array or another value, of which toString may
\* throw), the callback.
Argument ==
    [ object : {"owns", "released", "foreign"},
      query : {"string", "missing", "other"},
      binds : {"none", "array", "value", "arrayThrows", "valueThrows"},
      callback : {"function", "missing", "other"} ]

\* Values the server sends: a text, a text with a zero byte in it, NULL.
Value == {"text", "text0rest", Null}

\* ResultSet::getString, asStdString and c_str: NULL is an empty string and a
\* text ends at its first zero byte.
AsText(v) == CASE v = Null -> "" [] v = "text0rest" -> "text" [] OTHER -> v

VARIABLES
    pc,             \* where the present call is
    method,         \* its method
    callback,       \* whether it has a callback
    result,         \* the driver's result set: columns and rows of values
    rows,           \* Row objects made of it, in order
    row,            \* the Row object createRow is filling
    column,         \* the next column createRow reads; 0 outside of it
    m_exception,    \* an exception was caught in asyncWork
    answer,         \* what the callback got
    heap,           \* live objects of each kind
    refused         \* calls of fetchAll and fetchRow that left their task

workVars == <<result, rows, row, column>>
vars == <<pc, method, callback, workVars, m_exception, answer, heap, refused>>

Nothing == [kind |-> "nothing"]
Empty == [task |-> 0, handle |-> 0, parameters |-> 0, list |-> 0, row |-> 0]
NoResult == [columns |-> <<>>, rows |-> <<>>]

ResultSet ==
    UNION {[columns : {c}, rows : UNION {[1..n -> [1..Len(c) -> Value]] : n \in 0..MaxRows}] :
              c \in Columns}

\* What fetchRow("SELECT LAST_INSERT_ID()") may get from the server.
InsertIdResults == [columns : {<<"LAST_INSERT_ID()">>}, rows : {<<>>, <<<<"text">>>>}]

Init ==
    /\ pc = "idle"
    /\ method = "execute"
    /\ callback = FALSE
    /\ result = NoResult /\ rows = <<>> /\ row = <<>> /\ column = 0
    /\ m_exception = FALSE
    /\ answer = Nothing
    /\ heap = Empty
    /\ refused = 0

\* The call is over before a task is queued. parseAndRun was given its task and
\* does not delete it when an argument has the wrong type.
Refuse(m, leavesTask) ==
    /\ leavesTask => refused < MaxRefused
    /\ heap' = [heap EXCEPT !.task = @ + (IF leavesTask /\ m \in Fetch THEN 1 ELSE 0)]
    /\ refused' = refused + (IF leavesTask /\ m \in Fetch THEN 1 ELSE 0)
    /\ UNCHANGED <<pc, method, callback, workVars, m_exception, answer>>

\* The task, which owns the parameters and a persistent handle of the callback
\* now, goes to the scheduler.
Queue(m, a) ==
    /\ pc' = "queued"
    /\ method' = m
    /\ callback' = (a.callback = "function")
    /\ result' = NoResult /\ rows' = <<>> /\ row' = <<>> /\ column' = 0
    /\ m_exception' = FALSE
    /\ answer' = Nothing
    /\ heap' = [heap EXCEPT !.task = @ + 1,
                            !.handle = @ + (IF a.callback = "function" THEN 1 ELSE 0),
                            !.parameters = @ + (IF m \in Query THEN 1 ELSE 0)]
    /\ UNCHANGED refused

\* What is no function where a callback goes; the flag fetchLastInsertId comes
\* after the callback, so that with it something is there.
WrongCallback(m, a) == a.callback = "other" \/ (m = "executeId" /\ a.callback = "missing")

\* The arguments of a query. A bind whose toString throws ends the call when it
\* is in an array (a string is made of NULL); as a value of its own it is left
\* out, and the call goes on with a JavaScript exception pending.
ParseAndRun(m, a) ==
    \/ a.query # "string" /\ Refuse(m, TRUE)
    \/ a.query = "string" /\ a.binds = "arrayThrows" /\ Refuse(m, FALSE)
    \/ /\ a.query = "string" /\ a.binds # "arrayThrows"
       /\ \/ WrongCallback(m, a) /\ Refuse(m, TRUE)
          \/ ~WrongCallback(m, a) /\ Queue(m, a)

\* The arguments of beginTransaction, commit and rollback.
RunTransaction(m, a) ==
    \/ WrongCallback(m, a) /\ Refuse(m, FALSE)
    \/ ~WrongCallback(m, a) /\ Queue(m, a)

\* The whole of a method on the main thread.
Call(m, a) ==
    /\ pc = "idle"
    /\ \/ a.object # "owns" /\ Refuse(m, FALSE)
       \/ a.object = "owns" /\ m \in Query /\ ParseAndRun(m, a)
       \/ a.object = "owns" /\ m \notin Query /\ RunTransaction(m, a)

\* asyncWork is over, and the task holds what rows says unless it failed.
Finish(failed) ==
    /\ pc' = "finished"
    /\ m_exception' = failed
    /\ UNCHANGED <<method, callback, answer, refused>>

\* The driver executes the statement, or the two calls of a commit.
Executed ==
    /\ pc = "queued" /\ method \notin Fetch \cup {"executeId"}
    /\ Finish(FALSE)
    /\ UNCHANGED <<workVars, heap>>

ExecuteThrows ==
    /\ pc = "queued"
    /\ Finish(TRUE)
    /\ UNCHANGED <<workVars, heap>>

\* The driver has a result set: fetchAll makes its list. For executeId this is
\* the second query of the task, made as fetchRow makes its own.
GotResult ==
    /\ pc = "queued" /\ method \in Fetch \cup {"executeId"}
    /\ result' \in (IF method \in Fetch THEN ResultSet ELSE InsertIdResults)
    /\ pc' = "fetching"
    /\ heap' = [heap EXCEPT !.list = @ + (IF method = "fetchAll" THEN 1 ELSE 0)]
    /\ UNCHANGED <<method, callback, rows, row, column, m_exception, answer, refused>>

MoreRows == Len(rows) < Len(result.rows)

\* result->next() is true and createRow begins.
BeginRow ==
    /\ pc = "fetching" /\ column = 0 /\ MoreRows
    /\ column' = 1
    /\ row' = <<>>
    /\ heap' = [heap EXCEPT !.row = @ + 1]
    /\ UNCHANGED <<pc, method, callback, result, rows, m_exception, answer, refused>>

\* std::map::insert keeps what is there.
WithColumn(r, name, text) ==
    [n \in DOMAIN r \cup {name} |-> IF n \in DOMAIN r THEN r[n] ELSE text]

AddColumn ==
    /\ column \in 1..Len(result.columns)
    /\ row' = WithColumn(row, result.columns[column],
                         AsText(result.rows[Len(rows) + 1][column]))
    /\ column' = column + 1
    /\ UNCHANGED <<pc, method, callback, result, rows, m_exception, answer, heap, refused>>

\* createRow returns. fetchAll asks for the next row; fetchRow has its row, and
\* executeId deletes it when it has read the id.
EndRow ==
    /\ column > Len(result.columns)
    /\ column' = 0
    /\ \/ /\ method = "fetchAll"
          /\ rows' = Append(rows, row)
          /\ UNCHANGED <<pc, method, callback, m_exception, answer, heap, refused>>
       \/ /\ method = "fetchRow"
          /\ rows' = Append(rows, row)
          /\ Finish(FALSE)
          /\ UNCHANGED heap
       \/ /\ method = "executeId"
          /\ heap' = [heap EXCEPT !.row = @ - 1]
          /\ Finish(FALSE)
          /\ UNCHANGED rows
    /\ UNCHANGED <<result, row>>

\* result->next() is false. executeId throws when there is no row for the id.
EndOfRows ==
    /\ pc = "fetching" /\ column = 0 /\ ~MoreRows
    /\ Finish(method = "executeId")
    /\ UNCHANGED <<workVars, heap>>

\* Rows made so far, the one in createRow included.
Made == Len(rows) + (IF column > 0 THEN 1 ELSE 0)

\* Mutant: createRow does not delete its row.
FetchThrowsLeavesRow ==
    /\ pc = "fetching"
    /\ heap' = [heap EXCEPT !.row = @ - Len(rows),
                            !.list = @ - (IF method = "fetchAll" THEN 1 ELSE 0)]
    /\ rows' = <<>> /\ column' = 0
    /\ Finish(TRUE)
    /\ UNCHANGED <<result, row>>

\* Mutant: the task keeps the rows that the deleter deleted.
FetchThrowsKeepsRows ==
    /\ pc = "fetching"
    /\ heap' = [heap EXCEPT !.row = @ - Made,
                            !.list = @ - (IF method = "fetchAll" THEN 1 ELSE 0)]
    /\ column' = 0
    /\ Finish(TRUE)
    /\ UNCHANGED <<result, row, rows>>

\* Mutant: fetchAll catches the exception and returns the rows it has.
FetchThrowsPartial ==
    /\ pc = "fetching"
    /\ heap' = [heap EXCEPT !.row = @ - (Made - Len(rows))]
    /\ column' = 0
    /\ Finish(FALSE)
    /\ UNCHANGED <<result, row, rows>>

\* A call of the driver throws while the result is read: createRow deletes its
\* row, the deleter in fetchAll the others and the list; the task has no rows.
FetchThrows ==
    /\ pc = "fetching"
    /\ heap' = [heap EXCEPT !.row = @ - Made,
                            !.list = @ - (IF method = "fetchAll" THEN 1 ELSE 0)]
    /\ rows' = <<>> /\ column' = 0
    /\ Finish(TRUE)
    /\ UNCHANGED <<result, row>>

\* What a method's callback gets after its error argument.
Answer ==
    CASE m_exception -> [kind |-> "error"]
      [] ~m_exception /\ method = "fetchAll" -> [kind |-> "rows", rows |-> rows]
      [] ~m_exception /\ method = "fetchRow" ->
            IF rows = <<>> THEN [kind |-> "null"] ELSE [kind |-> "row", row |-> rows[1]]
      [] OTHER -> [kind |-> "done"]

\* Mutant: the callback is called without a look at m_callback.
AfterAsyncWorkUnchecked ==
    /\ pc = "finished"
    /\ pc' = "answered"
    /\ answer' = Answer
    /\ UNCHANGED <<method, callback, workVars, m_exception, heap, refused>>

\* Mutant: a task that failed is not called back and not deleted.
AfterAsyncWorkUnlessFailed ==
    /\ pc = "finished"
    /\ ~m_exception
    /\ pc' = "answered"
    /\ answer' = IF callback THEN Answer ELSE Nothing
    /\ UNCHANGED <<method, callback, workVars, m_exception, heap, refused>>

\* afterAsyncWork
AfterAsyncWork ==
    /\ pc = "finished"
    /\ pc' = "answered"
    /\ answer' = IF callback THEN Answer ELSE Nothing
    /\ UNCHANGED <<method, callback, workVars, m_exception, heap, refused>>

\* delete task: ~Task disposes of the callback's persistent handle, and the
\* parameters and the rows go too.
DeleteTask ==
    /\ pc = "answered"
    /\ pc' = "idle"
    /\ heap' = [ task |-> heap.task - 1,
                 handle |-> heap.handle - (IF callback THEN 1 ELSE 0),
                 parameters |-> heap.parameters - (IF method \in Query THEN 1 ELSE 0),
                 list |-> heap.list - (IF method = "fetchAll" /\ ~m_exception THEN 1 ELSE 0),
                 row |-> heap.row - Len(rows) ]
    /\ UNCHANGED <<method, callback, workVars, m_exception, answer, refused>>

Work ==
    \/ Executed \/ ExecuteThrows \/ GotResult
    \/ BeginRow \/ AddColumn \/ EndRow \/ EndOfRows \/ FetchThrows

Next ==
    \/ \E m \in Method, a \in Argument : Call(m, a)
    \/ Work
    \/ AfterAsyncWork
    \/ DeleteTask

Safe == Init /\ [][Next]_vars

\* Nothing forces a call. The driver answers or throws, and the event loop and
\* the callback go on.
Spec == Safe /\ WF_vars(Work) /\ WF_vars(AfterAsyncWork) /\ WF_vars(DeleteTask)

-----------------------------------------------------------------------------
(* Properties *)

TypeOK ==
    /\ pc \in {"idle", "queued", "fetching", "finished", "answered"}
    /\ method \in Method
    /\ callback \in BOOLEAN /\ m_exception \in BOOLEAN
    /\ answer # Nothing => callback
    /\ column \in 0..Len(result.columns) + 1
    /\ Len(rows) <= Len(result.rows)
    /\ refused \in 0..MaxRefused
    /\ heap \in [DOMAIN Empty -> Int]

\* A row of values as the object JavaScript gets: of two columns with the same
\* name the first.
AsObject(columns, values) ==
    [name \in Range(columns) |->
        AsText(values[CHOOSE i \in DOMAIN columns :
            columns[i] = name /\ \A k \in 1..i - 1 : columns[k] # name])]

\* All or an error: a callback that gets no error gets every row of the result
\* set in the server's order (fetchRow: the first, or null when there is none),
\* though each row and column was read by a call that might have thrown.
AnswerIsWhole == pc = "answered" /\ callback /\ answer # [kind |-> "error"] =>
    /\ method = "fetchAll" =>
          answer = [kind |-> "rows",
                    rows |-> [i \in DOMAIN result.rows |->
                                 AsObject(result.columns, result.rows[i])]]
    /\ method = "fetchRow" =>
          answer = IF result.rows = <<>> THEN [kind |-> "null"]
                   ELSE [kind |-> "row", row |-> AsObject(result.columns, result.rows[1])]

\* Nothing is deleted twice, whichever of createRow, the deleter in fetchAll,
\* parseAndRun and the destructors ~TaskQuery and ~TaskQueryFetchAll gets to it.
DeletedOnce == \A kind \in DOMAIN heap : heap[kind] >= 0

\* A program whose queries and callbacks have the right types loses no memory:
\* when a call is over, whatever the driver did, what it allocated is deleted,
\* and so it is for refused calls of the methods that make their task last.
AcceptedCallsLeaveNothing == pc = "idle" /\ refused = 0 => heap = Empty

\* README.md:202: "It seems that my addon doesn't leak". When a call is over,
\* all that it allocated is deleted, whatever its arguments were.
NothingLeft == pc = "idle" => heap = Empty

\* A task that is queued is answered and deleted, however the driver fails.
QueuedCallEnds == pc = "queued" ~> pc = "idle"

=============================================================================
