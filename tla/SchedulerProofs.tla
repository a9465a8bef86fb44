--------------------------- MODULE SchedulerProofs ---------------------------
(* Machine-checked proofs about Scheduler, for every set of tasks, every   *)
(* limit and every number of threads.                                      *)
EXTENDS Scheduler, SequenceTheorems, FiniteSetTheorems, TLAPS

LEMMA RangeAppend ==
    ASSUME NEW S, NEW s \in Seq(S), NEW x \in S
    PROVE  Range(Append(s, x)) = Range(s) \cup {x}
<1>1. /\ Len(Append(s, x)) = Len(s) + 1 /\ Len(s) \in Nat
      /\ DOMAIN s = 1..Len(s) /\ DOMAIN Append(s, x) = 1..Len(Append(s, x))
      /\ \A i \in 1..Len(s) : Append(s, x)[i] = s[i]
      /\ Append(s, x)[Len(s) + 1] = x
    BY AppendProperties, LenProperties
<1>2. 1..Len(Append(s, x)) = (1..Len(s)) \cup {Len(s) + 1}
    BY <1>1
<1>. QED  BY <1>1, <1>2 DEF Range

LEMMA InjectiveAppend ==
    ASSUME NEW S, NEW s \in Seq(S), NEW x \in S, IsInjective(s), x \notin Range(s)
    PROVE  IsInjective(Append(s, x))
<1>1. /\ Len(Append(s, x)) = Len(s) + 1 /\ Len(s) \in Nat
      /\ DOMAIN s = 1..Len(s) /\ DOMAIN Append(s, x) = 1..Len(Append(s, x))
      /\ \A i \in 1..Len(s) : Append(s, x)[i] = s[i]
      /\ Append(s, x)[Len(s) + 1] = x
    BY AppendProperties, LenProperties
<1>. QED  BY <1>1 DEF IsInjective, Range

LEMMA RangeTail ==
    ASSUME NEW S, NEW s \in Seq(S), s # <<>>, IsInjective(s)
    PROVE  /\ Tail(s) \in Seq(S) /\ Head(s) \in S
           /\ IsInjective(Tail(s))
           /\ Head(s) \in Range(s)
           /\ Range(Tail(s)) = Range(s) \ {Head(s)}
<1>1. /\ Head(s) \in S /\ Tail(s) \in Seq(S)
      /\ Len(s) \in Nat \ {0} /\ Len(Tail(s)) = Len(s) - 1
      /\ DOMAIN s = 1..Len(s) /\ DOMAIN Tail(s) = 1..Len(Tail(s))
      /\ \A i \in 1..Len(Tail(s)) : Tail(s)[i] = s[i + 1]
      /\ Head(s) = s[1]
    BY HeadTailProperties, LenProperties, EmptySeq
<1>2. IsInjective(Tail(s))
    BY <1>1 DEF IsInjective
<1>3. ASSUME NEW x PROVE x \in Range(Tail(s)) <=> x \in Range(s) \ {Head(s)}
    <2>1. ASSUME x \in Range(Tail(s)) PROVE x \in Range(s) \ {Head(s)}
        BY <1>1, <2>1 DEF Range, IsInjective
    <2>2. ASSUME x \in Range(s) \ {Head(s)} PROVE x \in Range(Tail(s))
        <3>1. PICK i \in 1..Len(s) : s[i] = x
            BY <1>1, <2>2 DEF Range
        <3>2. i - 1 \in 1..Len(Tail(s)) /\ Tail(s)[i - 1] = x
            BY <1>1, <2>2, <3>1
        <3>. QED  BY <1>1, <3>2 DEF Range
    <2>. QED  BY <2>1, <2>2
<1>4. Head(s) \in Range(s)
    BY <1>1 DEF Range
<1>. QED  BY <1>1, <1>2, <1>3, <1>4

LEMMA RangeOfTasks ==
    ASSUME NEW s \in Seq(Task)
    PROVE  Range(s) \subseteq Task
BY LenProperties DEF Range

LEMMA InFlightFinite ==
    ASSUME TypeOK
    PROVE  /\ InFlight \subseteq Task
           /\ IsFiniteSet(InFlight)
           /\ Cardinality(InFlight) \in Nat
           /\ After \subseteq Task
<1>1. Range(uvQueue) \subseteq Task /\ Range(finished) \subseteq Task
    BY RangeOfTasks DEF TypeOK
<1>2. After \subseteq Task
    BY DEF TypeOK, After
<1>3. InFlight \subseteq Task
    BY <1>1, <1>2 DEF InFlight, TypeOK
<1>. QED  BY <1>2, <1>3, FS_Subset, FS_CardinalityType, SchedulerAssumption

-----------------------------------------------------------------------------
(* One lemma per step: the invariant after it. *)

LEMMA InitInv == Init => Inv
<1>. SUFFICES ASSUME Init PROVE Inv
    OBVIOUS
<1>1. Range(<<>>) = {} /\ IsInjective(<<>>)
    BY DEF Range, IsInjective
<1>2. InFlight = {} /\ After = {}
    BY <1>1 DEF Init, InFlight, After
<1>3. TypeOK
    BY DEF Init, TypeOK
<1>4. CountExact
    BY <1>2, FS_EmptySet DEF Init, CountExact
<1>5. OnePlace
    BY <1>1, <1>2 DEF Init, OnePlace
<1>. QED
    BY <1>3, <1>4, <1>5, SchedulerAssumption DEF Init, Inv, CounterBound, NoStrandedTask

LEMMA AddTaskInv ==
    ASSUME Inv, NEW t \in Task, AddTask(t)
    PROVE  Inv'
<1>. USE SchedulerAssumption DEF Inv
<1>1. CASE ~HasRoom(m_concurrent) /\ m_tasks' = Append(m_tasks, t)
           /\ UNCHANGED <<m_concurrent, uvQueue>>
    <2>1. t \notin Range(m_tasks) /\ t \notin InFlight
        BY DEF AddTask, Known
    <2>2. Range(m_tasks') = Range(m_tasks) \cup {t} /\ IsInjective(m_tasks')
        BY <1>1, <2>1, RangeAppend, InjectiveAppend DEF TypeOK, OnePlace
    <2>3. UNCHANGED <<m_concurrent, uvQueue, working, finished, inAfter>>
        BY <1>1 DEF AddTask
    <2>4. InFlight' = InFlight /\ After' = After
        BY <2>3 DEF InFlight, After
    <2>5. TypeOK'
        BY <1>1, <2>3, AppendProperties DEF TypeOK
    <2>6. OnePlace'
        BY <2>1, <2>2, <2>3, <2>4 DEF OnePlace
    <2>7. CountExact' /\ CounterBound'
        BY <2>3, <2>4 DEF CountExact, CounterBound
    <2>8. NoStrandedTask'
        BY <1>1, <2>3 DEF NoStrandedTask, HasRoom, CounterBound, TypeOK
    <2>. QED  BY <2>5, <2>6, <2>7, <2>8
<1>2. CASE HasRoom(m_concurrent) /\ RunTask(t, m_concurrent) /\ UNCHANGED m_tasks
    <2>1. t \notin Range(m_tasks) /\ t \notin InFlight
        BY DEF AddTask, Known
    <2>2. Range(uvQueue') = Range(uvQueue) \cup {t} /\ IsInjective(uvQueue')
        BY <1>2, <2>1, RangeAppend, InjectiveAppend DEF TypeOK, OnePlace, RunTask, InFlight
    <2>3. /\ UNCHANGED <<m_tasks, working, finished, inAfter>>
          /\ m_concurrent' = m_concurrent + 1
        BY <1>2 DEF AddTask, RunTask
    <2>4. InFlight' = InFlight \cup {t} /\ After' = After
        BY <2>2, <2>3 DEF InFlight, After
    <2>5. TypeOK'
        BY <1>2, <2>3, AppendProperties DEF TypeOK, RunTask
    <2>6. OnePlace'
        BY <2>1, <2>2, <2>3, <2>4 DEF OnePlace, InFlight
    <2>7. CountExact'
        BY <2>1, <2>3, <2>4, InFlightFinite, FS_AddElement DEF CountExact
    <2>8. CounterBound' /\ NoStrandedTask'
        BY <1>2, <2>3 DEF CounterBound, NoStrandedTask, HasRoom, TypeOK
    <2>. QED  BY <2>5, <2>6, <2>7, <2>8
<1>. QED  BY <1>1, <1>2 DEF AddTask

LEMMA WorkBeginInv ==
    ASSUME Inv, WorkBegin
    PROVE  Inv'
<1>. USE SchedulerAssumption DEF Inv
<1>. DEFINE t == Head(uvQueue)
<1>1. /\ t \in Task /\ t \in Range(uvQueue)
      /\ uvQueue' \in Seq(Task) /\ IsInjective(uvQueue')
      /\ Range(uvQueue') = Range(uvQueue) \ {t}
    BY RangeTail DEF WorkBegin, TypeOK, OnePlace
<1>2. working' = working \cup {t} /\ UNCHANGED <<m_concurrent, m_tasks, finished, inAfter>>
    BY DEF WorkBegin
<1>3. InFlight' = InFlight /\ After' = After
    BY <1>1, <1>2 DEF InFlight, After
<1>4. TypeOK'
    BY <1>1, <1>2 DEF TypeOK
<1>5. OnePlace'
    BY <1>1, <1>2, <1>3 DEF OnePlace
<1>6. CountExact' /\ CounterBound' /\ NoStrandedTask'
    BY <1>2, <1>3 DEF CountExact, CounterBound, NoStrandedTask
<1>. QED  BY <1>4, <1>5, <1>6

LEMMA WorkEndInv ==
    ASSUME Inv, NEW t \in Task, WorkEnd(t)
    PROVE  Inv'
<1>. USE SchedulerAssumption DEF Inv
<1>1. t \in working /\ t \notin Range(finished)
    BY DEF WorkEnd, OnePlace
<1>2. /\ finished' \in Seq(Task) /\ IsInjective(finished')
      /\ Range(finished') = Range(finished) \cup {t}
    BY <1>1, RangeAppend, InjectiveAppend, AppendProperties DEF WorkEnd, TypeOK, OnePlace
<1>3. working' = working \ {t} /\ UNCHANGED <<m_concurrent, m_tasks, uvQueue, inAfter>>
    BY DEF WorkEnd
<1>4. InFlight' = InFlight /\ After' = After
    BY <1>1, <1>2, <1>3 DEF InFlight, After
<1>5. TypeOK'
    BY <1>2, <1>3 DEF TypeOK
<1>6. OnePlace'
    BY <1>1, <1>2, <1>3, <1>4 DEF OnePlace
<1>7. CountExact' /\ CounterBound' /\ NoStrandedTask'
    BY <1>3, <1>4 DEF CountExact, CounterBound, NoStrandedTask
<1>. QED  BY <1>5, <1>6, <1>7

LEMMA AfterWorkInv ==
    ASSUME Inv, AfterWork
    PROVE  Inv'
<1>. USE SchedulerAssumption DEF Inv
<1>. DEFINE t == Head(finished)
<1>1. /\ t \in Task /\ t \in Range(finished)
      /\ finished' \in Seq(Task) /\ IsInjective(finished')
      /\ Range(finished') = Range(finished) \ {t}
    BY RangeTail DEF AfterWork, TypeOK, OnePlace
<1>2. /\ inAfter' = t /\ UNCHANGED <<m_concurrent, m_tasks, uvQueue, working>>
    BY DEF AfterWork
<1>3. After = {} /\ After' = {t}
    BY <1>1, <1>2 DEF After, AfterWork
<1>4. InFlight' = InFlight
    BY <1>1, <1>2, <1>3 DEF InFlight
<1>5. TypeOK'
    BY <1>1, <1>2 DEF TypeOK
<1>6. OnePlace'
    BY <1>1, <1>2, <1>3, <1>4 DEF OnePlace
<1>7. CountExact' /\ CounterBound' /\ NoStrandedTask'
    BY <1>2, <1>4 DEF CountExact, CounterBound, NoStrandedTask
<1>. QED  BY <1>5, <1>6, <1>7

LEMMA AfterWorkDoneInv ==
    ASSUME Inv, AfterWorkDone
    PROVE  Inv'
<1>. USE SchedulerAssumption DEF Inv
<1>. DEFINE n == m_concurrent - 1
<1>1. inAfter \in Task /\ After = {inAfter} /\ After' = {}
    BY DEF AfterWorkDone, TypeOK, After
<1>2. UNCHANGED <<working, finished>> /\ inAfter' = NoTask
    BY DEF AfterWorkDone
<1>3. /\ n \in Nat
      /\ IsFiniteSet(InFlight \ {inAfter})
      /\ Cardinality(InFlight \ {inAfter}) = n
      /\ inAfter \in InFlight
    <2>1. inAfter \in InFlight
        BY <1>1 DEF InFlight
    <2>2. /\ IsFiniteSet(InFlight \ {inAfter})
          /\ Cardinality(InFlight \ {inAfter}) = Cardinality(InFlight) - 1
        BY <2>1, InFlightFinite, FS_RemoveElement
    <2>3. Cardinality(InFlight \ {inAfter}) \in Nat
        BY <2>2, FS_CardinalityType
    <2>. QED  BY <2>1, <2>2, <2>3 DEF CountExact
<1>4. CASE /\ m_tasks # <<>> /\ HasRoom(n) /\ RunTask(Head(m_tasks), n)
           /\ m_tasks' = Tail(m_tasks)
    <2>. DEFINE t == Head(m_tasks)
    <2>1. /\ t \in Task /\ t \in Range(m_tasks)
          /\ m_tasks' \in Seq(Task) /\ IsInjective(m_tasks')
          /\ Range(m_tasks') = Range(m_tasks) \ {t}
        BY <1>4, RangeTail DEF TypeOK, OnePlace
    <2>2. t \notin InFlight
        BY <2>1 DEF OnePlace
    <2>3. /\ uvQueue' \in Seq(Task) /\ IsInjective(uvQueue')
          /\ Range(uvQueue') = Range(uvQueue) \cup {t}
          /\ m_concurrent' = n + 1
        BY <1>4, <2>1, <2>2, RangeAppend, InjectiveAppend, AppendProperties
        DEF TypeOK, OnePlace, RunTask, InFlight
    <2>4. InFlight' = (InFlight \ {inAfter}) \cup {t}
        BY <1>1, <1>2, <2>3 DEF InFlight, OnePlace
    <2>5. TypeOK'
        BY <1>2, <1>3, <2>1, <2>3 DEF TypeOK
    <2>6. OnePlace'
        BY <1>1, <1>2, <2>1, <2>2, <2>3, <2>4 DEF OnePlace, InFlight
    <2>7. CountExact'
        <3>1. Cardinality(InFlight') = n + 1
            BY <1>3, <2>2, <2>4, FS_AddElement
        <3>. QED  BY <2>3, <3>1 DEF CountExact
    <2>8. m_concurrent' = m_concurrent
        BY <2>3 DEF TypeOK
    <2>9. CounterBound' /\ NoStrandedTask'
        BY <1>4, <2>8 DEF CounterBound, NoStrandedTask
    <2>. QED  BY <2>5, <2>6, <2>7, <2>9
<1>5. CASE /\ m_tasks = <<>> \/ ~HasRoom(n)
           /\ m_concurrent' = n /\ UNCHANGED <<m_tasks, uvQueue>>
    <2>1. InFlight' = InFlight \ {inAfter}
        BY <1>1, <1>2, <1>5 DEF InFlight, OnePlace
    <2>2. TypeOK'
        BY <1>2, <1>3, <1>5 DEF TypeOK
    <2>3. OnePlace'
        BY <1>1, <1>2, <1>5, <2>1 DEF OnePlace
    <2>4. CountExact'
        BY <1>3, <1>5, <2>1 DEF CountExact
    <2>5. m_tasks = <<>>
        BY <1>5 DEF NoStrandedTask, HasRoom, TypeOK
    <2>6. CounterBound' /\ NoStrandedTask'
        BY <1>5, <2>5 DEF CounterBound, NoStrandedTask, TypeOK
    <2>. QED  BY <2>2, <2>3, <2>4, <2>6
<1>. QED  BY <1>4, <1>5 DEF AfterWorkDone, RunNextTask

LEMMA NextInv == Inv /\ [Next]_vars => Inv'
<1>. SUFFICES ASSUME Inv, [Next]_vars PROVE Inv'
    OBVIOUS
<1>1. CASE UNCHANGED vars
    BY <1>1 DEF vars, Inv, TypeOK, OnePlace, CountExact, CounterBound, NoStrandedTask,
                InFlight, After
<1>. QED
    BY <1>1, AddTaskInv, WorkBeginInv, WorkEndInv, AfterWorkInv, AfterWorkDoneInv DEF Next

\* The tasks the scheduler knows change only when one is added or deleted.
LEMMA KnownAfterAdd ==
    ASSUME Inv, NEW t \in Task, AddTask(t)
    PROVE  Known' = Known \cup {t} /\ t \notin Known
<1>1. m_tasks \in Seq(Task) /\ uvQueue \in Seq(Task)
    BY DEF Inv, TypeOK
<1>2. CASE m_tasks' = Append(m_tasks, t) /\ UNCHANGED uvQueue
    BY <1>1, <1>2, RangeAppend DEF AddTask, Known, InFlight, After
<1>3. CASE uvQueue' = Append(uvQueue, t) /\ UNCHANGED m_tasks
    BY <1>1, <1>3, RangeAppend DEF AddTask, Known, InFlight, After
<1>. QED  BY <1>2, <1>3 DEF AddTask, RunTask

LEMMA KnownAfterMove ==
    ASSUME Inv, WorkBegin \/ AfterWork \/ \E t \in Task : WorkEnd(t)
    PROVE  Known' = Known
<1>1. CASE WorkBegin
    <2>1. /\ Head(uvQueue) \in Range(uvQueue)
          /\ Range(uvQueue') = Range(uvQueue) \ {Head(uvQueue)}
        BY <1>1, RangeTail DEF WorkBegin, Inv, TypeOK, OnePlace
    <2>. QED  BY <1>1, <2>1 DEF WorkBegin, Known, InFlight, After
<1>2. CASE AfterWork
    <2>1. /\ Head(finished) \in Range(finished) /\ Head(finished) \in Task
          /\ Range(finished') = Range(finished) \ {Head(finished)}
        BY <1>2, RangeTail DEF AfterWork, Inv, TypeOK, OnePlace
    <2>2. After = {} /\ After' = {Head(finished)}
        BY <1>2, <2>1, SchedulerAssumption DEF AfterWork, After
    <2>. QED  BY <1>2, <2>1, <2>2 DEF AfterWork, Known, InFlight
<1>3. ASSUME NEW t \in Task, WorkEnd(t) PROVE Known' = Known
    <2>1. Range(finished') = Range(finished) \cup {t} /\ t \in working
        BY <1>3, RangeAppend DEF WorkEnd, Inv, TypeOK
    <2>. QED  BY <1>3, <2>1 DEF WorkEnd, Known, InFlight, After
<1>. QED  BY <1>1, <1>2, <1>3

LEMMA KnownAfterDone ==
    ASSUME Inv, AfterWorkDone
    PROVE  Known' = Known \ {inAfter} /\ inAfter \in Known
<1>1. /\ After = {inAfter} /\ After' = {} /\ UNCHANGED <<working, finished>>
      /\ m_tasks \in Seq(Task) /\ uvQueue \in Seq(Task)
    BY DEF AfterWorkDone, After, Inv, TypeOK
<1>2. Range(m_tasks') \cup Range(uvQueue') = Range(m_tasks) \cup Range(uvQueue)
    <2>1. CASE /\ m_tasks # <<>> /\ uvQueue' = Append(uvQueue, Head(m_tasks))
               /\ m_tasks' = Tail(m_tasks)
        <3>1. /\ Head(m_tasks) \in Task /\ Head(m_tasks) \in Range(m_tasks)
              /\ Range(m_tasks') = Range(m_tasks) \ {Head(m_tasks)}
            BY <1>1, <2>1, RangeTail DEF Inv, OnePlace
        <3>2. Range(uvQueue') = Range(uvQueue) \cup {Head(m_tasks)}
            BY <1>1, <2>1, <3>1, RangeAppend
        <3>. QED  BY <3>1, <3>2
    <2>2. CASE UNCHANGED <<m_tasks, uvQueue>>
        BY <2>2
    <2>. QED  BY <2>1, <2>2 DEF AfterWorkDone, RunNextTask, RunTask
<1>3. inAfter \notin Range(m_tasks) \cup Range(uvQueue) \cup working \cup Range(finished)
    BY <1>1 DEF Inv, OnePlace, InFlight
<1>. QED  BY <1>1, <1>2, <1>3 DEF Known, InFlight

\* The tasks whose asyncWork has not returned.
Begun == Range(m_tasks) \cup Range(uvQueue) \cup working

LEMMA BegunAfterAdd ==
    ASSUME Inv, NEW t \in Task, AddTask(t)
    PROVE  Begun' = Begun \cup {t}
<1>1. m_tasks \in Seq(Task) /\ uvQueue \in Seq(Task)
    BY DEF Inv, TypeOK
<1>2. CASE m_tasks' = Append(m_tasks, t) /\ UNCHANGED uvQueue
    BY <1>1, <1>2, RangeAppend DEF AddTask, Begun
<1>3. CASE uvQueue' = Append(uvQueue, t) /\ UNCHANGED m_tasks
    BY <1>1, <1>3, RangeAppend DEF AddTask, Begun
<1>. QED  BY <1>2, <1>3 DEF AddTask, RunTask

LEMMA BegunAfterBegin ==
    ASSUME Inv, WorkBegin
    PROVE  Begun' = Begun
<1>1. /\ Head(uvQueue) \in Range(uvQueue)
      /\ Range(uvQueue') = Range(uvQueue) \ {Head(uvQueue)}
    BY RangeTail DEF WorkBegin, Inv, TypeOK, OnePlace
<1>. QED  BY <1>1 DEF WorkBegin, Begun

LEMMA BegunAfterEnd ==
    ASSUME Inv, NEW t \in Task, WorkEnd(t)
    PROVE  Begun' = Begun \ {t} /\ t \in Begun /\ t \in Known /\ t # inAfter
<1>1. t \in working /\ t \notin Range(m_tasks) /\ t \notin Range(uvQueue)
    BY DEF WorkEnd, Inv, OnePlace, InFlight
<1>2. t # inAfter
    BY <1>1, SchedulerAssumption DEF Inv, OnePlace, After
<1>. QED  BY <1>1, <1>2 DEF WorkEnd, Begun, Known, InFlight

LEMMA BegunAfterWork ==
    ASSUME Inv, AfterWork
    PROVE  /\ Begun' = Begun
           /\ Head(finished) \in Known /\ Head(finished) \in Task
           /\ Head(finished) \notin Begun
<1>1. /\ Head(finished) \in Range(finished) /\ Head(finished) \in Task
    BY RangeTail DEF AfterWork, Inv, TypeOK, OnePlace
<1>. QED  BY <1>1 DEF AfterWork, Begun, Known, InFlight, Inv, OnePlace

LEMMA BegunAfterDone ==
    ASSUME Inv, AfterWorkDone
    PROVE  Begun' = Begun
<1>1. m_tasks \in Seq(Task) /\ uvQueue \in Seq(Task) /\ UNCHANGED working
    BY DEF AfterWorkDone, Inv, TypeOK
<1>2. CASE /\ m_tasks # <<>> /\ uvQueue' = Append(uvQueue, Head(m_tasks))
           /\ m_tasks' = Tail(m_tasks)
    <2>1. /\ Head(m_tasks) \in Task /\ Head(m_tasks) \in Range(m_tasks)
          /\ Range(m_tasks') = Range(m_tasks) \ {Head(m_tasks)}
        BY <1>1, <1>2, RangeTail DEF Inv, OnePlace
    <2>2. Range(uvQueue') = Range(uvQueue) \cup {Head(m_tasks)}
        BY <1>1, <1>2, <2>1, RangeAppend
    <2>. QED  BY <1>1, <2>1, <2>2 DEF Begun
<1>3. CASE UNCHANGED <<m_tasks, uvQueue>>
    BY <1>1, <1>3 DEF Begun
<1>. QED  BY <1>2, <1>3 DEF AfterWorkDone, RunNextTask, RunTask

\* In every reachable state the members have their types, the counter never
\* wraps below 0, and each Task object is in one place (src/Scheduler.cpp:15-69).
THEOREM SchedulerInvariant == Safe => []Inv
BY InitInv, NextInv, PTL DEF Safe

\* m_concurrent never goes below 0 and no step puts anything but a Task in
\* the vector or in libuv's queues.
THEOREM TypesAreKept == Safe => []TypeOK
BY SchedulerInvariant, PTL DEF Inv

\* A Task object is never in two of the vector, libuv's queue, the threads,
\* the done list and the callback: it is run once and deleted once.
THEOREM TasksInOnePlace == Safe => []OnePlace
BY SchedulerInvariant, PTL DEF Inv

\* The counter m_concurrent is exact whatever the interleaving of threads,
\* callbacks and calls to addTask from callbacks.
THEOREM CounterIsExact == Safe => []CountExact
BY SchedulerInvariant, PTL DEF Inv

\* A task waits in the vector only while all the places are taken, so no
\* order of completions and additions leaves a task that nobody will start.
THEOREM NoTaskStranded == Safe => []NoStrandedTask
BY SchedulerInvariant, PTL DEF Inv

LEMMA InvBoundsWorking == Inv => ConcurrencyBound
<1>. SUFFICES ASSUME Inv, MaxConcurrent > 0
              PROVE  Cardinality(working) <= MaxConcurrent
    BY DEF ConcurrencyBound
<1>1. TypeOK /\ CountExact /\ CounterBound
    BY DEF Inv
<1>2. IsFiniteSet(InFlight) /\ working \subseteq InFlight /\ Cardinality(InFlight) \in Nat
    BY <1>1, InFlightFinite DEF InFlight
<1>3. Cardinality(working) \in Nat /\ Cardinality(working) <= Cardinality(InFlight)
    BY <1>2, FS_Subset, FS_CardinalityType
<1>. QED  BY <1>1, <1>2, <1>3, SchedulerAssumption DEF CountExact, CounterBound

\* Never more than MaxConcurrent asyncWork calls at once: with a limit of 1,
\* driver->connect and the statements of a connection are never concurrent.
THEOREM WorkIsBounded == Safe => []ConcurrencyBound
BY SchedulerInvariant, InvBoundsWorking, PTL

-----------------------------------------------------------------------------
(* Refinement: every step of the scheduler is a step of TaskService or     *)
(* leaves the queue and the running tasks of TaskService as they are.      *)

pendingBar == uvQueue \o m_tasks
runningBar == working \cup Range(finished) \cup After

LEMMA RangeConcat ==
    ASSUME NEW S, NEW s \in Seq(S), NEW u \in Seq(S)
    PROVE  Range(s \o u) = Range(s) \cup Range(u)
BY RangeConcatenation

LEMMA InitSimulation == Init => Service!Init
<1>. SUFFICES ASSUME Init PROVE Service!Init
    OBVIOUS
<1>1. uvQueue \o m_tasks = <<>>
    BY DEF Init
<1>2. Range(finished) = {} /\ After = {} /\ working = {}
    BY DEF Init, Range, After
<1>. QED  BY <1>1, <1>2 DEF Service!Init

LEMMA AddTaskSimulation ==
    ASSUME Inv, NEW t \in Task, AddTask(t)
    PROVE  Service!Submit(t)
<1>. USE SchedulerAssumption DEF Inv
<1>1. uvQueue \in Seq(Task) /\ m_tasks \in Seq(Task)
    BY DEF TypeOK
<1>2. t \notin Range(pendingBar) \cup runningBar
    BY <1>1, RangeConcat DEF AddTask, Known, InFlight, pendingBar, runningBar
<1>3. UNCHANGED runningBar
    BY DEF AddTask, runningBar, After
<1>4. pendingBar' = Append(pendingBar, t)
    <2>1. CASE m_tasks' = Append(m_tasks, t) /\ UNCHANGED uvQueue
        <3>1. Append(m_tasks, t) = m_tasks \o <<t>> /\ <<t>> \in Seq(Task)
            BY <1>1, AppendIsConcat
        <3>2. pendingBar' = (uvQueue \o m_tasks) \o <<t>>
            BY <1>1, <2>1, <3>1, ConcatAssociative DEF pendingBar
        <3>. QED  BY <1>1, <3>2, ConcatProperties, AppendIsConcat DEF pendingBar
    <2>2. CASE HasRoom(m_concurrent) /\ uvQueue' = Append(uvQueue, t) /\ UNCHANGED m_tasks
        <3>1. m_tasks = <<>>
            BY <2>2 DEF NoStrandedTask, HasRoom, TypeOK
        <3>. QED  BY <1>1, <2>2, <3>1, ConcatEmptySeq, AppendProperties DEF pendingBar
    <2>. QED  BY <2>1, <2>2 DEF AddTask, RunTask
<1>. QED  BY <1>2, <1>3, <1>4 DEF Service!Submit, Service!Range, Range, pendingBar, runningBar

LEMMA WorkBeginSimulation ==
    ASSUME Inv, WorkBegin
    PROVE  Service!Start
<1>. USE SchedulerAssumption DEF Inv
<1>. DEFINE t == Head(uvQueue)
<1>1. /\ uvQueue \in Seq(Task) /\ m_tasks \in Seq(Task) /\ uvQueue # <<>>
      /\ uvQueue' = Tail(uvQueue) /\ UNCHANGED m_tasks
    BY DEF TypeOK, WorkBegin
<1>2. pendingBar # <<>> /\ Head(pendingBar) = t /\ pendingBar' = Tail(pendingBar)
    <2>1. /\ pendingBar \in Seq(Task) /\ Len(pendingBar) = Len(uvQueue) + Len(m_tasks)
          /\ \A i \in 1..Len(pendingBar) : pendingBar[i] =
                  IF i <= Len(uvQueue) THEN uvQueue[i] ELSE m_tasks[i - Len(uvQueue)]
        BY <1>1, ConcatProperties DEF pendingBar
    <2>2. Len(uvQueue) \in Nat \ {0} /\ Len(m_tasks) \in Nat
        BY <1>1, EmptySeq, LenProperties
    <2>3. pendingBar # <<>>
        BY <2>1, <2>2
    <2>4. Head(pendingBar) = t
        BY <2>1, <2>2, <2>3
    <2>5. /\ Tail(uvQueue) \in Seq(Task) /\ Len(Tail(uvQueue)) = Len(uvQueue) - 1
          /\ \A i \in 1..Len(Tail(uvQueue)) : Tail(uvQueue)[i] = uvQueue[i + 1]
        BY <1>1, HeadTailProperties
    <2>6. /\ Tail(pendingBar) \in Seq(Task) /\ Len(Tail(pendingBar)) = Len(pendingBar) - 1
          /\ \A i \in 1..Len(Tail(pendingBar)) : Tail(pendingBar)[i] = pendingBar[i + 1]
        BY <2>1, <2>3, HeadTailProperties
    <2>7. /\ pendingBar' \in Seq(Task)
          /\ Len(pendingBar') = Len(Tail(uvQueue)) + Len(m_tasks)
          /\ \A i \in 1..Len(pendingBar') : pendingBar'[i] =
                  IF i <= Len(Tail(uvQueue)) THEN Tail(uvQueue)[i]
                  ELSE m_tasks[i - Len(Tail(uvQueue))]
        BY <1>1, <2>5, ConcatProperties DEF pendingBar
    <2>8. Len(pendingBar') = Len(Tail(pendingBar))
        BY <2>1, <2>2, <2>5, <2>6, <2>7
    <2>9. \A i \in 1..Len(pendingBar') : pendingBar'[i] = Tail(pendingBar)[i]
        BY <2>1, <2>2, <2>5, <2>6, <2>7, <2>8
    <2>. QED  BY <2>3, <2>4, <2>6, <2>7, <2>8, <2>9, SeqEqual
<1>3. runningBar' = runningBar \cup {t}
    BY DEF WorkBegin, runningBar, After
<1>4. ASSUME MaxConcurrent > 0 PROVE Cardinality(runningBar) < MaxConcurrent
    <2>1. t \in InFlight /\ runningBar \subseteq InFlight \ {t}
        BY <1>1, RangeTail DEF OnePlace, InFlight, runningBar
    <2>2. /\ IsFiniteSet(InFlight \ {t})
          /\ Cardinality(InFlight \ {t}) = Cardinality(InFlight) - 1
        BY <2>1, InFlightFinite, FS_RemoveElement
    <2>3. Cardinality(runningBar) \in Nat /\ Cardinality(runningBar) <= Cardinality(InFlight \ {t})
        BY <2>1, <2>2, FS_Subset, FS_CardinalityType
    <2>. QED  BY <1>4, <2>2, <2>3 DEF CountExact, CounterBound, TypeOK
<1>. QED  BY <1>2, <1>3, <1>4
         DEF Service!Start, Service!Cardinality, Cardinality, Service!IsFiniteSet, IsFiniteSet,
             pendingBar, runningBar

LEMMA WorkEndSimulation ==
    ASSUME Inv, NEW t \in Task, WorkEnd(t)
    PROVE  UNCHANGED <<pendingBar, runningBar>>
<1>1. Range(finished') = Range(finished) \cup {t} /\ t \in working
    BY RangeAppend DEF WorkEnd, Inv, TypeOK
<1>. QED  BY <1>1 DEF WorkEnd, pendingBar, runningBar, After

LEMMA AfterWorkSimulation ==
    ASSUME Inv, AfterWork
    PROVE  UNCHANGED <<pendingBar, runningBar>>
<1>1. /\ Head(finished) \in Task /\ Head(finished) \in Range(finished)
      /\ Range(finished') = Range(finished) \ {Head(finished)}
    BY RangeTail DEF AfterWork, Inv, TypeOK, OnePlace
<1>2. After = {} /\ After' = {Head(finished)}
    BY <1>1, SchedulerAssumption DEF AfterWork, After
<1>. QED  BY <1>1, <1>2 DEF AfterWork, pendingBar, runningBar

LEMMA AfterWorkDoneSimulation ==
    ASSUME Inv, AfterWorkDone
    PROVE  inAfter \in Task /\ Service!Complete(inAfter)
<1>1. /\ inAfter \in Task /\ After = {inAfter} /\ After' = {}
      /\ UNCHANGED <<working, finished>>
    BY SchedulerAssumption DEF AfterWorkDone, Inv, TypeOK, After
<1>2. inAfter \in runningBar /\ runningBar' = runningBar \ {inAfter}
    BY <1>1 DEF runningBar, Inv, OnePlace
<1>3. UNCHANGED pendingBar
    <2>1. uvQueue \in Seq(Task) /\ m_tasks \in Seq(Task)
        BY DEF Inv, TypeOK
    <2>2. CASE UNCHANGED <<m_tasks, uvQueue>>
        BY <2>2 DEF pendingBar
    <2>3. CASE /\ m_tasks # <<>>
               /\ uvQueue' = Append(uvQueue, Head(m_tasks)) /\ m_tasks' = Tail(m_tasks)
        <3>. DEFINE h == Head(m_tasks)
        <3>1. h \in Task /\ Tail(m_tasks) \in Seq(Task) /\ <<h>> \in Seq(Task)
            BY <2>1, <2>3, HeadTailProperties
        <3>2. <<h>> \o Tail(m_tasks) = m_tasks
            BY <2>1, <2>3
        <3>3. Append(uvQueue, h) = uvQueue \o <<h>>
            BY <2>1, <3>1, AppendIsConcat
        <3>4. (uvQueue \o <<h>>) \o Tail(m_tasks) = uvQueue \o (<<h>> \o Tail(m_tasks))
            BY <2>1, <3>1, ConcatAssociative
        <3>. QED  BY <2>3, <3>2, <3>3, <3>4 DEF pendingBar
    <2>. QED  BY <2>2, <2>3 DEF AfterWorkDone, RunNextTask, RunTask
<1>. QED  BY <1>1, <1>2, <1>3 DEF Service!Complete, pendingBar, runningBar

LEMMA NextSimulation == Inv /\ [Next]_vars => [Service!Next]_(Service!vars)
<1>. SUFFICES ASSUME Inv, [Next]_vars PROVE [Service!Next]_(Service!vars)
    OBVIOUS
<1>1. CASE UNCHANGED vars
    BY <1>1 DEF vars, Service!vars, After
<1>2. ASSUME NEW t \in Task, AddTask(t) PROVE Service!Next
    BY <1>2, AddTaskSimulation DEF Service!Next
<1>3. ASSUME NEW t \in Task, WorkEnd(t) PROVE UNCHANGED Service!vars
    BY <1>3, WorkEndSimulation DEF Service!vars, pendingBar, runningBar
<1>4. CASE WorkBegin
    BY <1>4, WorkBeginSimulation DEF Service!Next
<1>5. CASE AfterWork
    BY <1>5, AfterWorkSimulation DEF Service!vars, pendingBar, runningBar
<1>6. CASE AfterWorkDone
    BY <1>6, AfterWorkDoneSimulation DEF Service!Next
<1>. QED  BY <1>1, <1>2, <1>3, <1>4, <1>5, <1>6 DEF Next

\* The safety part of the refinement, for every set of tasks and every limit:
\* tasks start in the order of addTask, within the limit, and complete once.
THEOREM SchedulerRefinesService == Safe => Service!Safe
BY InitSimulation, NextSimulation, SchedulerInvariant, PTL DEF Safe, Service!Safe

=============================================================================
