------------------------------ MODULE Scheduler ------------------------------
(***************************************************************************)
(* NodeMysql::Scheduler: it hands Task objects to libuv's thread pool, at  *)
(* most MaxConcurrent of them at a time, and keeps the others in m_tasks.  *)
(*                                                                         *)
(* addTask and afterWorkCallback run on the main thread only, so each of   *)
(* their critical sections on m_tasksLock is one step. afterWorkCallback   *)
(* is two steps, AfterWork and AfterWorkDone: the JavaScript callback that *)
(* afterAsyncWork calls runs between them and may call addTask again,      *)
(* while the finished task is still counted in m_concurrent. workCallback  *)
(* is two steps as well, because asyncWork blocks on its thread.           *)
(***************************************************************************)
EXTENDS Integers, Sequences, FiniteSets, Functions

CONSTANTS
    Task,           \* the Task objects; a deleted one may be allocated again
    MaxConcurrent,  \* m_maxConcurrent, 0 for no limit
    Threads,        \* threads libuv's pool gives to this scheduler
    NoTask          \* afterWorkCallback is not on the main thread's stack

ASSUME SchedulerAssumption ==
    /\ IsFiniteSet(Task)
    /\ MaxConcurrent \in Nat
    /\ Threads \in Nat \ {0}
    /\ NoTask \notin Task

VARIABLES
    m_concurrent,   \* the counter of tasks in progress
    m_tasks,        \* the vector of tasks that wait for a place
    uvQueue,        \* requests given to uv_queue_work, no thread has them yet
    working,        \* tasks whose asyncWork is running on a thread
    finished,       \* tasks whose asyncWork returned, in libuv's done list
    inAfter         \* the task whose afterAsyncWork the main thread is in

vars == <<m_concurrent, m_tasks, uvQueue, working, finished, inAfter>>

After == {inAfter} \ {NoTask}

\* The tasks m_concurrent stands for: given to libuv and not deleted.
InFlight == Range(uvQueue) \cup working \cup Range(finished) \cup After

\* Every Task object the scheduler knows.
Known == Range(m_tasks) \cup InFlight

Init ==
    /\ m_concurrent = 0
    /\ m_tasks = <<>>
    /\ uvQueue = <<>>
    /\ working = {}
    /\ finished = <<>>
    /\ inAfter = NoTask

\* Mutant: the limit is compared with <= instead of <.
HasRoomOffByOne(n) == MaxConcurrent = 0 \/ n <= MaxConcurrent

\* There is room for one more task when n are in progress.
HasRoom(n) == MaxConcurrent = 0 \/ n < MaxConcurrent

\* Mutant: runTask does not count the task.
RunTaskUncounted(t, n) ==
    /\ m_concurrent' = n
    /\ uvQueue' = Append(uvQueue, t)

\* runTask, called with n tasks in progress.
RunTask(t, n) ==
    /\ m_concurrent' = n + 1
    /\ uvQueue' = Append(uvQueue, t)

AddTask(t) ==
    /\ t \notin Known
    /\ \/ /\ ~HasRoom(m_concurrent)
          /\ m_tasks' = Append(m_tasks, t)
          /\ UNCHANGED <<m_concurrent, uvQueue>>
       \/ /\ HasRoom(m_concurrent)
          /\ RunTask(t, m_concurrent)
          /\ UNCHANGED m_tasks
    /\ UNCHANGED <<working, finished, inAfter>>

\* A thread of the pool takes the oldest request: workCallback begins.
WorkBegin ==
    /\ uvQueue # <<>>
    /\ Cardinality(working) < Threads
    /\ working' = working \cup {Head(uvQueue)}
    /\ uvQueue' = Tail(uvQueue)
    /\ UNCHANGED <<m_concurrent, m_tasks, finished, inAfter>>

\* asyncWork returns and libuv queues the request for the main thread.
WorkEnd(t) ==
    /\ t \in working
    /\ working' = working \ {t}
    /\ finished' = Append(finished, t)
    /\ UNCHANGED <<m_concurrent, m_tasks, uvQueue, inAfter>>

\* afterWorkCallback begins: task->afterAsyncWork() is on the stack.
AfterWork ==
    /\ inAfter = NoTask
    /\ finished # <<>>
    /\ inAfter' = Head(finished)
    /\ finished' = Tail(finished)
    /\ UNCHANGED <<m_concurrent, m_tasks, uvQueue, working>>

\* Mutant: the task that runNextTask starts stays in the vector.
RunNextTaskKeeps(n) ==
    \/ /\ m_tasks # <<>>
       /\ HasRoom(n)
       /\ RunTask(Head(m_tasks), n)
       /\ UNCHANGED m_tasks
    \/ /\ m_tasks = <<>> \/ ~HasRoom(n)
       /\ m_concurrent' = n
       /\ UNCHANGED <<m_tasks, uvQueue>>

\* Mutant: runNextTask takes the newest task, as back and pop_back would.
RunNextTaskNewest(n) ==
    \/ /\ m_tasks # <<>>
       /\ HasRoom(n)
       /\ RunTask(m_tasks[Len(m_tasks)], n)
       /\ m_tasks' = SubSeq(m_tasks, 1, Len(m_tasks) - 1)
    \/ /\ m_tasks = <<>> \/ ~HasRoom(n)
       /\ m_concurrent' = n
       /\ UNCHANGED <<m_tasks, uvQueue>>

\* Mutant: afterWorkCallback does not look for another task.
RunNextTaskForgotten(n) ==
    /\ m_concurrent' = n
    /\ UNCHANGED <<m_tasks, uvQueue>>

\* runNextTask, called with n tasks in progress.
RunNextTask(n) ==
    \/ /\ m_tasks # <<>>
       /\ HasRoom(n)
       /\ RunTask(Head(m_tasks), n)
       /\ m_tasks' = Tail(m_tasks)
    \/ /\ m_tasks = <<>> \/ ~HasRoom(n)
       /\ m_concurrent' = n
       /\ UNCHANGED <<m_tasks, uvQueue>>

\* afterWorkCallback ends: the task is deleted, the counter decreased and
\* the next task started.
AfterWorkDone ==
    /\ inAfter # NoTask
    /\ inAfter' = NoTask
    /\ RunNextTask(m_concurrent - 1)
    /\ UNCHANGED <<working, finished>>

Next ==
    \/ \E t \in Task : AddTask(t) \/ WorkEnd(t)
    \/ WorkBegin
    \/ AfterWork
    \/ AfterWorkDone

Safe == Init /\ [][Next]_vars

(***************************************************************************)
(* Nothing forces a program to add a task. A thread takes a request and    *)
(* asyncWork returns (the server answers or the connection breaks); the    *)
(* event loop drains libuv's done list and a JavaScript callback returns.  *)
(***************************************************************************)
Fairness ==
    /\ WF_vars(WorkBegin)
    /\ \A t \in Task : WF_vars(WorkEnd(t))
    /\ WF_vars(AfterWork)
    /\ WF_vars(AfterWorkDone)

Spec == Safe /\ Fairness

-----------------------------------------------------------------------------
(* Properties *)

\* The variables have the types of the members of Scheduler; in particular
\* m_concurrent, an unsigned int, is never decreased below 0.
TypeOK ==
    /\ m_concurrent \in Nat
    /\ m_tasks \in Seq(Task)
    /\ uvQueue \in Seq(Task)
    /\ working \in SUBSET Task
    /\ finished \in Seq(Task)
    /\ inAfter \in Task \cup {NoTask}

\* A Task object is in one place only: never run twice, never in the vector
\* while a thread or a callback uses it, deleted once.
OnePlace ==
    /\ IsInjective(m_tasks) /\ IsInjective(uvQueue) /\ IsInjective(finished)
    /\ Range(m_tasks) \cap InFlight = {}
    /\ Range(uvQueue) \cap (working \cup Range(finished) \cup After) = {}
    /\ working \cap (Range(finished) \cup After) = {}
    /\ Range(finished) \cap After = {}

\* m_concurrent counts the tasks given to libuv and not yet deleted, the one
\* whose callback is running included (src/Scheduler.h:36).
CountExact == m_concurrent = Cardinality(InFlight)

\* No more than MaxConcurrent tasks run at once: what protects the driver's
\* connect and a connection's statements from a second thread.
ConcurrencyBound == MaxConcurrent > 0 => Cardinality(working) <= MaxConcurrent

\* No lost wake-up: a task waits in m_tasks only while every place is taken,
\* so some afterWorkCallback is still to come that will call runNextTask.
NoStrandedTask == m_tasks # <<>> => MaxConcurrent > 0 /\ m_concurrent = MaxConcurrent

\* The counter never passes the limit; addTask and runNextTask test it with
\* the finished task still counted or just subtracted, so no step overshoots.
CounterBound == MaxConcurrent > 0 => m_concurrent <= MaxConcurrent

\* The inductive invariant: the conjuncts above carry each other.
Inv == TypeOK /\ OnePlace /\ CountExact /\ CounterBound /\ NoStrandedTask

\* Every task given to addTask is run, called back and deleted.
EveryTaskCompletes == \A t \in Task : t \in Known ~> t \notin Known

\* The scheduler does what TaskService says: the tasks in libuv's queue and
\* the ones in the vector, together, are one queue in the order of addTask.
Service == INSTANCE TaskService WITH
    pending <- uvQueue \o m_tasks,
    running <- working \cup Range(finished) \cup After

ImplementsService == Service!Spec

=============================================================================
