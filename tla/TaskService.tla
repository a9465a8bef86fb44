----------------------------- MODULE TaskService -----------------------------
(***************************************************************************)
(* What a Scheduler promises to the code that calls addTask, without the   *)
(* counter, the vector, libuv's queue and the two callbacks: a task is     *)
(* accepted, started in the order of acceptance while fewer than           *)
(* MaxConcurrent tasks are in progress (0: no limit), and completed once.  *)
(*                                                                         *)
(* The promise is the one of the class comment (src/Scheduler.h:11-18) and *)
(* of addTask's (src/Scheduler.h:26-31).                                   *)
(***************************************************************************)
EXTENDS Integers, Sequences, FiniteSets, Functions

CONSTANTS
    Task,           \* the Task objects, reusable once deleted
    MaxConcurrent   \* tasks in progress at once; 0 stands for no limit

VARIABLES
    pending,        \* accepted and not started, oldest first
    running         \* started and not completed

vars == <<pending, running>>

Init ==
    /\ pending = <<>>
    /\ running = {}

Submit(t) ==
    /\ t \notin Range(pending) \cup running
    /\ pending' = Append(pending, t)
    /\ UNCHANGED running

Start ==
    /\ pending # <<>>
    /\ MaxConcurrent > 0 => Cardinality(running) < MaxConcurrent
    /\ running' = running \cup {Head(pending)}
    /\ pending' = Tail(pending)

Complete(t) ==
    /\ t \in running
    /\ running' = running \ {t}
    /\ UNCHANGED pending

Next ==
    \/ \E t \in Task : Submit(t) \/ Complete(t)
    \/ Start

Safe == Init /\ [][Next]_vars

Spec ==
    /\ Safe
    /\ WF_vars(Start)
    /\ \A t \in Task : WF_vars(Complete(t))

=============================================================================
