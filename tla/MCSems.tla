------------------------------- MODULE MCSems -------------------------------
(***************************************************************************)
(* The programs of chapter 8 whose threads meet at counting semaphores: the*)
(* ring of ch8b_mpsc_sem.c, and the two about deadlock detection, with the *)
(* arrays of their sources. One of the programs runs, the others never     *)
(* begin.                                                                  *)
(***************************************************************************)
EXTENDS DeadlockDetect, MpscSem

VARIABLE running (* "requests" or "ring"                                   *)

sem1 ==
  [threads |-> {"t1", "t2", "t3"}, barrierFirst |-> TRUE,
   res_num |-> [r1 |-> 1, r2 |-> 2, r3 |-> 1],
   alloc   |-> [t1 |-> <<"r2">>, t2 |-> <<"r1", "r2">>, t3 |-> <<"r3">>],
   request |-> [t1 |-> "r1", t2 |-> "r3", t3 |-> "r2"]]

sem2 ==
  [threads |-> {"t0", "t1", "t2", "t3"}, barrierFirst |-> FALSE,
   res_num |-> [r1 |-> 2, r2 |-> 2],
   alloc   |-> [t0 |-> <<"r2">>, t1 |-> <<"r1">>, t2 |-> <<"r1">>, t3 |-> <<"r2">>],
   request |-> [t0 |-> "r1", t1 |-> NoRequest, t2 |-> "r2", t3 |-> NoRequest]]

MCPrograms == {sem1, sem2}

SemsInit ==
  /\ running \in {"requests", "ring"}
  /\ Init /\ RingInit
  /\ running = "ring" => program = sem2 (* where it does not matter         *)

SemsNext ==
  \/ running = "requests" /\ Next /\ UNCHANGED <<running, ringVars>>
  \/ running = "ring" /\ RingNext /\ UNCHANGED <<running, vars>>

(* The fairness of the program that runs.                                  *)
SemsFairness ==
  /\ running = "requests" => Fairness
  /\ running = "ring" => RingFairness

SemsSpec == SemsInit /\ [][SemsNext]_<<running, vars, ringVars>> /\ SemsFairness

(* The tests end: no thread waits for ever, thanks to the refusals         *)
(* (ch8_sem1_deadlock.c:90-97).                                            *)
Finishes == running = "requests" => <>(main = "checked")

(* The test ends on every schedule: the three semaphores cannot leave all  *)
(* threads waiting for each other, though a producer waits for a slot and  *)
(* for the mutex (ch8b_mpsc_sem.c:24-25, 60-65).                           *)
RingFinishes == running = "ring" => <>(ringMain = "passed")

=============================================================================
