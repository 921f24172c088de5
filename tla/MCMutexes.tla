----------------------------- MODULE MCMutexes ------------------------------
(***************************************************************************)
(* The programs of chapter 8 whose threads meet at the kernel's blocking   *)
(* mutexes (and, for one of two threads, at a condition variable or a      *)
(* semaphore): the philosophers, the adders, and a thread that waits for   *)
(* another.  One of the programs runs, the others never begin.             *)
(***************************************************************************)
EXTENDS Philosophers, RaceAdder, Handover

VARIABLE running (* "philosophers", "adders" or "handover"                 *)

mutexVars == <<running, vars, adderVars, handoverVars>>

MutexInit ==
  /\ running \in {"philosophers", "adders", "handover"}
  /\ Init /\ AdderInit /\ HandoverInit
  /\ running # "handover" => program = "sem" (* where it does not matter  *)

MutexNext ==
  \/ running = "philosophers" /\ Next /\ UNCHANGED <<running, adderVars, handoverVars>>
  \/ running = "adders" /\ AdderNext /\ UNCHANGED <<running, vars, handoverVars>>
  \/ running = "handover" /\ HandoverNext /\ UNCHANGED <<running, vars, adderVars>>

(* The fairness of the program that runs.                                  *)
MutexFairness ==
  /\ running = "philosophers" => Fairness
  /\ running = "adders" => AdderFairness
  /\ running = "handover" => HandoverFairness

MutexSpec == MutexInit /\ [][MutexNext]_mutexVars /\ MutexFairness

(* Each program comes to its end and prints that it passed, whatever the   *)
(* schedule: nobody waits for ever for a mutex, a signal or a unit         *)
(* (ch8b_mut_phi_din.c:32, ch8b_mut_race.c:20-27, ch8b_test_condvar.c:30,  *)
(* ch8b_sync_sem.c:20).                                                    *)
EveryProgramPasses ==
  <>(CASE running = "philosophers" -> main = "passed"
       [] running = "adders"       -> adderMain = "passed"
       [] running = "handover"     -> mainCall = "passed")

=============================================================================
