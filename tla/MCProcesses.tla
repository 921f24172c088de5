---------------------------- MODULE MCProcesses -----------------------------
(***************************************************************************)
(* test_phase1.c and the oscomp programs of Console, over one process      *)
(* table: one of them runs.                                                *)
(***************************************************************************)
EXTENDS Phase1, Console

VARIABLE running (* "phase1" or "console"                                  *)

processVars == <<running, phase1Vars, vars>>

ProcessesInit ==
  /\ running \in {"phase1", "console"}
  /\ Phase1Init /\ Init
  /\ running = "phase1" => ~whole /\ program = "fork" (* where it does not matter *)

(* The variables of the one that does not run; both have procVars.         *)
phase1Only  == <<test, pc, pid, task, counts, verdict, forkFailed>>
consoleOnly == <<program, whole, todo, console, pipe, cpid, failed, marked>>

ProcessesNext ==
  \/ running = "phase1" /\ Phase1Next /\ UNCHANGED <<running, consoleOnly>>
  \/ running = "console" /\ Next /\ UNCHANGED <<running, phase1Only>>

(* The fairness of the program that runs.                                  *)
ProcessesSpec ==
  /\ ProcessesInit /\ [][ProcessesNext]_processVars
  /\ running = "phase1" => Phase1Fairness
  /\ running = "console" => Fairness

(* Every program ends and leaves no process behind, whatever fails: nobody *)
(* waits for a child it does not have, and the loop of pipe.c finds every  *)
(* write end of the pipe closed (pipe.c:30-35, test_phase1.c:246).         *)
Finishes == <>(\A p \in Pid : status[p] = "free")

=============================================================================
