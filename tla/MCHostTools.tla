---------------------------- MODULE MCHostTools -----------------------------
(***************************************************************************)
(* Three parts of the host side that share nothing: the frames of ktool.py,*)
(* the files of link_app.py and the grading line of test_runner.py. One of *)
(* them runs, the others never begin.                                      *)
(***************************************************************************)
EXTENDS MCTestRunner, Slip, LinkApp

VARIABLE running (* "frames", "files" or "grader"                          *)

(* An answer without and one with every byte that is escaped or that an    *)
(* escape consists of.                                                     *)
MCPackets == {<<"00", ESC_END>>, <<ESC, END, ESC_ESC>>}

AllDone == [t \in SuiteTests |-> [done |-> TRUE, n |-> 0]]

HostInit ==
  /\ running \in {"frames", "files", "grader"}
  /\ SlipInit /\ LinkInit /\ Init
  /\ running # "grader" => log = Capture(AllDone) (* where it does not matter *)

HostNext ==
  \/ running = "frames" /\ SlipNext /\ UNCHANGED <<running, linkvars, vars>>
  \/ running = "files" /\ LinkNext /\ UNCHANGED <<running, slipvars, vars>>
  \/ running = "grader" /\ Next /\ UNCHANGED <<running, slipvars, linkvars>>

HostSpec == HostInit /\ [][HostNext]_<<running, slipvars, linkvars, vars>> /\ SlipFairness

=============================================================================
