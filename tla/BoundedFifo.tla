---------------------------- MODULE BoundedFifo -----------------------------
(***************************************************************************)
(* What the producers and the consumer of ch8b_mpsc_sem.c are to achieve   *)
(* together: a first-in first-out queue of at most Capacity entries.       *)
(***************************************************************************)
EXTENDS Naturals, Sequences

CONSTANTS Producers, Capacity

VARIABLES
  entered, (* every id that was put, in the order of the puts              *)
  left     (* every id that was taken, in the order of the takes           *)

fifoVars == <<entered, left>>

FifoInit == entered = <<>> /\ left = <<>>

Put(p) ==
  /\ Len(entered) - Len(left) < Capacity
  /\ entered' = Append(entered, p)
  /\ UNCHANGED left

Take ==
  /\ Len(left) < Len(entered)
  /\ left' = Append(left, entered[Len(left) + 1])
  /\ UNCHANGED entered

FifoNext == Take \/ \E p \in Producers : Put(p)

FifoSpec == FifoInit /\ [][FifoNext]_fifoVars

=============================================================================
