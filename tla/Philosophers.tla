---------------------------- MODULE Philosophers ----------------------------
(***************************************************************************)
(* user/src/ucore/ch8b_mut_phi_din.c: N threads around a table, a blocking *)
(* mutex between each two of them, locked in the order of their numbers.   *)
(***************************************************************************)
EXTENDS Integers

CONSTANTS
  N,    (* philosophers, and mutexes                                       *)
  ROUND (* meals of each                                                   *)

(* With one philosopher left and right would be the same mutex.            *)
ASSUME TableAssumption == N \in Nat /\ N >= 2 /\ ROUND \in Nat

Ids == 0 .. N - 1

Nobody == -1

VARIABLES
  owner,  (* owner[m]: the philosopher that has locked mutex m, or Nobody  *)
  pc,     (* pc[p]: what philosopher p does or is about to do              *)
  round,  (* round[p]: the meals it has finished                           *)
  main    (* "create", "wait" or "passed"                                  *)

vars == <<owner, pc, round, main>>

left(p)  == p
right(p) == (p + 1) % N

(* Mutant: each philosopher takes its left fork first.                     *)
leftFirst(p) == left(p)

(* The fork that is locked first, and the other one.                       *)
min(p) == IF left(p) < right(p) THEN left(p) ELSE right(p)
max(p) == IF min(p) = left(p) THEN right(p) ELSE left(p)

Init ==
  /\ owner = [m \in Ids |-> Nobody]
  /\ pc = [p \in Ids |-> "unborn"]
  /\ round = [p \in Ids |-> 0]
  /\ main = "create"

-----------------------------------------------------------------------------

Goto(p, here, there) ==
  /\ pc[p] = here
  /\ pc' = [pc EXCEPT ![p] = there]

LoopTop(n) == IF n < ROUND THEN "think" ELSE "exited"

(* thread_create: the threads start one after the other and run at once.   *)
CreateThread(p) ==
  /\ main = "create"
  /\ \A q \in Ids : q < p => pc[q] # "unborn"
  /\ Goto(p, "unborn", LoopTop(0))
  /\ main' = IF p = N - 1 THEN "wait" ELSE "create"
  /\ UNCHANGED <<owner, round>>

(* sleep() while thinking ends.                                            *)
GetHungry(p) ==
  /\ Goto(p, "think", "lock_min")
  /\ UNCHANGED <<owner, round, main>>

(* mutex_lock(m)                                                           *)
Lock(p, m) ==
  /\ owner[m] = Nobody
  /\ owner' = [owner EXCEPT ![m] = p]

LockMin(p) ==
  /\ Goto(p, "lock_min", "lock_max")
  /\ Lock(p, min(p))
  /\ UNCHANGED <<round, main>>

(* Mutant: the second fork is taken without waiting for it.                *)
GrabMax(p) ==
  /\ Goto(p, "lock_max", "eat")
  /\ owner' = [owner EXCEPT ![max(p)] = p]
  /\ UNCHANGED <<round, main>>

LockMax(p) ==
  /\ Goto(p, "lock_max", "eat")
  /\ Lock(p, max(p))
  /\ UNCHANGED <<round, main>>

(* sleep() while eating ends, mutex_unlock(max).                           *)
UnlockMax(p) ==
  /\ Goto(p, "eat", "unlock_min")
  /\ owner' = [owner EXCEPT ![max(p)] = Nobody]
  /\ UNCHANGED <<round, main>>

(* Mutant: the first fork is never put back.                               *)
KeepMin(p) ==
  /\ Goto(p, "unlock_min", LoopTop(round[p] + 1))
  /\ round' = [round EXCEPT ![p] = @ + 1]
  /\ UNCHANGED <<owner, main>>

(* mutex_unlock(min) and the next round, or exit(0).                       *)
UnlockMin(p) ==
  /\ Goto(p, "unlock_min", LoopTop(round[p] + 1))
  /\ owner' = [owner EXCEPT ![min(p)] = Nobody]
  /\ round' = [round EXCEPT ![p] = @ + 1]
  /\ UNCHANGED main

(* waittid for every thread, and the message that the test passed.         *)
WaitAll ==
  /\ main = "wait"
  /\ \A p \in Ids : pc[p] = "exited"
  /\ main' = "passed"
  /\ UNCHANGED <<owner, pc, round>>

philosopher_dining(p) ==
  GetHungry(p) \/ LockMin(p) \/ LockMax(p) \/ UnlockMax(p) \/ UnlockMin(p)

Next ==
  \/ WaitAll
  \/ \E p \in Ids : CreateThread(p) \/ philosopher_dining(p)

(* Every thread that can run is scheduled; who of the waiters gets a mutex *)
(* is left open.                                                           *)
Fairness ==
  /\ WF_vars(WaitAll \/ \E p \in Ids : CreateThread(p))
  /\ \A p \in Ids : WF_vars(philosopher_dining(p))

Spec == Init /\ [][Next]_vars /\ Fairness

-----------------------------------------------------------------------------

TypeOK ==
  /\ owner \in [Ids -> Ids \cup {Nobody}]
  /\ pc \in [Ids -> {"unborn", "think", "lock_min", "lock_max", "eat", "unlock_min", "exited"}]
  /\ round \in [Ids -> 0 .. ROUND]
  /\ main \in {"create", "wait", "passed"}

(* Two philosophers that share a fork never eat at the same time.          *)
NeighboursTakeTurns ==
  \A p, q \in Ids :
    p # q /\ pc[p] = "eat" /\ pc[q] = "eat" => {left(p), right(p)} \cap {left(q), right(q)} = {}

(* A fork on the table belongs to nobody, and a philosopher holds exactly  *)
(* the forks the statement it has reached says: none is put back twice or  *)
(* kept.  In particular nobody takes a fork into the grave.                *)
HeldForks(p) ==
  CASE pc[p] \in {"lock_max", "unlock_min"} -> {min(p)}
    [] pc[p] = "eat" -> {min(p), max(p)}
    [] OTHER -> {}

ForksAccounted == \A m, p \in Ids : owner[m] = p <=> m \in HeldForks(p)

(* The mutex a philosopher waits for, if it waits for one.                 *)
Wants(p) ==
  CASE pc[p] = "lock_min" -> {min(p)}
    [] pc[p] = "lock_max" -> {max(p)}
    [] OTHER -> {}

Blocked(p) == \E m \in Wants(p) : owner[m] # Nobody

Started(p) == pc[p] \notin {"unborn", "exited"}

(* The table never comes to a halt: while some philosopher is at it, one   *)
(* of them is not waiting for a fork.                                      *)
NoDeadlock == (\E p \in Ids : Started(p)) => \E p \in Ids : Started(p) /\ ~Blocked(p)

(* The invariant that carries the proofs.                                  *)
RoundsLeft ==
  \A p \in Ids : /\ Started(p) => round[p] < ROUND
                 /\ pc[p] = "unborn" => round[p] = 0

TableInv == TypeOK /\ RoundsLeft /\ ForksAccounted

=============================================================================
