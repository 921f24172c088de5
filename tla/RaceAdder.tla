----------------------------- MODULE RaceAdder ------------------------------
(***************************************************************************)
(* user/src/ucore/ch8b_mut_race.c and ch8b_spin_mut_race.c: threads that   *)
(* increment a global in two separate steps, inside a mutex that blocks or *)
(* spins (which makes no difference to what can happen, only to the time). *)
(***************************************************************************)
EXTENDS Integers, FiniteSets

CONSTANTS
  Threads,   (* the threads in the array threads[]                         *)
  per_thread (* increments of each                                         *)

ASSUME AdderAssumption ==
  /\ IsFiniteSet(Threads) /\ Threads # {}
  /\ per_thread \in Nat

NoThread == "nobody"

ASSUME NoThreadAssumption == NoThread \notin Threads

VARIABLES
  a,      (* the global all threads add to                                 *)
  mutex,  (* who has locked it, or NoThread                                *)
  old_a,  (* old_a[t]: the value t read                                    *)
  i,      (* i[t]: its outer loop counter                                  *)
  at,     (* pc[t]: the statement it runs next                             *)
  adderMain (* "create", "wait"; "passed" or "failed" by the assertion     *)

adderVars == <<a, mutex, old_a, i, at, adderMain>>

AdderInit ==
  /\ a = 0
  /\ mutex = NoThread
  /\ old_a = [t \in Threads |-> 0]
  /\ i = [t \in Threads |-> 0]
  /\ at = [t \in Threads |-> "unborn"]
  /\ adderMain = "create"

-----------------------------------------------------------------------------

StepTo(t, here, there) ==
  /\ at[t] = here
  /\ at' = [at EXCEPT ![t] = there]

NextRound(n) == IF n < per_thread THEN "lock" ELSE "exited"

thread_create(t) ==
  /\ adderMain = "create"
  /\ StepTo(t, "unborn", NextRound(0))
  /\ adderMain' = IF \E u \in Threads : at'[u] = "unborn" THEN "create" ELSE "wait"
  /\ UNCHANGED <<a, mutex, old_a, i>>

(* Mutant: the mutex is not waited for.                                    *)
mutex_lock_no_wait(t) ==
  /\ StepTo(t, "lock", "read")
  /\ mutex' = t
  /\ UNCHANGED <<a, old_a, i, adderMain>>

mutex_lock(t) ==
  /\ StepTo(t, "lock", "read")
  /\ mutex = NoThread
  /\ mutex' = t
  /\ UNCHANGED <<a, old_a, i, adderMain>>

(* int old_a = a;                                                          *)
Read(t) ==
  /\ StepTo(t, "read", "write")
  /\ old_a' = [old_a EXCEPT ![t] = a]
  /\ UNCHANGED <<a, mutex, i, adderMain>>

(* a = old_a + 1, a long computation later.                                *)
Write(t) ==
  /\ StepTo(t, "write", "unlock")
  /\ a' = old_a[t] + 1
  /\ UNCHANGED <<mutex, old_a, i, adderMain>>

mutex_unlock(t) ==
  /\ StepTo(t, "unlock", NextRound(i[t] + 1))
  /\ mutex' = NoThread
  /\ i' = [i EXCEPT ![t] = @ + 1]
  /\ UNCHANGED <<a, old_a, adderMain>>

fun(t) == mutex_lock(t) \/ Read(t) \/ Write(t) \/ mutex_unlock(t)

(* waittid for every thread, then assert_eq(a, per_thread * thread_count). *)
waittid_all ==
  /\ adderMain = "wait"
  /\ \A t \in Threads : at[t] = "exited"
  /\ adderMain' = IF a = per_thread * Cardinality(Threads) THEN "passed" ELSE "failed"
  /\ UNCHANGED <<a, mutex, old_a, i, at>>

AdderNext == waittid_all \/ \E t \in Threads : thread_create(t) \/ fun(t)

(* The kernel runs every thread that can run.                              *)
AdderFairness ==
  /\ WF_adderVars(waittid_all \/ \E t \in Threads : thread_create(t))
  /\ \A t \in Threads : WF_adderVars(fun(t))

AdderSpec == AdderInit /\ [][AdderNext]_adderVars /\ AdderFairness

-----------------------------------------------------------------------------

AdderTypes ==
  /\ a \in Nat
  /\ mutex \in Threads \cup {NoThread}
  /\ old_a \in [Threads -> Nat]
  /\ i \in [Threads -> 0 .. per_thread]
  /\ at \in [Threads -> {"unborn", "lock", "read", "write", "unlock", "exited"}]
  /\ adderMain \in {"create", "wait", "passed", "failed"}

(* No update is lost: whatever is switched to between the read and the     *)
(* write of a thread, a only ever grows, by one.                           *)
EveryWriteAddsOne == [][a' # a => a' = a + 1]_adderVars

(* The assertion of the test holds when the threads have been waited for.  *)
SumIsRight == adderMain # "failed"

-----------------------------------------------------------------------------
(* Why: the thread between lock and unlock owns the mutex, what it has     *)
(* read is still the value of a, and a counts the rounds that were written.*)

Inside(t) == at[t] \in {"read", "write", "unlock"}

OwnsMutex == \A t \in Threads : Inside(t) => mutex = t

ReadIsFresh == \A t \in Threads : at[t] = "write" => old_a[t] = a

Rounds ==
  \A t \in Threads : /\ at[t] = "lock" \/ Inside(t) => i[t] < per_thread
                     /\ at[t] = "unborn" => i[t] = 0
                     /\ at[t] = "exited" => i[t] = per_thread

(* The rounds written so far: round k of thread t is <<t, k>>.             *)
AllRounds == Threads \X (0 .. per_thread - 1)
Wrote(x)  == x[2] < i[x[1]] \/ (x[2] = i[x[1]] /\ at[x[1]] = "unlock")
Written   == {x \in AllRounds : Wrote(x)}

AdderInv ==
  /\ AdderTypes
  /\ OwnsMutex
  /\ ReadIsFresh
  /\ Rounds
  /\ a = Cardinality(Written)
  /\ SumIsRight

=============================================================================
