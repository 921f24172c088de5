----------------------------- MODULE MutexesProofs --------------------------
(***************************************************************************)
(* Proofs about the programs of MCMutexes, for every number of threads,    *)
(* philosophers and rounds: the adders lose no update; no wakeup is lost,  *)
(* and the second thread of Handover follows the first; neighbours at the  *)
(* table never eat together, and the order in which the forks are taken    *)
(* rules deadlock out.                                                     *)
(***************************************************************************)
EXTENDS Philosophers, RaceAdder, Handover, FiniteSetTheorems, WellFoundedInduction, TLAPS

-----------------------------------------------------------------------------
(* The adders.                                                             *)

(* There are finitely many rounds, per_thread for each thread.             *)
LEMMA RoundCount ==
  /\ IsFiniteSet(AllRounds)
  /\ Cardinality(AllRounds) = per_thread * Cardinality(Threads)
  /\ Cardinality(Threads) \in Nat
<1>1. IsFiniteSet(0 .. per_thread - 1) /\ Cardinality(0 .. per_thread - 1) = per_thread
  BY FS_Interval, AdderAssumption
<1>2. IsFiniteSet(Threads) /\ Cardinality(Threads) \in Nat
  BY FS_CardinalityType, AdderAssumption
<1>3. /\ IsFiniteSet(AllRounds)
      /\ Cardinality(AllRounds) = Cardinality(Threads) * Cardinality(0 .. per_thread - 1)
  BY <1>1, <1>2, FS_Product DEF AllRounds
<1>4. \A m, n \in Nat : m * n = n * m
  BY SMT
<1>. QED BY <1>1, <1>2, <1>3, <1>4, AdderAssumption

(* Every set of rounds is finite.                                          *)
LEMMA WrittenFinite == IsFiniteSet(Written)
BY RoundCount, FS_Subset DEF Written

(* A write adds one round to those written, a round not written before.    *)
LEMMA WriteCounts ==
  ASSUME AdderTypes, Rounds, NEW t \in Threads, Write(t)
  PROVE  Cardinality(Written') = Cardinality(Written) + 1
<1> DEFINE x == <<t, i[t]>>
<1>1. x \in AllRounds /\ ~Wrote(x)
  <2>1. at[t] = "write"
    BY DEF Write, StepTo
  <2>2. i[t] \in 0 .. per_thread - 1
    BY <2>1, AdderAssumption DEF AdderTypes, Rounds, Inside
  <2>. QED BY <2>1, <2>2 DEF AllRounds, Wrote
<1>2. \A y \in AllRounds : Wrote(y)' <=> (Wrote(y) \/ y = x)
  <2> SUFFICES ASSUME NEW u \in Threads, NEW k \in 0 .. per_thread - 1
               PROVE  Wrote(<<u, k>>)' <=> (Wrote(<<u, k>>) \/ <<u, k>> = x)
    BY DEF AllRounds
  <2>1. CASE u = t
    BY <2>1 DEF Wrote, Write, StepTo, AdderTypes
  <2>2. CASE u # t
    BY <2>2 DEF Wrote, Write, StepTo, AdderTypes
  <2>. QED BY <2>1, <2>2
<1>3. Written' = Written \cup {x} /\ x \notin Written
  BY <1>1, <1>2 DEF Written, AllRounds
<1>. QED BY <1>3, WrittenFinite, FS_AddElement

(* No other step changes the rounds written.                               *)
LEMMA OthersKeep ==
  ASSUME AdderTypes, NEW t \in Threads,
         thread_create(t) \/ mutex_lock(t) \/ Read(t) \/ mutex_unlock(t)
  PROVE  Written' = Written
<1>1. \A y \in AllRounds : Wrote(y)' <=> Wrote(y)
  <2> SUFFICES ASSUME NEW u \in Threads, NEW k \in 0 .. per_thread - 1
               PROVE  Wrote(<<u, k>>)' <=> Wrote(<<u, k>>)
    BY DEF AllRounds
  <2>1. CASE u # t
    BY <2>1 DEF Wrote, thread_create, mutex_lock, Read, mutex_unlock, StepTo, AdderTypes
  <2>2. CASE u = t
    <3>1. i[t] \in Nat
      BY AdderAssumption DEF AdderTypes
    <3>2. CASE thread_create(t) \/ mutex_lock(t) \/ Read(t)
      BY <2>2, <3>2 DEF Wrote, thread_create, mutex_lock, Read, StepTo, NextRound, AdderTypes
    <3>3. CASE mutex_unlock(t)
      <4>1. at[t] = "unlock" /\ at'[t] # "unlock" /\ i'[t] = i[t] + 1
        BY <3>3 DEF mutex_unlock, StepTo, NextRound, AdderTypes
      <4>. QED BY <2>2, <3>1, <4>1 DEF Wrote
    <3>. QED BY <3>2, <3>3
  <2>. QED BY <2>1, <2>2
<1>. QED BY <1>1 DEF Written, AllRounds

(* The invariant on every schedule: one case for each step of a thread.    *)
THEOREM AdderInductive == AdderSpec => []AdderInv
<1>1. AdderInit => AdderInv
  <2> SUFFICES ASSUME AdderInit PROVE AdderInv
    OBVIOUS
  <2>1. AdderTypes /\ OwnsMutex /\ ReadIsFresh /\ Rounds /\ SumIsRight
    BY AdderAssumption DEF AdderInit, AdderTypes, OwnsMutex, ReadIsFresh, Rounds, Inside, SumIsRight
  <2>2. Written = {}
    BY AdderAssumption DEF AdderInit, Written, Wrote, AllRounds
  <2>3. a = Cardinality(Written)
    BY <2>2, FS_EmptySet DEF AdderInit
  <2>. QED BY <2>1, <2>3 DEF AdderInv
<1>2. AdderInv /\ [AdderNext]_adderVars => AdderInv'
  <2> SUFFICES ASSUME AdderInv, [AdderNext]_adderVars PROVE AdderInv'
    OBVIOUS
  <2> USE AdderAssumption, NoThreadAssumption
  <2>0. AdderTypes /\ OwnsMutex /\ ReadIsFresh /\ Rounds /\ a = Cardinality(Written) /\ SumIsRight
    BY DEF AdderInv
  <2>1. ASSUME NEW t \in Threads, thread_create(t) PROVE AdderInv'
    <3>1. AdderTypes'
      BY <2>0, <2>1 DEF AdderTypes, thread_create, StepTo, NextRound
    <3>2. OwnsMutex' /\ ReadIsFresh' /\ Rounds'
      BY <2>0, <2>1 DEF AdderTypes, OwnsMutex, ReadIsFresh, Rounds, Inside, thread_create,
                            StepTo, NextRound
    <3>3. Written' = Written
      BY <2>0, <2>1, OthersKeep
    <3>. QED BY <2>0, <2>1, <3>1, <3>2, <3>3 DEF AdderInv, SumIsRight, thread_create
  <2>2. ASSUME NEW t \in Threads, mutex_lock(t) PROVE AdderInv'
    <3>1. AdderTypes'
      BY <2>0, <2>2 DEF AdderTypes, mutex_lock, StepTo
    <3>2. OwnsMutex' /\ ReadIsFresh' /\ Rounds'
      BY <2>0, <2>2 DEF AdderTypes, OwnsMutex, ReadIsFresh, Rounds, Inside, mutex_lock, StepTo
    <3>3. Written' = Written
      BY <2>0, <2>2, OthersKeep
    <3>. QED BY <2>0, <2>2, <3>1, <3>2, <3>3 DEF AdderInv, SumIsRight, mutex_lock
  <2>3. ASSUME NEW t \in Threads, Read(t) PROVE AdderInv'
    <3>1. AdderTypes'
      BY <2>0, <2>3 DEF AdderTypes, Read, StepTo
    <3>2. OwnsMutex' /\ ReadIsFresh' /\ Rounds'
      BY <2>0, <2>3 DEF AdderTypes, OwnsMutex, ReadIsFresh, Rounds, Inside, Read, StepTo
    <3>3. Written' = Written
      BY <2>0, <2>3, OthersKeep
    <3>. QED BY <2>0, <2>3, <3>1, <3>2, <3>3 DEF AdderInv, SumIsRight, Read
  <2>4. ASSUME NEW t \in Threads, Write(t) PROVE AdderInv'
    <3>1. AdderTypes'
      BY <2>0, <2>4 DEF AdderTypes, Write, StepTo
    <3>2. OwnsMutex' /\ Rounds'
      BY <2>0, <2>4 DEF AdderTypes, OwnsMutex, Rounds, Inside, Write, StepTo
    <3>3. ReadIsFresh'
      BY <2>0, <2>4 DEF AdderTypes, OwnsMutex, ReadIsFresh, Inside, Write, StepTo
    <3>4. a' = a + 1
      BY <2>0, <2>4 DEF ReadIsFresh, Write, StepTo
    <3>5. Cardinality(Written') = Cardinality(Written) + 1
      BY <2>0, <2>4, WriteCounts
    <3>. QED BY <2>0, <2>4, <3>1, <3>2, <3>3, <3>4, <3>5 DEF AdderInv, SumIsRight, Write
  <2>5. ASSUME NEW t \in Threads, mutex_unlock(t) PROVE AdderInv'
    <3>1. AdderTypes'
      BY <2>0, <2>5 DEF AdderTypes, Rounds, Inside, mutex_unlock, StepTo, NextRound
    <3>2. OwnsMutex' /\ ReadIsFresh' /\ Rounds'
      BY <2>0, <2>5 DEF AdderTypes, OwnsMutex, ReadIsFresh, Rounds, Inside, mutex_unlock,
                            StepTo, NextRound
    <3>3. Written' = Written
      BY <2>0, <2>5, OthersKeep
    <3>. QED BY <2>0, <2>5, <3>1, <3>2, <3>3 DEF AdderInv, SumIsRight, mutex_unlock
  <2>6. CASE waittid_all
    <3>1. Written = AllRounds
      BY <2>0, <2>6 DEF waittid_all, Rounds, Written, Wrote, AllRounds
    <3>2. adderMain' = "passed"
      BY <2>0, <2>6, <3>1, RoundCount DEF waittid_all
    <3>3. (AdderTypes /\ OwnsMutex /\ ReadIsFresh /\ Rounds)'
      BY <2>0, <2>6, <3>2 DEF waittid_all, AdderTypes, OwnsMutex, ReadIsFresh, Rounds, Inside
    <3>4. Written' = Written /\ a' = a
      BY <2>6 DEF waittid_all, Written, Wrote
    <3>. QED BY <2>0, <3>2, <3>3, <3>4 DEF AdderInv, SumIsRight
  <2>7. CASE UNCHANGED adderVars
    BY <2>0, <2>7 DEF adderVars, AdderInv, AdderTypes, OwnsMutex, ReadIsFresh, Rounds, Inside,
                      Written, Wrote, SumIsRight
  <2>. QED BY <2>1, <2>2, <2>3, <2>4, <2>5, <2>6, <2>7 DEF AdderNext, fun
<1>. QED BY <1>1, <1>2, PTL DEF AdderSpec

(* The types of the variables, for every number of threads and rounds.     *)
THEOREM AdderTyping == AdderSpec => []AdderTypes
BY AdderInductive, PTL DEF AdderInv

(* The assertion a == per_thread * thread_count never fails.               *)
THEOREM AdderSum == AdderSpec => []SumIsRight
BY AdderInductive, PTL DEF AdderInv

(* No step loses an update: a only ever grows, by one.                     *)
THEOREM NoLostUpdate == AdderSpec => EveryWriteAddsOne
<1>1. AdderInv /\ [AdderNext]_adderVars => [a' # a => a' = a + 1]_adderVars
  BY DEF AdderInv, ReadIsFresh, AdderNext, fun, adderVars, thread_create, mutex_lock,
         Read, Write, mutex_unlock, waittid_all, StepTo
<1>. QED BY <1>1, AdderInductive, PTL DEF AdderSpec, EveryWriteAddsOne

-----------------------------------------------------------------------------
(* The pair.                                                               *)

(* Where each thread can be, by program.                                   *)
Places ==
  /\ call["first"] \in
       IF program = "sem" THEN {"unborn", "sleep", "hello", "up", "exit", "exited"}
       ELSE {"unborn", "sleep", "hello", "lock", "change", "changed", "signal", "unlock",
             "last", "exit", "exited"}
  /\ call["second"] \in
       IF program = "sem" THEN {"unborn", "hello", "down", "last", "exit", "exited"}
       ELSE {"unborn", "hello", "lock", "test", "print_a", "wait", "blocked", "relock", "unlock",
             "last", "exit", "exited"}

(* The mutex belongs to the thread that is between lock and unlock.        *)
Critical == {"change", "changed", "signal", "unlock", "test", "print_a", "wait"}
MutexHeld == \A t \in Pair : holder = t <=> call[t] \in Critical

(* a is set when the work is done, and what the second thread has found a  *)
(* to be stays true while it has the mutex.                                *)
FlagIsWork ==
  /\ program = "condvar" => (A = 1 <=> Done)
  /\ call["second"] \in {"print_a", "wait"} => A = 0
  /\ program = "condvar" /\ call["second"] \in {"unlock", "last", "exit", "exited"} => Done

(* The one unit is given by the first thread and taken by the second.      *)
UnitIsWork ==
  /\ units = IF program = "sem" /\ Done /\ call["second"] \in {"unborn", "hello", "down"}
             THEN 1 ELSE 0
  /\ program = "sem" /\ call["second"] \in {"last", "exit", "exited"} => Done

HandoverInv ==
  HandoverTypes /\ Places /\ MutexHeld /\ FlagIsWork /\ UnitIsWork /\ NoLostWakeup

LEMMA InitHolds == HandoverInit => HandoverInv
<1> SUFFICES ASSUME HandoverInit PROVE HandoverInv
  OBVIOUS
<1> USE DEF HandoverInit, InitialUnits, Pair, NoOwner
<1>1. call["first"] = "unborn" /\ call["second"] = "unborn"
  OBVIOUS
<1>2. HandoverTypes /\ Places
  BY <1>1 DEF HandoverTypes, Places
<1>3. MutexHeld
  BY <1>1 DEF MutexHeld, Critical
<1>4. FlagIsWork /\ UnitIsWork /\ NoLostWakeup
  BY <1>1 DEF FlagIsWork, UnitIsWork, NoLostWakeup, Done
<1>. QED BY <1>2, <1>3, <1>4 DEF HandoverInv

LEMMA HandoverStep == HandoverInv /\ [HandoverNext]_handoverVars => HandoverInv'
<1> SUFFICES ASSUME HandoverInv, [HandoverNext]_handoverVars PROVE HandoverInv'
  OBVIOUS
<1>. USE DEF HandoverInv, HandoverTypes, Places, MutexHeld, Critical, FlagIsWork, UnitIsWork,
             NoLostWakeup, Done, Pair, NoOwner, GoTo
<1>1. CASE sleep
  BY <1>1 DEF sleep
<1>2. CASE ChangeA
  BY <1>2 DEF ChangeA
<1>3. CASE Signal
  BY <1>3 DEF Signal, Woken
<1>4. CASE Up
  BY <1>4 DEF Up
<1>5. CASE TestA
  BY <1>5 DEF TestA
<1>6. CASE CondWait
  BY <1>6 DEF CondWait, UnlockCall
<1>7. CASE CondReturn
  BY <1>7 DEF CondReturn, LockCall
<1>8. CASE Down
  BY <1>8 DEF Down
<1>9. ASSUME NEW t \in Pair, Puts(t) PROVE HandoverInv'
  BY <1>9 DEF Puts, FirstCall
<1>10. ASSUME NEW t \in Pair, MutexStep(t) PROVE HandoverInv'
  BY <1>10 DEF MutexStep, LockCall, UnlockCall
<1>11. ASSUME NEW t \in Pair, ExitThread(t) PROVE HandoverInv'
  BY <1>11 DEF ExitThread
<1>12. CASE mainThread
  BY <1>12 DEF mainThread, Create, waittid
<1>13. CASE UNCHANGED handoverVars
  BY <1>13 DEF handoverVars
<1>. QED BY <1>1, <1>2, <1>3, <1>4, <1>5, <1>6, <1>7, <1>8, <1>9, <1>10, <1>11, <1>12, <1>13
         DEF HandoverNext, first, second, Common

(* The mutex, the flag and the unit account for where the threads are.     *)
THEOREM HandoverInductive == HandoverSpec => []HandoverInv
<1>. QED BY InitHolds, HandoverStep, PTL DEF HandoverSpec

(* The kernel's objects and the places of the threads have their types; no *)
(* schedule gives the semaphore a second unit.                             *)
THEOREM HandoverTyping == HandoverSpec => []HandoverTypes
<1>1. HandoverInv => HandoverTypes
  BY DEF HandoverInv
<1>. QED BY <1>1, HandoverInductive, PTL

(* A thread that sleeps on the condition variable will be woken.           *)
THEOREM WakeupsArrive == HandoverSpec => []NoLostWakeup
<1>1. HandoverInv => NoLostWakeup
  BY DEF HandoverInv
<1>. QED BY <1>1, HandoverInductive, PTL

(* The programs implement "the first works, then the second goes on".      *)
THEOREM OrderRefinement == HandoverSpec => ImplementsOrder
<1>1. HandoverInit => Order!OrderInit
  BY DEF HandoverInit, Order!OrderInit, Done, Resumed, Pair
<1>2. HandoverInv /\ HandoverInv' /\ [HandoverNext]_handoverVars
      => [Order!OrderNext]_(Order!orderVars)
  <2> SUFFICES ASSUME HandoverInv, HandoverInv', [HandoverNext]_handoverVars
               PROVE  [Order!OrderNext]_(Order!orderVars)
    OBVIOUS
  <2>. USE DEF HandoverInv, HandoverTypes, Places, FlagIsWork, UnitIsWork, Done, Resumed, Pair,
               GoTo, Order!OrderNext, Order!orderVars, Order!Work, Order!Resume
  <2>1. CASE sleep
    BY <2>1 DEF sleep
  <2>2. CASE ChangeA
    BY <2>2 DEF ChangeA
  <2>3. CASE Signal
    BY <2>3 DEF Signal, Woken
  <2>4. CASE Up
    BY <2>4 DEF Up
  <2>5. CASE TestA
    BY <2>5 DEF TestA
  <2>6. CASE CondWait
    BY <2>6 DEF CondWait, UnlockCall
  <2>7. CASE CondReturn
    BY <2>7 DEF CondReturn, LockCall
  <2>8. CASE Down
    BY <2>8 DEF Down
  <2>9. ASSUME NEW t \in Pair, Puts(t) PROVE [Order!OrderNext]_(Order!orderVars)
    BY <2>9 DEF Puts, FirstCall
  <2>10. ASSUME NEW t \in Pair, MutexStep(t) PROVE [Order!OrderNext]_(Order!orderVars)
    BY <2>10 DEF MutexStep, LockCall, UnlockCall
  <2>11. ASSUME NEW t \in Pair, ExitThread(t) PROVE [Order!OrderNext]_(Order!orderVars)
    BY <2>11 DEF ExitThread
  <2>12. CASE mainThread
    BY <2>12 DEF mainThread, Create, waittid
  <2>13. CASE UNCHANGED handoverVars
    BY <2>13 DEF handoverVars
  <2>. QED BY <2>1, <2>2, <2>3, <2>4, <2>5, <2>6, <2>7, <2>8, <2>9, <2>10, <2>11, <2>12, <2>13
           DEF HandoverNext, first, second, Common
<1>. QED BY <1>1, <1>2, HandoverInductive, PTL DEF HandoverSpec, ImplementsOrder, Order!OrderSpec

-----------------------------------------------------------------------------
(* The philosophers.                                                       *)

USE TableAssumption DEF Ids, Nobody

(* The two forks of a philosopher exist and differ, and the one that is    *)
(* locked first has the smaller number.                                    *)
LEMMA Forks ==
  ASSUME NEW p \in Ids
  PROVE  /\ left(p) \in Ids /\ right(p) \in Ids /\ min(p) \in Ids /\ max(p) \in Ids
         /\ {min(p), max(p)} = {left(p), right(p)}
         /\ min(p) < max(p)
<1>1. right(p) = IF p = N - 1 THEN 0 ELSE p + 1
  <2>1. CASE p = N - 1
    <3>1. N % N = 0
      OBVIOUS
    <3>. QED BY <2>1, <3>1 DEF right
  <2>2. CASE p # N - 1
    <3>1. p + 1 \in 0 .. N - 1
      BY <2>2
    <3>2. (p + 1) % N = p + 1
      BY <3>1
    <3>. QED BY <2>2, <3>2 DEF right
  <2>. QED BY <2>1, <2>2
<1>. QED BY <1>1 DEF left, min, max

(* A set of forks that is not empty has one with the largest number.       *)
LEMMA LargestFork ==
  ASSUME NEW M \in SUBSET Ids, M # {}
  PROVE  \E m \in M : \A k \in M : k <= m
<1> DEFINE LT == {x \in Nat \X Nat : x[1] < x[2]}
<1> DEFINE D == {N - 1 - m : m \in M}
<1>1. IsWellFoundedOn(LT, Nat)
  BY NatLessThanWellFounded DEF OpToRel
<1>2. D \subseteq Nat /\ D # {}
  <2>1. \A m \in M : m \in 0 .. N - 1 /\ N - 1 - m \in Nat
    OBVIOUS
  <2>2. PICK m \in M : TRUE
    OBVIOUS
  <2>3. N - 1 - m \in D
    OBVIOUS
  <2>. QED BY <2>1, <2>3
<1>3. PICK d \in D : \A e \in D : ~(<<e, d>> \in LT)
  <2> HIDE DEF LT, D
  <2>. QED BY <1>1, <1>2, WFMin
<1>4. PICK m \in M : d = N - 1 - m
  BY <1>3
<1>5. ASSUME NEW k \in M PROVE k <= m
  <2>1. N - 1 - k \in D /\ N - 1 - k \in Nat /\ N - 1 - m \in Nat
    OBVIOUS
  <2>2. ~(N - 1 - k < N - 1 - m)
    BY <1>3, <1>4, <2>1
  <2>. QED BY <2>2
<1>. QED BY <1>5

-----------------------------------------------------------------------------

(* Types, and who holds which fork: the statement a philosopher has        *)
(* reached decides.                                                        *)
THEOREM TableInductive == Spec => []TableInv
<1> USE DEF TableInv
<1>1. Init => TableInv
  BY DEF Init, TypeOK, ForksAccounted, RoundsLeft, Started, HeldForks
<1>2. TableInv /\ [Next]_vars => TableInv'
  <2> SUFFICES ASSUME TableInv, [Next]_vars PROVE TableInv'
    OBVIOUS
  <2>t. /\ owner \in [Ids -> Ids \cup {Nobody}]
        /\ pc \in [Ids -> {"unborn", "think", "lock_min", "lock_max", "eat", "unlock_min", "exited"}]
        /\ round \in [Ids -> 0 .. ROUND]
    BY DEF TypeOK
  <2>r. \A p \in Ids : /\ pc[p] \notin {"unborn", "exited"} => round[p] < ROUND
                       /\ pc[p] = "unborn" => round[p] = 0
    BY DEF RoundsLeft, Started
  <2>f. \A m, p \in Ids : owner[m] = p <=>
          \/ pc[p] \in {"lock_max", "unlock_min"} /\ m = min(p)
          \/ pc[p] = "eat" /\ (m = min(p) \/ m = max(p))
    BY <2>t DEF ForksAccounted, HeldForks
  <2>g. (\A m, p \in Ids : owner'[m] = p <=>
          \/ pc'[p] \in {"lock_max", "unlock_min"} /\ m = min(p)
          \/ pc'[p] = "eat" /\ (m = min(p) \/ m = max(p))) => ForksAccounted'
    BY DEF ForksAccounted, HeldForks
  <2>m. \A p \in Ids : min(p) \in Ids /\ max(p) \in Ids /\ min(p) # max(p)
    BY Forks
  <2>s. ASSUME NEW p \in Ids, NEW k \in Ids, NEW b, NEW x \in {p, Nobody},
               pc' = [pc EXCEPT ![p] = b], owner' = [owner EXCEPT ![k] = x],
               owner[k] \in {p, Nobody},
               \A m \in Ids : (IF m = k THEN x = p ELSE owner[m] = p) <=>
                 \/ b \in {"lock_max", "unlock_min"} /\ m = min(p)
                 \/ b = "eat" /\ (m = min(p) \/ m = max(p))
        PROVE  ForksAccounted'
    <3>1. ASSUME NEW m \in Ids, NEW q \in Ids
          PROVE  owner'[m] = q <=>
                   \/ pc'[q] \in {"lock_max", "unlock_min"} /\ m = min(q)
                   \/ pc'[q] = "eat" /\ (m = min(q) \/ m = max(q))
      <4>1. CASE q = p
        <5>1. pc'[q] = b /\ (owner'[m] = p <=> IF m = k THEN x = p ELSE owner[m] = p)
          BY <2>s, <2>t, <4>1
        <5>. QED BY <2>s, <4>1, <5>1
      <4>2. CASE q # p
        <5>1. pc'[q] = pc[q] /\ (owner'[m] = q <=> owner[m] = q)
          BY <2>s, <2>t, <4>2
        <5>. QED BY <2>f, <5>1
      <4>. QED BY <4>1, <4>2
    <3>. QED BY <2>g, <3>1
  <2>1. ASSUME NEW p \in Ids, CreateThread(p) PROVE TableInv'
    <3>1. TypeOK' /\ RoundsLeft'
      BY <2>1, <2>r DEF CreateThread, Goto, LoopTop, TypeOK, RoundsLeft, Started
    <3>2. ForksAccounted'
      BY <2>1, <2>t, <2>f, <2>g DEF CreateThread, Goto, LoopTop
    <3>. QED BY <3>1, <3>2
  <2>2. ASSUME NEW p \in Ids, GetHungry(p) PROVE TableInv'
    <3>1. TypeOK' /\ RoundsLeft'
      BY <2>2, <2>r DEF GetHungry, Goto, TypeOK, RoundsLeft, Started
    <3>2. ForksAccounted'
      BY <2>2, <2>t, <2>f, <2>g DEF GetHungry, Goto
    <3>. QED BY <3>1, <3>2
  <2>3. ASSUME NEW p \in Ids, LockMin(p) PROVE TableInv'
    <3>1. TypeOK' /\ RoundsLeft'
      BY <2>3, <2>r, <2>m DEF LockMin, Lock, Goto, TypeOK, RoundsLeft, Started
    <3>2. ForksAccounted'
      <4>1. /\ pc[p] = "lock_min" /\ pc' = [pc EXCEPT ![p] = "lock_max"]
            /\ owner' = [owner EXCEPT ![min(p)] = p]
            /\ owner[min(p)] \in {p, Nobody}
        BY <2>3, <2>f, <2>m DEF LockMin, Lock, Goto
      <4>2. \A m \in Ids : (IF m = min(p) THEN p = p ELSE owner[m] = p) <=>
              \/ "lock_max" \in {"lock_max", "unlock_min"} /\ m = min(p)
              \/ "lock_max" = "eat" /\ (m = min(p) \/ m = max(p))
        BY <4>1, <2>f, <2>m
      <4>. QED BY <4>1, <4>2, <2>m, <2>s
    <3>. QED BY <3>1, <3>2
  <2>4. ASSUME NEW p \in Ids, LockMax(p) PROVE TableInv'
    <3>1. TypeOK' /\ RoundsLeft'
      BY <2>4, <2>r, <2>m DEF LockMax, Lock, Goto, TypeOK, RoundsLeft, Started
    <3>2. ForksAccounted'
      <4>1. /\ pc[p] = "lock_max" /\ pc' = [pc EXCEPT ![p] = "eat"]
            /\ owner' = [owner EXCEPT ![max(p)] = p]
            /\ owner[max(p)] \in {p, Nobody}
        BY <2>4, <2>f, <2>m DEF LockMax, Lock, Goto
      <4>2. \A m \in Ids : (IF m = max(p) THEN p = p ELSE owner[m] = p) <=>
              \/ "eat" \in {"lock_max", "unlock_min"} /\ m = min(p)
              \/ "eat" = "eat" /\ (m = min(p) \/ m = max(p))
        BY <4>1, <2>f, <2>m
      <4>. QED BY <4>1, <4>2, <2>m, <2>s
    <3>. QED BY <3>1, <3>2
  <2>5. ASSUME NEW p \in Ids, UnlockMax(p) PROVE TableInv'
    <3>1. TypeOK' /\ RoundsLeft'
      BY <2>5, <2>r, <2>m DEF UnlockMax, Goto, TypeOK, RoundsLeft, Started
    <3>2. ForksAccounted'
      <4>1. /\ pc[p] = "eat" /\ pc' = [pc EXCEPT ![p] = "unlock_min"]
            /\ owner' = [owner EXCEPT ![max(p)] = Nobody]
            /\ owner[max(p)] \in {p, Nobody}
        BY <2>5, <2>f, <2>m DEF UnlockMax, Goto
      <4>2. \A m \in Ids : (IF m = max(p) THEN Nobody = p ELSE owner[m] = p) <=>
              \/ "unlock_min" \in {"lock_max", "unlock_min"} /\ m = min(p)
              \/ "unlock_min" = "eat" /\ (m = min(p) \/ m = max(p))
        BY <4>1, <2>f, <2>m
      <4>. QED BY <4>1, <4>2, <2>m, <2>s
    <3>. QED BY <3>1, <3>2
  <2>6. ASSUME NEW p \in Ids, UnlockMin(p) PROVE TableInv'
    <3>1. round[p] + 1 \in 0 .. ROUND
      BY <2>6, <2>r, <2>t DEF UnlockMin, Goto
    <3>2. TypeOK' /\ RoundsLeft'
      BY <2>6, <2>r, <2>m, <3>1 DEF UnlockMin, Goto, LoopTop, TypeOK, RoundsLeft, Started
    <3>3. ForksAccounted'
      <4>1. /\ pc[p] = "unlock_min" /\ pc' = [pc EXCEPT ![p] = LoopTop(round[p] + 1)]
            /\ owner' = [owner EXCEPT ![min(p)] = Nobody]
            /\ owner[min(p)] \in {p, Nobody}
        BY <2>6, <2>f, <2>m DEF UnlockMin, Goto
      <4>2. \A m \in Ids : (IF m = min(p) THEN Nobody = p ELSE owner[m] = p) <=>
              \/ LoopTop(round[p] + 1) \in {"lock_max", "unlock_min"} /\ m = min(p)
              \/ LoopTop(round[p] + 1) = "eat" /\ (m = min(p) \/ m = max(p))
        BY <4>1, <2>f, <2>m DEF LoopTop
      <4>. QED BY <4>1, <4>2, <2>m, <2>s
    <3>. QED BY <3>2, <3>3
  <2>7. CASE WaitAll \/ UNCHANGED vars
    BY <2>7 DEF WaitAll, vars, TypeOK, RoundsLeft, Started, ForksAccounted, HeldForks
  <2>. QED BY <2>1, <2>2, <2>3, <2>4, <2>5, <2>6, <2>7 DEF Next, philosopher_dining
<1>. QED BY <1>1, <1>2, PTL DEF Spec

(* Every fork is where the philosophers' statements say it is.             *)
THEOREM ForksNeverLost == Spec => []ForksAccounted
BY TableInductive, PTL DEF TableInv

(* NeighboursTakeTurns: a shared fork would have two owners.               *)
THEOREM NeighboursExclude == Spec => []NeighboursTakeTurns
<1>1. TableInv => NeighboursTakeTurns
  <2> SUFFICES ASSUME TableInv, NEW p \in Ids, NEW q \in Ids, p # q,
                      pc[p] = "eat", pc[q] = "eat",
                      NEW m \in {left(p), right(p)} \cap {left(q), right(q)}
               PROVE  FALSE
    BY DEF NeighboursTakeTurns
  <2>1. m \in Ids /\ m \in {min(p), max(p)} /\ m \in {min(q), max(q)}
    BY Forks
  <2>2. m \in HeldForks(p) /\ m \in HeldForks(q)
    BY <2>1 DEF HeldForks
  <2>. QED BY <2>1, <2>2 DEF TableInv, ForksAccounted
<1>. QED BY <1>1, TableInductive, PTL

(* NoDeadlock: the owner of the locked fork with the largest number waits  *)
(* for no fork, or for one with a larger number, which is not locked.      *)
THEOREM NeverStuck == Spec => []NoDeadlock
<1>1. TableInv => NoDeadlock
  <2> SUFFICES ASSUME TableInv, NEW p \in Ids, Started(p),
                      \A q \in Ids : Started(q) => Blocked(q)
               PROVE  FALSE
    BY DEF NoDeadlock
  <2> DEFINE M == {m \in Ids : owner[m] # Nobody}
  <2>1. M # {}
    <3>1. PICK m \in Wants(p) : owner[m] # Nobody
      BY DEF Blocked
    <3>2. m \in Ids
      BY Forks DEF Wants
    <3>. QED BY <3>1, <3>2
  <2>2. PICK m \in M : \A k \in M : k <= m
    <3> HIDE DEF M
    <3>1. M \in SUBSET Ids
      BY DEF M
    <3>. QED BY <2>1, <3>1, LargestFork
  <2>3. PICK o \in Ids : owner[m] = o
    BY DEF TableInv, TypeOK
  <2>4. m \in HeldForks(o)
    BY <2>3 DEF TableInv, ForksAccounted
  <2>5. pc[o] \in {"lock_max", "unlock_min", "eat"}
    BY <2>4 DEF HeldForks
  <2>6. Blocked(o)
    BY <2>5 DEF Started
  <2>7. pc[o] = "lock_max"
    BY <2>5, <2>6 DEF Blocked, Wants
  <2>8. m = min(o) /\ owner[max(o)] # Nobody
    BY <2>4, <2>6, <2>7 DEF HeldForks, Blocked, Wants
  <2>9. max(o) \in Ids /\ min(o) \in Ids /\ min(o) < max(o)
    BY Forks
  <2>10. max(o) <= m
    BY <2>2, <2>8, <2>9
  <2>. QED BY <2>8, <2>9, <2>10
<1>. QED BY <1>1, TableInductive, PTL

=============================================================================
