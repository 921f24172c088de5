------------------------------ MODULE Handover ------------------------------
(***************************************************************************)
(* user/src/ucore/ch8b_test_condvar.c and ch8b_sync_sem.c: a thread that   *)
(* waits for another, by a condition variable with its mutex in one of the *)
(* programs and by a semaphore in the other.  Mutexes, condition variables *)
(* and semaphores are the kernel's.  sleep(10) is a delay of any length.   *)
(* A line that is printed is a step of its own.                            *)
(***************************************************************************)
EXTENDS Integers

Pair == {"first", "second"}
NoOwner  == "nobody"

VARIABLES
  program, (* which of the two runs: "condvar" or "sem"                    *)
  call,    (* the call each thread makes next                              *)
  mainCall,(* the same for main()                                          *)
  A,       (* the flag the second thread waits for                         *)
  holder,  (* of the mutex                                                 *)
  units    (* of the semaphore                                             *)

handoverVars == <<program, call, mainCall, A, holder, units>>

(* Mutant: the semaphore starts with a unit.                               *)
OneUnit == 1

(* semaphore_create(0)                                                     *)
InitialUnits == 0

HandoverInit ==
  /\ program \in {"condvar", "sem"}
  /\ call = [t \in Pair |-> "unborn"]
  /\ mainCall = "create_first"
  /\ A = 0
  /\ holder = NoOwner
  /\ units = InitialUnits

GoTo(t, p, q) == call[t] = p /\ call' = [call EXCEPT ![t] = q]

FirstCall == IF program = "condvar" THEN [first |-> "lock", second |-> "lock"]
                                    ELSE [first |-> "up", second |-> "down"]

(* The line a thread begins with, "First changed A --> 1", "Second : A is",*)
(* and the line it ends with; first() of the semaphore program has none.   *)
Puts(t) ==
  /\ \/ GoTo(t, "hello", FirstCall[t])
     \/ GoTo(t, "changed", "signal")
     \/ GoTo(t, "print_a", "wait")
     \/ GoTo(t, "last", "exit")
  /\ UNCHANGED <<program, mainCall, A, holder, units>>

-----------------------------------------------------------------------------
(* The kernel's mutex.                                                     *)

(* Mutant: a thread forgets to lock.                                       *)
NoLockCall(t, p, q) == GoTo(t, p, q) /\ UNCHANGED holder

LockCall(t, p, q)   == holder = NoOwner /\ GoTo(t, p, q) /\ holder' = t
UnlockCall(t, p, q) == GoTo(t, p, q) /\ holder' = NoOwner

MutexStep(t) ==
  /\ \/ LockCall("first", "lock", "change") /\ t = "first"
     \/ LockCall("second", "lock", "test") /\ t = "second"
     \/ UnlockCall(t, "unlock", "last")
  /\ UNCHANGED <<program, mainCall, A, units>>

-----------------------------------------------------------------------------
(* first()                                                                 *)

sleep ==
  /\ GoTo("first", "sleep", "hello")
  /\ UNCHANGED <<program, mainCall, A, holder, units>>

ChangeA ==
  /\ GoTo("first", "change", "changed")
  /\ A' = 1
  /\ UNCHANGED <<program, mainCall, holder, units>>

Woken(p) == IF p = "blocked" THEN "relock" ELSE p

(* Mutant: condvar_signal() is forgotten.                                  *)
NoSignal ==
  /\ GoTo("first", "signal", "unlock")
  /\ UNCHANGED <<program, mainCall, A, holder, units>>

(* condvar_signal() wakes a thread that sleeps and is lost if none does.   *)
Signal ==
  /\ call["first"] = "signal"
  /\ call' = [call EXCEPT !["first"] = "unlock", !["second"] = Woken(@)]
  /\ UNCHANGED <<program, mainCall, A, holder, units>>

Up ==
  /\ GoTo("first", "up", "exit")
  /\ units' = units + 1
  /\ UNCHANGED <<program, mainCall, A, holder>>

-----------------------------------------------------------------------------
(* second()                                                                *)

(* while (a == 0)                                                          *)
TestA ==
  /\ GoTo("second", "test", IF A = 0 THEN "print_a" ELSE "unlock")
  /\ UNCHANGED <<program, mainCall, A, holder, units>>

(* condvar_wait() gives the mutex back and sleeps in one step ...          *)
CondWait ==
  /\ UnlockCall("second", "wait", "blocked")
  /\ UNCHANGED <<program, mainCall, A, units>>

(* ... and returns with the mutex.                                         *)
CondReturn ==
  /\ LockCall("second", "relock", "test")
  /\ UNCHANGED <<program, mainCall, A, units>>

Down ==
  /\ units > 0
  /\ GoTo("second", "down", "last")
  /\ units' = units - 1
  /\ UNCHANGED <<program, mainCall, A, holder>>

ExitThread(t) ==
  /\ GoTo(t, "exit", "exited")
  /\ UNCHANGED <<program, mainCall, A, holder, units>>

Common(t) == Puts(t) \/ MutexStep(t) \/ ExitThread(t)

first  == sleep \/ ChangeA \/ Signal \/ Up \/ Common("first")
second == TestA \/ CondWait \/ CondReturn \/ Down \/ Common("second")

-----------------------------------------------------------------------------
(* main()                                                                  *)

Create(t, p, q) ==
  /\ mainCall = p /\ mainCall' = q
  /\ GoTo(t, "unborn", IF t = "first" THEN "sleep" ELSE "hello")
  /\ UNCHANGED <<program, A, holder, units>>

waittid(t, p, q) ==
  /\ mainCall = p /\ mainCall' = q
  /\ call[t] = "exited"
  /\ UNCHANGED <<program, call, A, holder, units>>

mainThread ==
  \/ Create("first", "create_first", "create_second")
  \/ Create("second", "create_second", "join_first")
  \/ waittid("first", "join_first", "join_second")
  \/ waittid("second", "join_second", "passed")

HandoverNext == mainThread \/ first \/ second

(* Every thread that can run is scheduled.                                 *)
HandoverFairness == WF_handoverVars(mainThread) /\ WF_handoverVars(first) /\ WF_handoverVars(second)

HandoverSpec == HandoverInit /\ [][HandoverNext]_handoverVars /\ HandoverFairness

-----------------------------------------------------------------------------

HandoverTypes ==
  /\ program \in {"condvar", "sem"}
  /\ call \in [Pair -> {"unborn", "sleep", "hello", "lock", "change", "changed", "signal",
                         "unlock", "test", "print_a", "wait", "blocked", "relock", "up", "down",
                         "last", "exit", "exited"}]
  /\ mainCall \in {"create_first", "create_second", "join_first", "join_second", "passed"}
  /\ A \in {0, 1}
  /\ holder \in Pair \cup {NoOwner}
  /\ units \in 0 .. 1

(* No wakeup is lost: the second thread sleeps only while the signal is    *)
(* still to come, although it has looked at a some steps before, and the   *)
(* signal goes to nobody if it comes earlier (ch8b_test_condvar.c:28-31).  *)
NoLostWakeup ==
  call["second"] \in {"print_a", "wait", "blocked"} =>
    call["first"] \in {"unborn", "sleep", "hello", "lock", "change", "changed", "signal"}

Done    == call["first"] \in {"changed", "signal", "unlock", "last", "exit", "exited"}
Resumed == call["second"] \in {"exit", "exited"}

Order == INSTANCE InOrder WITH done <- Done, resumed <- Resumed

(* "Second can work now" comes once, and after the work of the first, on   *)
(* every schedule, also if the second thread is the faster one or if the   *)
(* first one has finished before it starts (ch8b_test_condvar.c:28-33,     *)
(* ch8b_sync_sem.c:19-21).                                                 *)
ImplementsOrder == Order!OrderSpec

=============================================================================
