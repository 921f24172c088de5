--------------------------- MODULE DeadlockDetect ---------------------------
(***************************************************************************)
(* user/src/ucore/ch8_sem1_deadlock.c and ch8_sem2_deadlock.c: threads that*)
(* take resources in an order that leads into a deadlock (sem1) or cannot  *)
(* (sem2), on a kernel whose semaphore_down answers -0xdead instead of     *)
(* letting a deadlock happen.                                              *)
(***************************************************************************)
EXTENDS Integers, Sequences, FiniteSets

CONSTANT Programs (* what the arrays of a program say                     *)

Main == "main"
Barrier == "barrier"
NoRequest == "none"

(* p.threads are numbered 1 to 3 in sem1, 0 to 3 in sem2; p.res_num[s] are *)
(* the units of resource s; p.alloc[t] the resources t takes first, in     *)
(* order, each once; p.request[t] the one it then tries for;               *)
(* p.barrierFirst: a refused thread gives the barrier back before its      *)
(* resources (sem1) or after them.                                         *)
IsProgram(p) ==
  LET res == DOMAIN p.res_num IN
  /\ IsFiniteSet(p.threads) /\ p.threads # {}
  /\ Main \notin p.threads /\ {Barrier, NoRequest} \cap res = {}
  /\ p.res_num \in [res -> Nat]
  /\ p.alloc \in [p.threads -> Seq(res) \ {<<>>}]
  /\ \A t \in p.threads : \A k, l \in 1 .. Len(p.alloc[t]) : p.alloc[t][k] = p.alloc[t][l] => k = l
  /\ p.request \in [p.threads -> res \cup {NoRequest}]
  /\ p.barrierFirst \in BOOLEAN

Allocators(p, s) == {t \in p.threads : \E k \in 1 .. Len(p.alloc[t]) : p.alloc[t][k] = s}

(* What the threads take first is there for all of them (r2 of sem1 has the*)
(* two units that t1 and t2 take).                                         *)
AllocationsFit(p) ==
  \A s \in DOMAIN p.res_num : Cardinality(Allocators(p, s)) <= p.res_num[s]

(* sem1: all units that are tried for have been taken by somebody first.   *)
Exhausted(p) ==
  \A t \in p.threads :
    /\ p.request[t] # NoRequest
    /\ Cardinality(Allocators(p, p.request[t])) = p.res_num[p.request[t]]

(* sem1: only all of them together can wait for each other.                *)
Entangled(p) ==
  \A D \in (SUBSET p.threads) \ {{}} :
    (\A t \in D : Allocators(p, p.request[t]) \subseteq D) => D = p.threads

(* sem2: who tries for a unit can wait for a thread that tries for nothing.*)
Relieved(p) ==
  \A t \in p.threads :
    p.request[t] # NoRequest =>
      \E v \in Allocators(p, p.request[t]) : p.request[v] = NoRequest

ASSUME ProgramAssumption ==
  \A p \in Programs :
    /\ IsProgram(p) /\ AllocationsFit(p)
    /\ IF p.barrierFirst THEN Exhausted(p) /\ Entangled(p) ELSE Relieved(p)

VARIABLES
  program, (* which of them runs                                           *)
  avail, (* avail[s]: the count of semaphore s                             *)
  held,  (* held[t][s]: the units t has taken and not given back           *)
  need,  (* need[t]: the semaphore t is blocked on, or NoRequest           *)
  at,    (* at[t]: the call of deadlock_test that thread t is in or makes  *)
         (* next: the downs "alloc", "barrier" and "try", the ups "return" *)
         (* (of what it tried for), "leave" (the barrier) and "free", or   *)
         (* "exit"                                                         *)
  nth,   (* nth[t]: which of its resources "alloc" or "free" is about      *)
  refused, (* refused[t]: it is on the way to exit(-1)                     *)
  code,  (* code[t]: what it exited with; "unborn", "running" before       *)
  main,  (* "create", "release", "join" or "checked"                       *)
  fail,  (* how many threads did not exit with 0                           *)
  ready  (* history: all threads were at the barrier when it was opened    *)

kernel == <<avail, held, need>>
place  == <<at, nth, refused>>
vars == <<program, kernel, place, code, main, fail, ready>>

Threads == program.threads
res_num == program.res_num
alloc   == program.alloc
request == program.request
Res     == DOMAIN res_num
Sems  == Res \cup {Barrier}
Procs == Threads \cup {Main}

Init ==
  /\ program \in Programs
  /\ avail = [s \in Sems |-> IF s = Barrier THEN 0 ELSE res_num[s]]
  /\ held = [t \in Procs |->
               [s \in Sems |-> IF t = Main /\ s = Barrier THEN Cardinality(Threads) ELSE 0]]
  /\ need = [t \in Procs |-> NoRequest]
  /\ at = [t \in Threads |-> "alloc"]
  /\ nth = [t \in Threads |-> 1]
  /\ refused = [t \in Threads |-> FALSE]
  /\ code = [t \in Threads |-> "unborn"]
  /\ main = "create"
  /\ fail = 0
  /\ ready = FALSE

-----------------------------------------------------------------------------
(* The kernel: counting semaphores with deadlock detection.                *)

(* The processes of a set D wait for each other when every unit of what    *)
(* one of them waits for is held inside D.                                 *)
WaitForEachOther(D, wants) ==
  \A u \in D : /\ wants[u] # NoRequest
               /\ avail[wants[u]] = 0
               /\ \A v \in Procs \ D : held[v][wants[u]] = 0

(* enable_deadlock_detect(1): a request that would close such a set is     *)
(* refused.                                                                *)
WouldDeadlock(t, s) ==
  \E D \in SUBSET Procs : t \in D /\ WaitForEachOther(D, [need EXCEPT ![t] = s])

(* Mutant: detection is not enabled.                                       *)
NeverRefused(t, s) == FALSE

(* Mutant: a request is refused whenever no unit is free.                  *)
RefusedWhenBusy(t, s) == avail[s] = 0

Refused(t, s) == WouldDeadlock(t, s)

Take(t, s) ==
  /\ avail[s] > 0
  /\ avail' = [avail EXCEPT ![s] = @ - 1]
  /\ held' = [held EXCEPT ![t][s] = @ + 1]
  /\ need' = [need EXCEPT ![t] = NoRequest]

Block(t, s) ==
  /\ avail[s] = 0
  /\ need' = [need EXCEPT ![t] = s]
  /\ UNCHANGED <<avail, held>>

Give(t, s) ==
  /\ avail' = [avail EXCEPT ![s] = @ + 1]
  /\ held' = [held EXCEPT ![t][s] = @ - 1]
  /\ UNCHANGED need

(* semaphore_down(s): the unit is there, t waits for it, or it is told     *)
(* -0xdead.                                                                *)
Got(t, s) ==
  /\ need[t] = s \/ (need[t] = NoRequest /\ ~Refused(t, s))
  /\ Take(t, s)

Waits(t, s) == need[t] = NoRequest /\ ~Refused(t, s) /\ Block(t, s)

Denied(t, s) == need[t] = NoRequest /\ Refused(t, s) /\ UNCHANGED kernel

-----------------------------------------------------------------------------
(* The threads. assert_eq(.., 0) ends one that is told -0xdead.            *)

At(t, p) == code[t] = "running" /\ at[t] = p

GoTo(t, p, k) == at' = [at EXCEPT ![t] = p] /\ nth' = [nth EXCEPT ![t] = k]

More(t) == nth[t] < Len(alloc[t])

Panics(t) == code' = [code EXCEPT ![t] = "panic"]

(* The checked calls of sem_alloc.                                         *)
sem_alloc(t) ==
  /\ At(t, "alloc")
  /\ LET s == alloc[t][nth[t]] IN
       \/ /\ Got(t, s) /\ UNCHANGED code
          /\ IF More(t) THEN GoTo(t, "alloc", nth[t] + 1) ELSE GoTo(t, "barrier", 1)
       \/ Waits(t, s) /\ UNCHANGED <<at, nth, code>>
       \/ Denied(t, s) /\ Panics(t) /\ UNCHANGED <<at, nth>>
  /\ UNCHANGED <<program, refused, main, fail, ready>>

(* Its last one, whose answer sem1 does not look at.                       *)
AtBarrier(t) ==
  LET next == IF request[t] = NoRequest THEN "leave" ELSE "try" IN
  /\ At(t, "barrier")
  /\ \/ Got(t, Barrier) /\ GoTo(t, next, 1) /\ UNCHANGED code
     \/ Waits(t, Barrier) /\ UNCHANGED <<at, nth, code>>
     \/ /\ Denied(t, Barrier)
        /\ IF program.barrierFirst THEN GoTo(t, next, 1) /\ UNCHANGED code
           ELSE Panics(t) /\ UNCHANGED <<at, nth>>
  /\ UNCHANGED <<program, refused, main, fail, ready>>

(* Mutant: sem_dealloc() forgets the barrier when it is called from here.  *)
TryKeepsBarrier(t) ==
  /\ At(t, "try")
  /\ \/ Got(t, request[t]) /\ GoTo(t, "return", 1) /\ UNCHANGED refused
     \/ Waits(t, request[t]) /\ UNCHANGED place
     \/ /\ Denied(t, request[t]) /\ refused' = [refused EXCEPT ![t] = TRUE]
        /\ GoTo(t, "free", 1)
  /\ UNCHANGED <<program, code, main, fail, ready>>

(* Told -0xdead, it gives everything back and exits with -1.               *)
try_sem_down(t) ==
  /\ At(t, "try")
  /\ \/ Got(t, request[t]) /\ GoTo(t, "return", 1) /\ UNCHANGED refused
     \/ Waits(t, request[t]) /\ UNCHANGED place
     \/ /\ Denied(t, request[t]) /\ refused' = [refused EXCEPT ![t] = TRUE]
        /\ GoTo(t, IF program.barrierFirst THEN "leave" ELSE "free", 1)
  /\ UNCHANGED <<program, code, main, fail, ready>>

ReturnUnit(t) ==
  /\ At(t, "return")
  /\ Give(t, request[t]) /\ GoTo(t, "leave", 1)
  /\ UNCHANGED <<program, refused, code, main, fail, ready>>

(* The two halves of sem_dealloc; a refused thread of sem2 comes here after*)
(* the resources.                                                          *)
BarrierLast(t) == refused[t] /\ ~program.barrierFirst

LeaveBarrier(t) ==
  /\ At(t, "leave")
  /\ Give(t, Barrier)
  /\ GoTo(t, IF BarrierLast(t) THEN "exit" ELSE "free", 1)
  /\ UNCHANGED <<program, refused, code, main, fail, ready>>

FreeResource(t) ==
  /\ At(t, "free")
  /\ Give(t, alloc[t][nth[t]])
  /\ IF More(t) THEN GoTo(t, "free", nth[t] + 1)
     ELSE GoTo(t, IF BarrierLast(t) THEN "leave" ELSE "exit", 1)
  /\ UNCHANGED <<program, refused, code, main, fail, ready>>

(* Mutant: try_sem_down ends as deadlock_test does.                        *)
ExitWithZero(t) ==
  /\ At(t, "exit")
  /\ code' = [code EXCEPT ![t] = "0"]
  /\ UNCHANGED <<program, kernel, place, main, fail, ready>>

(* exit(0) at the end of deadlock_test, exit(-1) at the end of try_sem_down.*)
ExitThread(t) ==
  /\ At(t, "exit")
  /\ code' = [code EXCEPT ![t] = IF refused[t] THEN "-1" ELSE "0"]
  /\ UNCHANGED <<program, kernel, place, main, fail, ready>>

deadlock_test(t) ==
  /\ t \in Threads
  /\ \/ sem_alloc(t) \/ AtBarrier(t) \/ try_sem_down(t)
     \/ ReturnUnit(t) \/ LeaveBarrier(t) \/ FreeResource(t) \/ ExitThread(t)

(* main: the threads start (in which order makes no difference, for each   *)
(* may be late in running); after sleep(500), only a delay, the barrier is *)
(* opened unit by unit; then every thread is waited for and the exit codes *)
(* are counted.                                                            *)
CreateThread(t) ==
  /\ main = "create"
  /\ code[t] = "unborn"
  /\ code' = [code EXCEPT ![t] = "running"]
  /\ UNCHANGED <<program, kernel, place, main, fail, ready>>

AfterSleep ==
  /\ main = "create"
  /\ \A t \in Threads : code[t] # "unborn"
  /\ main' = "release"
  /\ ready' = \A t \in Threads : need[t] = Barrier
  /\ UNCHANGED <<program, kernel, place, code, fail>>

ReleaseBarrier ==
  /\ main = "release"
  /\ IF held[Main][Barrier] > 0
     THEN Give(Main, Barrier) /\ UNCHANGED main
     ELSE main' = "join" /\ UNCHANGED kernel
  /\ UNCHANGED <<program, place, code, fail, ready>>

Exited(t) == code[t] \in {"0", "-1", "panic"}

WaitAll ==
  /\ main = "join"
  /\ \A t \in Threads : Exited(t)
  /\ main' = "checked"
  /\ fail' = Cardinality({t \in Threads : code[t] # "0"})
  /\ UNCHANGED <<program, kernel, place, code, ready>>

mainThread == AfterSleep \/ ReleaseBarrier \/ WaitAll \/ \E t \in Threads : CreateThread(t)

Next == mainThread \/ \E t \in Threads : deadlock_test(t)

(* Every thread that can run is scheduled, so sleep(500) ends.             *)
Fairness ==
  /\ WF_vars(mainThread)
  /\ \A t \in UNION {p.threads : p \in Programs} : WF_vars(deadlock_test(t))

Spec == Init /\ [][Next]_vars /\ Fairness

-----------------------------------------------------------------------------

Total(s) == IF s = Barrier THEN Cardinality(Threads) ELSE res_num[s]

(* sem1: if every thread was at the barrier when sleep(500) ended, exactly *)
(* one thread is refused, whatever the order after that, and the assertion *)
(* fail > 0 (ch8_sem1_deadlock.c:98) holds.                                *)
OneIsRefused == main = "checked" /\ program.barrierFirst /\ ready => fail = 1

(* sem2: nobody is refused, even when the threads reach the barrier late   *)
(* (assert(fail == 0), ch8_sem2_deadlock.c).                               *)
NobodyIsRefused == main = "checked" /\ ~program.barrierFirst => fail = 0

(* At the end every unit is back, also those of a thread that was refused. *)
UnitsReturned == main = "checked" => \A s \in Sems : avail[s] = Total(s)

=============================================================================
