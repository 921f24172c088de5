------------------------ MODULE DeadlockDetectProofs ------------------------
(***************************************************************************)
(* The units of the semaphores and who is refused one, for every program   *)
(* of the shape of ch8_sem1_deadlock.c and ch8_sem2_deadlock.c.            *)
(***************************************************************************)
EXTENDS DeadlockDetect, FiniteSetTheorems, TLAPS

(* What a thread has, by the place it is at: of its resources those that   *)
(* it has taken and not yet given back, the unit it tried for, a place in  *)
(* the barrier.                                                            *)
HasAlloc(t, s) ==
  \E k \in 1 .. Len(alloc[t]) :
    /\ alloc[t][k] = s
    /\ at[t] = "alloc" => k < nth[t]
    /\ at[t] = "free" => k >= nth[t]
    /\ at[t] = "leave" => ~BarrierLast(t)
    /\ at[t] # "exit"

HasRequest(t, s) == at[t] = "return" /\ request[t] = s

InBarrier(t) == at[t] \in {"try", "return", "leave"} \/ (at[t] = "free" /\ BarrierLast(t))

(* Who has a unit of s of either kind, and who is in the barrier.          *)
Allocated(s) == {t \in Threads : HasAlloc(t, s)}
Requested(s) == {t \in Threads : HasRequest(t, s)}
Inside       == {t \in Threads : InBarrier(t)}

Bit(b) == IF b THEN 1 ELSE 0

Places == {"alloc", "barrier", "try", "return", "leave", "free", "exit"}

DetectTypes ==
  /\ program \in Programs
  /\ avail \in [Sems -> Nat]
  /\ held \in [Procs -> [Sems -> Int]]
  /\ need \in [Procs -> Sems \cup {NoRequest}]
  /\ at \in [Threads -> Places]
  /\ nth \in [Threads -> Nat \ {0}] /\ \A t \in Threads : nth[t] <= Len(alloc[t])
  /\ refused \in [Threads -> BOOLEAN]
  /\ code \in [Threads -> {"unborn", "running", "0", "-1"}]
  /\ main \in {"create", "release", "join", "checked"}
  /\ fail \in Nat
  /\ ready \in BOOLEAN

(* No unit is lost or made.                                                *)
Accounts ==
  /\ \A s \in Res :
       avail[s] + Cardinality(Allocated(s)) + Cardinality(Requested(s)) = res_num[s]
  /\ avail[Barrier] + Cardinality(Inside) + held[Main][Barrier] = Cardinality(Threads)
  /\ held[Main][Barrier] \in Nat
  /\ \A t \in Threads, s \in Res : held[t][s] = Bit(HasAlloc(t, s)) + Bit(HasRequest(t, s))

(* The semaphore of the down a thread is in.                               *)
Wanted(t) ==
  IF at[t] = "alloc" THEN alloc[t][nth[t]]
  ELSE IF at[t] = "barrier" THEN Barrier ELSE request[t]

(* Who is blocked is in a down of that semaphore; main never is.           *)
Blocked ==
  /\ need[Main] = NoRequest
  /\ \A t \in Threads :
       need[t] # NoRequest =>
         code[t] = "running" /\ at[t] \in {"alloc", "barrier", "try"} /\ need[t] = Wanted(t)

(* How the place, the exit code and the refusal go together.               *)
Courses ==
  /\ \A t \in Threads :
       /\ code[t] = "unborn" => at[t] = "alloc"
       /\ code[t] \in {"0", "-1"} => at[t] = "exit" /\ (code[t] = "-1" <=> refused[t])
       /\ at[t] \in {"try", "return"} => request[t] # NoRequest
       /\ refused[t] => at[t] \in {"leave", "free", "exit"}
  /\ main \in {"join", "checked"} => held[Main][Barrier] = 0
  /\ main = "checked" =>
       /\ \A t \in Threads : code[t] \in {"0", "-1"}
       /\ fail = Cardinality({t \in Threads : code[t] # "0"})

(* In sem2 nobody is refused; in sem1, at most one, and once all threads   *)
(* were at the barrier at the right time, nobody gets what he tries for    *)
(* before somebody is.                                                     *)
Refusals ==
  /\ ~program.barrierFirst => \A t \in Threads : ~refused[t]
  /\ \A t, u \in Threads : refused[t] /\ refused[u] => t = u
  /\ program.barrierFirst /\ ready /\ (\A t \in Threads : ~refused[t]) =>
       \A t \in Threads : at[t] \in {"barrier", "try"}

DetectInv == DetectTypes /\ Accounts /\ Blocked /\ Courses /\ Refusals

-----------------------------------------------------------------------------
(* The programs and the counting.                                          *)

LEMMA ProgramTypes ==
  ASSUME program \in Programs
  PROVE  /\ IsFiniteSet(Threads) /\ Main \notin Threads
         /\ Barrier \notin Res /\ NoRequest \notin Res /\ Barrier # NoRequest
         /\ res_num \in [Res -> Nat]
         /\ \A t \in Threads :
              /\ Len(alloc[t]) \in Nat \ {0}
              /\ \A k \in 1 .. Len(alloc[t]) : alloc[t][k] \in Res
              /\ \A k, l \in 1 .. Len(alloc[t]) : alloc[t][k] = alloc[t][l] => k = l
              /\ request[t] \in Res \cup {NoRequest}
         /\ program.barrierFirst \in BOOLEAN
<1>1. IsProgram(program)
  BY ProgramAssumption
<1>2. \A t \in Threads : alloc[t] \in Seq(Res) /\ alloc[t] # <<>>
  BY <1>1 DEF IsProgram, Threads, alloc, Res, res_num
<1>3. \A t \in Threads : Len(alloc[t]) \in Nat \ {0} /\ \A k \in 1 .. Len(alloc[t]) : alloc[t][k] \in Res
  BY <1>2
<1>. QED BY <1>1, <1>3 DEF IsProgram, Threads, alloc, Res, res_num, request, Barrier, NoRequest

LEMMA SetsFinite ==
  ASSUME program \in Programs
  PROVE  /\ \A s : IsFiniteSet(Allocated(s)) /\ IsFiniteSet(Requested(s))
         /\ IsFiniteSet(Inside)
         /\ \A s : Cardinality(Allocated(s)) \in Nat /\ Cardinality(Requested(s)) \in Nat
         /\ Cardinality(Inside) \in Nat
<1>1. \A T \in SUBSET Threads : IsFiniteSet(T) /\ Cardinality(T) \in Nat
  <2> SUFFICES ASSUME NEW T \in SUBSET Threads PROVE IsFiniteSet(T) /\ Cardinality(T) \in Nat
    OBVIOUS
  <2>1. IsFiniteSet(T)
    BY ProgramTypes, FS_Subset
  <2>. QED BY <2>1, FS_CardinalityType
<1>. QED BY <1>1 DEF Allocated, Requested, Inside

(* A set in which only t may come or go.                                   *)
LEMMA ComesOrGoes ==
  ASSUME NEW S, IsFiniteSet(S), NEW T, NEW t, \A u : u # t => (u \in T <=> u \in S)
  PROVE  Cardinality(T) = Cardinality(S) + Bit(t \in T) - Bit(t \in S)
<1>1. Cardinality(S) \in Nat
  BY FS_CardinalityType
<1>2. CASE t \in T
  <2>1. T = S \cup {t}
    BY <1>2
  <2>2. Cardinality(T) = IF t \in S THEN Cardinality(S) ELSE Cardinality(S) + 1
    BY <2>1, FS_AddElement
  <2>. QED BY <1>1, <1>2, <2>2 DEF Bit
<1>3. CASE t \notin T
  <2>1. T = S \ {t}
    BY <1>3
  <2>2. Cardinality(T) = IF t \in S THEN Cardinality(S) - 1 ELSE Cardinality(S)
    BY <2>1, FS_RemoveElement
  <2>. QED BY <1>1, <1>3, <2>2 DEF Bit
<1>. QED BY <1>2, <1>3

(* A step of t, as far as the others can tell.                             *)
OnlyMoves(t) ==
  /\ UNCHANGED program
  /\ \A u \in Threads : u # t => at'[u] = at[u] /\ nth'[u] = nth[u] /\ refused'[u] = refused[u]

LEMMA OthersStay ==
  ASSUME NEW t \in Threads, OnlyMoves(t), NEW u \in Threads, u # t
  PROVE  /\ \A s : (HasAlloc(u, s)' <=> HasAlloc(u, s)) /\ (HasRequest(u, s)' <=> HasRequest(u, s))
         /\ InBarrier(u)' <=> InBarrier(u)
         /\ BarrierLast(u)' <=> BarrierLast(u)
         /\ Wanted(u)' = Wanted(u)
BY DEF OnlyMoves, HasAlloc, HasRequest, InBarrier, BarrierLast, Wanted, alloc, request, Threads

LEMMA Counts ==
  ASSUME program \in Programs, NEW t \in Threads, OnlyMoves(t)
  PROVE  /\ \A s : /\ Cardinality(Allocated(s))' =
                       Cardinality(Allocated(s)) + Bit(HasAlloc(t, s))' - Bit(HasAlloc(t, s))
                  /\ Cardinality(Requested(s))' =
                       Cardinality(Requested(s)) + Bit(HasRequest(t, s))' - Bit(HasRequest(t, s))
         /\ Cardinality(Inside)' = Cardinality(Inside) + Bit(InBarrier(t))' - Bit(InBarrier(t))
<1>1. Threads' = Threads
  BY DEF OnlyMoves, Threads
<1>2. ASSUME NEW s
      PROVE  /\ Cardinality(Allocated(s))' =
                  Cardinality(Allocated(s)) + Bit(HasAlloc(t, s))' - Bit(HasAlloc(t, s))
             /\ Cardinality(Requested(s))' =
                  Cardinality(Requested(s)) + Bit(HasRequest(t, s))' - Bit(HasRequest(t, s))
  <2>1. \A u : u # t => /\ (u \in Allocated(s)' <=> u \in Allocated(s))
                       /\ (u \in Requested(s)' <=> u \in Requested(s))
    BY <1>1, OthersStay DEF Allocated, Requested
  <2>2. /\ t \in Allocated(s)' <=> HasAlloc(t, s)'
        /\ t \in Allocated(s) <=> HasAlloc(t, s)
        /\ t \in Requested(s)' <=> HasRequest(t, s)'
        /\ t \in Requested(s) <=> HasRequest(t, s)
    BY <1>1 DEF Allocated, Requested
  <2>3. /\ Cardinality(Allocated(s)') = Cardinality(Allocated(s)) + Bit(t \in Allocated(s)') - Bit(t \in Allocated(s))
        /\ Cardinality(Requested(s)') = Cardinality(Requested(s)) + Bit(t \in Requested(s)') - Bit(t \in Requested(s))
    BY <2>1, SetsFinite, ComesOrGoes
  <2>. QED BY <2>2, <2>3 DEF Bit
<1>3. Cardinality(Inside)' = Cardinality(Inside) + Bit(InBarrier(t))' - Bit(InBarrier(t))
  <2>1. \A u : u # t => (u \in Inside' <=> u \in Inside)
    BY <1>1, OthersStay DEF Inside
  <2>2. (t \in Inside' <=> InBarrier(t)') /\ (t \in Inside <=> InBarrier(t))
    BY <1>1 DEF Inside
  <2>3. Cardinality(Inside') = Cardinality(Inside) + Bit(t \in Inside') - Bit(t \in Inside)
    BY <2>1, SetsFinite, ComesOrGoes
  <2>. QED BY <2>2, <2>3 DEF Bit
<1>. QED BY <1>2, <1>3

(* The accounts are right after a step of t if what t gets is what the     *)
(* semaphores lose.                                                        *)
LEMMA AccountsStep ==
  ASSUME DetectTypes, Accounts, NEW t \in Threads, OnlyMoves(t),
         avail' \in [Sems -> Nat], held'[Main] = held[Main],
         \A u \in Threads : u # t => held'[u] = held[u],
         \A s \in Res :
           /\ avail'[s] + Bit(HasAlloc(t, s))' + Bit(HasRequest(t, s))' =
                avail[s] + Bit(HasAlloc(t, s)) + Bit(HasRequest(t, s))
           /\ held'[t][s] = held[t][s] + avail[s] - avail'[s],
         avail'[Barrier] + Bit(InBarrier(t))' = avail[Barrier] + Bit(InBarrier(t))
  PROVE  Accounts'
<1>1. program \in Programs /\ program' = program
  BY DEF DetectTypes, OnlyMoves
<1>2. /\ Threads' = Threads /\ Res' = Res /\ res_num' = res_num /\ Barrier \in Sems
      /\ \A s \in Res : s \in Sems
  BY <1>1 DEF Threads, Res, res_num, Sems
<1>3. /\ \A s \in Sems : avail[s] \in Nat /\ avail'[s] \in Nat
      /\ \A s \in Res : res_num[s] \in Nat
  BY <1>1, ProgramTypes DEF DetectTypes
<1>4. \A s \in Res :
        (avail[s] + Cardinality(Allocated(s)) + Cardinality(Requested(s)) = res_num[s])'
  <2> SUFFICES ASSUME NEW s \in Res
               PROVE  (avail[s] + Cardinality(Allocated(s)) + Cardinality(Requested(s)) = res_num[s])'
    OBVIOUS
  <2> DEFINE a == Bit(HasAlloc(t, s)) r == Bit(HasRequest(t, s))
             a1 == Bit(HasAlloc(t, s))' r1 == Bit(HasRequest(t, s))'
             A == Cardinality(Allocated(s)) R == Cardinality(Requested(s))
             v == avail[s] v1 == avail'[s] n == res_num[s]
  <2>1. /\ Cardinality(Allocated(s))' = A + a1 - a
        /\ Cardinality(Requested(s))' = R + r1 - r
    BY <1>1, Counts
  <2>2. a \in Nat /\ r \in Nat /\ a1 \in Nat /\ r1 \in Nat
    BY DEF Bit
  <2>3. A \in Nat /\ R \in Nat /\ v \in Nat /\ v1 \in Nat
    BY <1>1, <1>2, <1>3, SetsFinite
  <2>4. v + A + R = n /\ v1 + a1 + r1 = v + a + r
    BY DEF Accounts
  <2> HIDE DEF a, r, a1, r1, A, R, v, v1, n
  <2>5. v1 + (A + a1 - a) + (R + r1 - r) = n
    BY <2>2, <2>3, <2>4
  <2>. QED BY <1>2, <2>1, <2>5 DEF v1, n
<1>5. (avail[Barrier] + Cardinality(Inside) + held[Main][Barrier] = Cardinality(Threads))'
  <2> DEFINE a == Bit(InBarrier(t)) a1 == Bit(InBarrier(t))' A == Cardinality(Inside)
  <2>1. Cardinality(Inside)' = A + a1 - a
    BY <1>1, Counts
  <2>2. a \in Nat /\ a1 \in Nat /\ A \in Nat
    BY <1>1, SetsFinite DEF Bit
  <2>3. /\ avail[Barrier] + A + held[Main][Barrier] = Cardinality(Threads) /\ held[Main][Barrier] \in Nat
        /\ avail'[Barrier] + a1 = avail[Barrier] + a
    BY DEF Accounts
  <2>4. avail[Barrier] \in Nat /\ avail'[Barrier] \in Nat
    BY <1>2, <1>3
  <2> HIDE DEF a, a1, A
  <2>5. avail'[Barrier] + (A + a1 - a) + held[Main][Barrier] = Cardinality(Threads)
    BY <2>2, <2>3, <2>4
  <2>. QED BY <1>2, <2>1, <2>5
<1>6. \A u \in Threads, s \in Res : (held[u][s] = Bit(HasAlloc(u, s)) + Bit(HasRequest(u, s)))'
  <2> SUFFICES ASSUME NEW u \in Threads, NEW s \in Res
               PROVE  (held[u][s] = Bit(HasAlloc(u, s)) + Bit(HasRequest(u, s)))'
    OBVIOUS
  <2>1. held[u][s] = Bit(HasAlloc(u, s)) + Bit(HasRequest(u, s))
    BY DEF Accounts
  <2>2. CASE u # t
    BY <2>1, <2>2, OthersStay DEF Bit
  <2>3. CASE u = t
    <3> DEFINE a == Bit(HasAlloc(t, s)) r == Bit(HasRequest(t, s))
               a1 == Bit(HasAlloc(t, s))' r1 == Bit(HasRequest(t, s))'
    <3>1. a \in Nat /\ r \in Nat /\ a1 \in Nat /\ r1 \in Nat
      BY DEF Bit
    <3>2. /\ held[t][s] = a + r /\ avail'[s] + a1 + r1 = avail[s] + a + r
          /\ held'[t][s] = held[t][s] + avail[s] - avail'[s]
      BY <2>1, <2>3
    <3> HIDE DEF a, r, a1, r1
    <3>3. held'[t][s] = a1 + r1
      BY <1>2, <1>3, <3>1, <3>2
    <3>. QED BY <2>3, <3>3 DEF a1, r1
  <2>. QED BY <2>2, <2>3
<1>7. held'[Main][Barrier] \in Nat
  BY DEF Accounts
<1>. QED BY <1>2, <1>4, <1>5, <1>6, <1>7 DEF Accounts

-----------------------------------------------------------------------------
(* Who is refused.                                                         *)

LEMMA AllocatorsFinite ==
  ASSUME program \in Programs, NEW s \in Res
  PROVE  /\ IsFiniteSet(Allocators(program, s)) /\ Cardinality(Allocators(program, s)) \in Nat
         /\ Cardinality(Allocators(program, s)) <= res_num[s]
         /\ Allocated(s) \subseteq Allocators(program, s)
         /\ Allocators(program, s) = {t \in Threads : \E k \in 1 .. Len(alloc[t]) : alloc[t][k] = s}
<1>1. Allocators(program, s) = {t \in Threads : \E k \in 1 .. Len(alloc[t]) : alloc[t][k] = s}
  BY DEF Allocators, Threads, alloc
<1>2. IsFiniteSet(Allocators(program, s))
  BY <1>1, ProgramTypes, FS_Subset
<1>3. Cardinality(Allocators(program, s)) <= res_num[s]
  BY ProgramAssumption DEF AllocationsFit, Res, res_num
<1>4. Allocated(s) \subseteq Allocators(program, s)
  BY <1>1 DEF Allocated, HasAlloc
<1>. QED BY <1>1, <1>2, <1>3, <1>4, FS_CardinalityType

(* When no unit of s is free and nobody has one that he tried for, those   *)
(* who take s first have them all.                                         *)
LEMMA AllAllocated ==
  ASSUME DetectTypes, Accounts, NEW s \in Res, avail[s] = 0,
         \A v \in Threads : at[v] = "return" => held[v][s] = 0
  PROVE  \A v \in Allocators(program, s) : HasAlloc(v, s) /\ held[v][s] # 0
<1>1. program \in Programs
  BY DEF DetectTypes
<1>2. \A v \in Threads : held[v][s] = Bit(HasAlloc(v, s)) + Bit(HasRequest(v, s))
  BY DEF Accounts
<1>3. Requested(s) = {}
  <2> SUFFICES ASSUME NEW v \in Threads, HasRequest(v, s) PROVE FALSE
    BY DEF Requested
  <2>1. held[v][s] = 0
    BY DEF HasRequest
  <2>. QED BY <1>2, <2>1 DEF Bit
<1>4. Cardinality(Allocated(s)) = res_num[s]
  <2>1. Cardinality(Requested(s)) = 0
    BY <1>3, FS_EmptySet
  <2>2. Cardinality(Allocated(s)) \in Nat
    BY <1>1, SetsFinite
  <2>3. avail[s] + Cardinality(Allocated(s)) + Cardinality(Requested(s)) = res_num[s]
    BY DEF Accounts
  <2>. QED BY <2>1, <2>2, <2>3
<1>5. Allocated(s) = Allocators(program, s)
  <2> DEFINE S == Allocators(program, s)
             T == Allocated(s)
  <2>1. IsFiniteSet(S) /\ T \in SUBSET S /\ Cardinality(S) \in Nat /\ Cardinality(S) <= Cardinality(T)
    BY <1>1, <1>4, AllocatorsFinite
  <2>2. Cardinality(T) \in Nat
    BY <1>1, SetsFinite
  <2> HIDE DEF S, T
  <2>3. Cardinality(T) <= Cardinality(S) /\ (Cardinality(S) = Cardinality(T) => S = T)
    BY <2>1, FS_Subset
  <2>4. S = T
    BY <2>1, <2>2, <2>3
  <2>. QED BY <2>4 DEF S, T
<1>. QED BY <1>2, <1>5 DEF Allocated, Bit

(* Threads that wait for each other are all in try_sem_down: who is still  *)
(* to take his first resources waits for a thread that is about to return a*)
(* unit, and who is not yet in the barrier, for main.                      *)
LEMMA OnlyTriesWait ==
  ASSUME DetectTypes, Accounts, Blocked, NEW t \in Threads, at[t] \in {"alloc", "barrier", "try"},
         NEW D \in SUBSET Procs, t \in D, WaitForEachOther(D, [need EXCEPT ![t] = Wanted(t)])
  PROVE  /\ \A u \in D : u \in Threads /\ at[u] = "try"
         /\ avail[Wanted(t)] = 0 /\ \A v \in Procs \ D : held[v][Wanted(t)] = 0
<1> DEFINE wants == [need EXCEPT ![t] = Wanted(t)]
<1>0. /\ program \in Programs /\ need \in [Procs -> Sems \cup {NoRequest}]
      /\ at \in [Threads -> Places] /\ avail \in [Sems -> Nat]
      /\ \A u \in Threads : nth[u] \in 1 .. Len(alloc[u])
  BY ProgramTypes DEF DetectTypes
<1>1. Main \notin Threads /\ t # Main /\ Main \in Procs
  BY <1>0, ProgramTypes DEF Procs
<1>2. \A u \in D : wants[u] = (IF u = t THEN Wanted(t) ELSE need[u])
  BY <1>0
<1>3. \A u \in D : wants[u] # NoRequest /\ avail[wants[u]] = 0 /\ \A v \in Procs \ D : held[v][wants[u]] = 0
  BY DEF WaitForEachOther
<1>4. Main \notin D
  BY <1>1, <1>2, <1>3 DEF Blocked
<1>5. ASSUME NEW u \in D
      PROVE  /\ u \in Threads /\ at[u] \in {"alloc", "barrier", "try"}
             /\ avail[Wanted(u)] = 0 /\ \A v \in Procs \ D : held[v][Wanted(u)] = 0
  <2>1. u \in Threads
    BY <1>4 DEF Procs
  <2>2. wants[u] = Wanted(u) /\ at[u] \in {"alloc", "barrier", "try"}
    BY <1>2, <1>3, <2>1 DEF Blocked
  <2>. QED BY <1>3, <2>1, <2>2
<1>6. ASSUME NEW u \in D, at[u] = "barrier" PROVE FALSE
  <2>1. avail[Barrier] = 0 /\ held[Main][Barrier] = 0
    BY <1>1, <1>4, <1>5, <1>6 DEF Wanted
  <2>2. Cardinality(Inside) = Cardinality(Threads)
    BY <1>0, <2>1, SetsFinite DEF Accounts
  <2>3. Inside = Threads
    <3>1. Inside \in SUBSET Threads /\ IsFiniteSet(Threads)
      BY <1>0, ProgramTypes DEF Inside
    <3>. QED BY <2>2, <3>1, FS_Subset
  <2>4. u \in Threads /\ InBarrier(u)
    BY <1>5, <2>3 DEF Inside
  <2>. QED BY <1>6, <2>4 DEF InBarrier
<1>7. ASSUME NEW u \in D, at[u] = "alloc" PROVE FALSE
  <2> DEFINE s == alloc[u][nth[u]]
  <2>1. u \in Threads /\ avail[s] = 0 /\ \A v \in Procs \ D : held[v][s] = 0
    BY <1>5, <1>7 DEF Wanted
  <2>2. s \in Res /\ u \in Allocators(program, s)
    <3>1. s \in Res
      BY <1>0, <2>1, ProgramTypes
    <3>2. \E k \in 1 .. Len(alloc[u]) : alloc[u][k] = s
      BY <1>0, <2>1
    <3>. QED BY <1>0, <2>1, <3>1, <3>2, AllocatorsFinite
  <2>3. \A v \in Threads : at[v] = "return" => held[v][s] = 0
    <3>1. \A v \in Threads : at[v] = "return" => v \in Procs \ D
      BY <1>5 DEF Procs
    <3>. QED BY <2>1, <3>1
  <2> HIDE DEF s
  <2>4. HasAlloc(u, s)
    BY <2>1, <2>2, <2>3, AllAllocated
  <2>5. PICK k \in 1 .. Len(alloc[u]) : alloc[u][k] = s /\ k < nth[u]
    BY <1>7, <2>4 DEF HasAlloc
  <2>6. k = nth[u]
    BY <1>0, <2>1, <2>5, ProgramTypes DEF s
  <2>. QED BY <1>0, <2>1, <2>5, <2>6
<1>. QED BY <1>5, <1>6, <1>7

(* The unchecked call and the checked ones before it are never refused.    *)
LEMMA NotRefusedBefore ==
  ASSUME DetectTypes, Accounts, Blocked, NEW t \in Threads, at[t] \in {"alloc", "barrier"}
  PROVE  ~Refused(t, Wanted(t))
BY OnlyTriesWait DEF Refused, WouldDeadlock

(* In sem2 no other is: who waits for what t tries for has, among those he *)
(* waits for, a thread that tries for nothing.                             *)
LEMMA NotRefusedIfRelieved ==
  ASSUME DetectTypes, Accounts, Blocked, Courses, ~program.barrierFirst,
         NEW t \in Threads, at[t] = "try"
  PROVE  ~Refused(t, request[t])
<1> SUFFICES ASSUME Refused(t, request[t]) PROVE FALSE
  OBVIOUS
<1>1. Wanted(t) = request[t]
  BY DEF Wanted
<1>2. PICK D \in SUBSET Procs : t \in D /\ WaitForEachOther(D, [need EXCEPT ![t] = Wanted(t)])
  BY <1>1 DEF Refused, WouldDeadlock
<1>3. /\ \A u \in D : u \in Threads /\ at[u] = "try"
      /\ avail[request[t]] = 0 /\ \A v \in Procs \ D : held[v][request[t]] = 0
  BY <1>1, <1>2, OnlyTriesWait
<1>4. program \in Programs /\ request[t] # NoRequest
  BY DEF DetectTypes, Courses
<1>5. request[t] \in Res
  BY <1>4, ProgramTypes
<1>6. PICK v \in Allocators(program, request[t]) : request[v] = NoRequest
  <2>1. Relieved(program)
    BY <1>4, ProgramAssumption
  <2>. QED BY <1>4, <2>1 DEF Relieved, request, Threads
<1>7. v \in Threads
  BY <1>6 DEF Allocators, Threads
<1>8. held[v][request[t]] # 0
  <2>1. \A w \in Threads : at[w] = "return" => w \in Procs \ D
    BY <1>3 DEF Procs
  <2>. QED BY <1>3, <1>5, <1>6, <2>1, AllAllocated
<1>9. v \in D
  BY <1>3, <1>7, <1>8 DEF Procs
<1>. QED BY <1>3, <1>6, <1>7, <1>9 DEF Courses

(* In sem1 a thread is refused only when all are trying: those it would    *)
(* wait with have among them whoever takes first what one of them tries    *)
(* for.                                                                    *)
LEMMA RefusedWhenAllTry ==
  ASSUME DetectTypes, Accounts, Blocked, Courses, program.barrierFirst,
         NEW t \in Threads, at[t] = "try", Refused(t, request[t])
  PROVE  \A u \in Threads : at[u] = "try"
<1>1. Wanted(t) = request[t]
  BY DEF Wanted
<1>2. PICK D \in SUBSET Procs : t \in D /\ WaitForEachOther(D, [need EXCEPT ![t] = Wanted(t)])
  BY <1>1 DEF Refused, WouldDeadlock
<1>3. \A u \in D : u \in Threads /\ at[u] = "try"
  BY <1>2, OnlyTriesWait
<1>4. program \in Programs /\ need \in [Procs -> Sems \cup {NoRequest}]
  BY DEF DetectTypes
<1>5. ASSUME NEW u \in D PROVE Allocators(program, request[u]) \subseteq D
  <2> DEFINE s == request[u]
             wants == [need EXCEPT ![t] = Wanted(t)]
  <2>1. u \in Threads /\ at[u] = "try" /\ u \in Procs
    BY <1>3
  <2>2. s \in Res
    BY <1>4, <2>1, ProgramTypes DEF Courses
  <2>3. wants[u] = (IF u = t THEN Wanted(t) ELSE need[u]) /\ wants[u] # NoRequest
    BY <1>2, <1>4, <2>1 DEF WaitForEachOther
  <2>4. wants[u] = s
    BY <1>1, <2>1, <2>3 DEF Blocked, Wanted
  <2>5. avail[s] = 0 /\ \A v \in Procs \ D : held[v][s] = 0
    BY <1>2, <2>4 DEF WaitForEachOther
  <2>6. \A v \in Threads : at[v] = "return" => held[v][s] = 0
    <3>1. \A v \in Threads : at[v] = "return" => v \in Procs \ D
      BY <1>3 DEF Procs
    <3>. QED BY <2>5, <3>1
  <2> HIDE DEF s, wants
  <2>7. \A v \in Allocators(program, s) : held[v][s] # 0
    BY <2>2, <2>5, <2>6, AllAllocated
  <2>8. \A v \in Allocators(program, s) : v \in Procs
    BY DEF Allocators, Threads, Procs
  <2>9. Allocators(program, s) \subseteq D
    BY <2>5, <2>7, <2>8
  <2>. QED BY <2>9 DEF s
<1>6. Entangled(program)
  BY <1>4, ProgramAssumption
<1>7. D = Threads
  <2>1. D \in (SUBSET Threads) \ {{}}
    BY <1>2, <1>3
  <2>. QED BY <1>5, <1>6, <2>1 DEF Entangled, Threads, request
<1>. QED BY <1>3, <1>7

(* In sem1 nothing that is tried for is free while all have what they take *)
(* first.                                                                  *)
LEMMA NothingLeft ==
  ASSUME DetectTypes, Accounts, program.barrierFirst, NEW t \in Threads,
         \A u \in Threads : at[u] \in {"barrier", "try"}
  PROVE  request[t] \in Res /\ avail[request[t]] = 0
<1>1. program \in Programs
  BY DEF DetectTypes
<1> DEFINE s == request[t]
<1>2. s # NoRequest /\ Cardinality(Allocators(program, s)) = res_num[s]
  <2>1. Exhausted(program)
    BY <1>1, ProgramAssumption
  <2>. QED BY <2>1 DEF Exhausted, request, Threads, res_num
<1>3. s \in Res
  BY <1>1, <1>2, ProgramTypes
<1>4. Allocated(s) = Allocators(program, s)
  <2>1. Allocators(program, s) = {u \in Threads : \E k \in 1 .. Len(alloc[u]) : alloc[u][k] = s}
    BY <1>1, <1>3, AllocatorsFinite
  <2>. QED BY <2>1 DEF Allocated, HasAlloc
<1>5. /\ avail[s] \in Nat /\ Cardinality(Requested(s)) \in Nat /\ res_num[s] \in Nat
      /\ avail[s] + Cardinality(Allocated(s)) + Cardinality(Requested(s)) = res_num[s]
  BY <1>1, <1>3, SetsFinite, ProgramTypes DEF DetectTypes, Sems, Accounts
<1>6. avail[s] = 0
  <2> HIDE DEF s
  <2>. QED BY <1>2, <1>4, <1>5
<1>. QED BY <1>3, <1>6

-----------------------------------------------------------------------------
(* The steps.                                                              *)

LEMMA InitInv == Init => DetectInv
<1> SUFFICES ASSUME Init PROVE DetectInv
  OBVIOUS
<1>1. program \in Programs
  BY DEF Init
<1>2. DetectTypes
  <2>1. /\ IsFiniteSet(Threads) /\ res_num \in [Res -> Nat] /\ Main \notin Threads
        /\ \A t \in Threads : Len(alloc[t]) \in Nat \ {0}
    BY <1>1, ProgramTypes
  <2>2. Cardinality(Threads) \in Nat
    BY <2>1, FS_CardinalityType
  <2>3. avail \in [Sems -> Nat]
    BY <2>1 DEF Init, Sems
  <2>4. held \in [Procs -> [Sems -> Int]]
    BY <2>2 DEF Init
  <2>5. \A t \in Threads : nth[t] <= Len(alloc[t])
    BY <2>1 DEF Init
  <2>6. need \in [Procs -> Sems \cup {NoRequest}] /\ at \in [Threads -> Places]
    BY DEF Init, Places
  <2>7. /\ nth \in [Threads -> Nat \ {0}] /\ refused \in [Threads -> BOOLEAN]
        /\ code \in [Threads -> {"unborn", "running", "0", "-1"}]
    BY DEF Init
  <2>8. main = "create" /\ fail = 0 /\ ready = FALSE
    BY DEF Init
  <2>. QED BY <1>1, <2>3, <2>4, <2>5, <2>6, <2>7, <2>8 DEF DetectTypes
<1>3. Accounts
  <2>1. \A t \in Threads, s \in Res : ~HasAlloc(t, s) /\ ~HasRequest(t, s)
    BY DEF Init, HasAlloc, HasRequest
  <2>2. \A t \in Threads : ~InBarrier(t)
    BY DEF Init, InBarrier
  <2>3. Inside = {} /\ \A s \in Res : Allocated(s) = {} /\ Requested(s) = {}
    BY <2>1, <2>2 DEF Inside, Allocated, Requested
  <2>4. Cardinality({}) = 0 /\ Cardinality(Threads) \in Nat
    BY <1>1, ProgramTypes, FS_EmptySet, FS_CardinalityType
  <2>5. /\ Barrier \in Sems /\ Main \in Procs /\ Main \notin Threads /\ Barrier \notin Res
        /\ res_num \in [Res -> Nat]
    BY <1>1, ProgramTypes DEF Sems, Procs
  <2>6. avail[Barrier] = 0 /\ \A s \in Res : avail[s] = res_num[s]
    BY <2>5 DEF Init, Sems
  <2>7. held[Main][Barrier] = Cardinality(Threads)
    BY <2>5 DEF Init
  <2>8. \A t \in Threads, s \in Res : held[t][s] = 0
    BY <2>5 DEF Init, Procs, Sems
  <2>9. \A s \in Res : avail[s] + Cardinality(Allocated(s)) + Cardinality(Requested(s)) = res_num[s]
    BY <2>3, <2>4, <2>5, <2>6
  <2>10. avail[Barrier] + Cardinality(Inside) + held[Main][Barrier] = Cardinality(Threads)
    BY <2>3, <2>4, <2>6, <2>7
  <2>11. \A t \in Threads, s \in Res : held[t][s] = Bit(HasAlloc(t, s)) + Bit(HasRequest(t, s))
    BY <2>1, <2>8 DEF Bit
  <2>. QED BY <2>4, <2>7, <2>9, <2>10, <2>11 DEF Accounts
<1>4. Blocked /\ Courses /\ Refusals
  BY DEF Init, Blocked, Courses, Refusals, Procs
<1>. QED BY <1>2, <1>3, <1>4 DEF DetectInv

(* A unit that is taken.                                                   *)
LEMMA TakeUnit ==
  ASSUME DetectTypes, NEW t \in Threads, NEW s \in Sems, Take(t, s)
  PROVE  /\ avail' \in [Sems -> Nat] /\ held' \in [Procs -> [Sems -> Int]]
         /\ need' \in [Procs -> Sems \cup {NoRequest}]
         /\ avail[s] > 0 /\ need'[t] = NoRequest
         /\ \A r \in Sems : /\ avail'[r] = avail[r] - Bit(r = s)
                           /\ held'[t][r] = held[t][r] + Bit(r = s)
         /\ \A u \in Procs : u # t => held'[u] = held[u] /\ need'[u] = need[u]
<1>1. t \in Procs
  BY DEF Procs
<1>2. avail[s] \in Nat /\ avail[s] > 0
  BY DEF Take, DetectTypes
<1>3. /\ avail' = [avail EXCEPT ![s] = @ - 1] /\ held' = [held EXCEPT ![t][s] = @ + 1]
      /\ need' = [need EXCEPT ![t] = NoRequest]
  BY DEF Take
<1>. QED BY <1>1, <1>2, <1>3 DEF DetectTypes, Bit

(* A unit that is given back.                                              *)
LEMMA GiveUnit ==
  ASSUME DetectTypes, NEW t \in Procs, NEW s \in Sems, Give(t, s)
  PROVE  /\ avail' \in [Sems -> Nat] /\ held' \in [Procs -> [Sems -> Int]]
         /\ need' = need
         /\ \A r \in Sems : /\ avail'[r] = avail[r] + Bit(r = s)
                           /\ held'[t][r] = held[t][r] - Bit(r = s)
         /\ \A u \in Procs : u # t => held'[u] = held[u]
<1>1. avail[s] \in Nat
  BY DEF DetectTypes
<1>2. /\ avail' = [avail EXCEPT ![s] = @ + 1] /\ held' = [held EXCEPT ![t][s] = @ - 1]
      /\ need' = need
  BY DEF Give
<1>. QED BY <1>1, <1>2 DEF DetectTypes, Bit

(* What a step of t has to keep for Blocked, Courses and Refusals.         *)
LEMMA RestStep ==
  ASSUME DetectInv, NEW t \in Threads, OnlyMoves(t), code[t] = "running",
         \A u \in Threads : u # t => code'[u] = code[u],
         \A u \in Procs : u # t => need'[u] = need[u],
         UNCHANGED <<main, fail, ready>>, held'[Main] = held[Main],
         \/ need'[t] = NoRequest
         \/ code'[t] = "running" /\ at'[t] \in {"alloc", "barrier", "try"} /\ need'[t] = Wanted(t)',
         \/ code'[t] = "running"
         \/ code'[t] \in {"0", "-1"} /\ at'[t] = "exit" /\ (code'[t] = "-1" <=> refused'[t]),
         at'[t] \in {"try", "return"} => request[t] # NoRequest,
         refused'[t] => at'[t] \in {"leave", "free", "exit"},
         \/ refused'[t] = refused[t]
         \/ refused'[t] /\ program.barrierFirst /\ \A u \in Threads : ~refused[u],
         program.barrierFirst /\ ready /\ ~refused'[t] /\ (\A u \in Threads : at[u] \in {"barrier", "try"}) =>
           at'[t] \in {"barrier", "try"}
  PROVE  Blocked' /\ Courses' /\ Refusals'
<1>1. /\ program' = program /\ Threads' = Threads /\ request' = request /\ Main \in Procs
      /\ \A u \in Threads : u \in Procs
  BY DEF OnlyMoves, Threads, request, Procs
<1>2. Main \notin Threads /\ program.barrierFirst \in BOOLEAN /\ refused \in [Threads -> BOOLEAN]
  BY ProgramTypes DEF DetectInv, DetectTypes
<1>3. \A u \in Threads : u # t =>
        at'[u] = at[u] /\ refused'[u] = refused[u] /\ Wanted(u)' = Wanted(u)
  BY OthersStay DEF OnlyMoves
<1>4. Blocked'
  BY <1>1, <1>2, <1>3 DEF Blocked, DetectInv
<1>5. Courses'
  <2>1. main # "checked"
    BY DEF DetectInv, Courses
  <2>2. \A u \in Threads :
          /\ code'[u] = "unborn" => at'[u] = "alloc"
          /\ code'[u] \in {"0", "-1"} => at'[u] = "exit" /\ (code'[u] = "-1" <=> refused'[u])
          /\ at'[u] \in {"try", "return"} => request[u] # NoRequest
          /\ refused'[u] => at'[u] \in {"leave", "free", "exit"}
    BY <1>3 DEF DetectInv, Courses
  <2>. QED BY <1>1, <2>1, <2>2 DEF DetectInv, Courses
<1>6. Refusals'
  <2>1. ~program.barrierFirst => \A u \in Threads : ~refused'[u]
    BY <1>3 DEF DetectInv, Refusals
  <2>0. ASSUME NEW u \in Threads, NEW v \in Threads, refused'[u], refused'[v] PROVE u = v
    <3>1. CASE refused'[t] = refused[t]
      BY <1>3, <2>0, <3>1 DEF DetectInv, Refusals
    <3>2. CASE \A w \in Threads : ~refused[w]
      BY <1>3, <2>0, <3>2
    <3>. QED BY <3>1, <3>2
  <2>2. ASSUME program.barrierFirst, ready, \A u \in Threads : ~refused'[u]
        PROVE  \A u \in Threads : at'[u] \in {"barrier", "try"}
    <3>1. \A u \in Threads : ~refused[u]
      BY <1>2, <1>3, <2>2
    <3>2. \A u \in Threads : at[u] \in {"barrier", "try"}
      BY <2>2, <3>1 DEF DetectInv, Refusals
    <3>. QED BY <1>3, <2>2, <3>2
  <2>. QED BY <1>1, <2>0, <2>1, <2>2 DEF Refusals
<1>. QED BY <1>4, <1>5, <1>6

(* Where t is after GoTo.                                                  *)
LEMMA Moved ==
  ASSUME DetectTypes, NEW t \in Threads, NEW p \in Places, NEW k \in 1 .. Len(alloc[t]),
         GoTo(t, p, k), UNCHANGED program
  PROVE  /\ at' \in [Threads -> Places] /\ nth' \in [Threads -> Nat \ {0}]
         /\ \A u \in Threads : nth'[u] <= Len(alloc[u])
         /\ at'[t] = p /\ nth'[t] = k
         /\ \A u \in Threads : u # t => at'[u] = at[u] /\ nth'[u] = nth[u]
<1>1. Len(alloc[t]) \in Nat /\ k \in Nat \ {0} /\ k <= Len(alloc[t])
  BY ProgramTypes DEF DetectTypes
<1>2. at' = [at EXCEPT ![t] = p] /\ nth' = [nth EXCEPT ![t] = k]
  BY DEF GoTo
<1>. QED BY <1>1, <1>2 DEF DetectTypes

(* A down that is over: t has one unit of s more.                          *)
LEMMA GotStep ==
  ASSUME DetectInv, NEW t \in Threads, NEW s \in Sems, Got(t, s), code[t] = "running",
         NEW p \in Places, NEW k \in 1 .. Len(alloc[t]), GoTo(t, p, k),
         UNCHANGED <<program, refused, code, main, fail, ready>>,
         ~refused[t], p \in {"try", "return"} => request[t] # NoRequest,
         \A r \in Res : Bit(HasAlloc(t, r))' + Bit(HasRequest(t, r))' =
                          Bit(HasAlloc(t, r)) + Bit(HasRequest(t, r)) + Bit(r = s),
         Bit(InBarrier(t))' = Bit(InBarrier(t)) + Bit(Barrier = s),
         program.barrierFirst /\ ready /\ (\A u \in Threads : at[u] \in {"barrier", "try"}) =>
           p \in {"barrier", "try"}
  PROVE  DetectInv'
<1>0. program \in Programs /\ Take(t, s) /\ DetectTypes /\ Accounts
  BY DEF DetectInv, DetectTypes, Got
<1>1. /\ avail' \in [Sems -> Nat] /\ held' \in [Procs -> [Sems -> Int]]
      /\ need' \in [Procs -> Sems \cup {NoRequest}] /\ need'[t] = NoRequest
      /\ \A r \in Sems : /\ avail'[r] = avail[r] - Bit(r = s)
                        /\ held'[t][r] = held[t][r] + Bit(r = s)
      /\ \A u \in Procs : u # t => held'[u] = held[u] /\ need'[u] = need[u]
  BY <1>0, TakeUnit
<1>2. /\ at' \in [Threads -> Places] /\ nth' \in [Threads -> Nat \ {0}]
      /\ \A u \in Threads : nth'[u] <= Len(alloc[u])
      /\ at'[t] = p
      /\ \A u \in Threads : u # t => at'[u] = at[u] /\ nth'[u] = nth[u]
  BY <1>0, Moved
<1>3. OnlyMoves(t)
  BY <1>2 DEF OnlyMoves
<1>4. /\ Main \in Procs /\ t # Main /\ Barrier \in Sems /\ (\A r \in Res : r \in Sems)
      /\ \A u \in Threads : u \in Procs
  BY <1>0, ProgramTypes DEF Procs, Sems
<1>5. DetectTypes'
  BY <1>0, <1>1, <1>2 DEF DetectTypes, Sems, Procs, Threads, Res, res_num, alloc
<1>6. Accounts'
  <2>1. \A r \in Sems : avail[r] \in Nat /\ held[t][r] \in Int
    BY <1>4 DEF DetectInv, DetectTypes
  <2>2. ASSUME NEW r \in Res
        PROVE  /\ avail'[r] + Bit(HasAlloc(t, r))' + Bit(HasRequest(t, r))' =
                    avail[r] + Bit(HasAlloc(t, r)) + Bit(HasRequest(t, r))
               /\ held'[t][r] = held[t][r] + avail[r] - avail'[r]
    <3> DEFINE a == Bit(HasAlloc(t, r)) q == Bit(HasRequest(t, r)) b == Bit(r = s)
               a1 == Bit(HasAlloc(t, r))' q1 == Bit(HasRequest(t, r))'
               v == avail[r] v1 == avail'[r] h == held[t][r] h1 == held'[t][r]
    <3>1. /\ a \in Nat /\ q \in Nat /\ b \in Nat /\ a1 \in Nat /\ q1 \in Nat
          /\ v \in Nat /\ h \in Int
      BY <1>4, <2>1 DEF Bit
    <3>2. a1 + q1 = a + q + b /\ v1 = v - b /\ h1 = h + b
      BY <1>1, <1>4
    <3> HIDE DEF a, q, b, a1, q1, v, v1, h, h1
    <3>3. v1 + a1 + q1 = v + a + q /\ h1 = h + v - v1
      BY <3>1, <3>2
    <3>. QED BY <3>3 DEF a, q, a1, q1, v, v1, h, h1
  <2>3. avail'[Barrier] + Bit(InBarrier(t))' = avail[Barrier] + Bit(InBarrier(t))
    <3>1. /\ avail'[Barrier] = avail[Barrier] - Bit(Barrier = s) /\ avail[Barrier] \in Nat
          /\ Bit(Barrier = s) \in Nat /\ Bit(InBarrier(t)) \in Nat
      BY <1>1, <1>4, <2>1 DEF Bit
    <3>. QED BY <3>1
  <2>4. held'[Main] = held[Main] /\ \A u \in Threads : u # t => held'[u] = held[u]
    BY <1>1, <1>4
  <2>. QED BY <1>0, <1>1, <1>3, <2>2, <2>3, <2>4, AccountsStep
<1>7. Blocked' /\ Courses' /\ Refusals'
  BY <1>1, <1>2, <1>3, <1>4, RestStep
<1>. QED BY <1>5, <1>6, <1>7 DEF DetectInv

(* An up: t has one unit of s less.                                        *)
LEMMA GiveStep ==
  ASSUME DetectInv, NEW t \in Threads, NEW s \in Sems, Give(t, s), code[t] = "running",
         NEW p \in Places, NEW k \in 1 .. Len(alloc[t]), GoTo(t, p, k),
         UNCHANGED <<program, refused, code, main, fail, ready>>,
         at[t] \notin {"alloc", "barrier", "try"}, p \in {"leave", "free", "exit"},
         \A r \in Res : Bit(HasAlloc(t, r))' + Bit(HasRequest(t, r))' + Bit(r = s) =
                          Bit(HasAlloc(t, r)) + Bit(HasRequest(t, r)),
         Bit(InBarrier(t))' + Bit(Barrier = s) = Bit(InBarrier(t))
  PROVE  DetectInv'
<1>0. program \in Programs /\ DetectTypes /\ Accounts /\ t \in Procs
  BY DEF DetectInv, DetectTypes, Procs
<1>1. /\ avail' \in [Sems -> Nat] /\ held' \in [Procs -> [Sems -> Int]] /\ need' = need
      /\ \A r \in Sems : /\ avail'[r] = avail[r] + Bit(r = s)
                        /\ held'[t][r] = held[t][r] - Bit(r = s)
      /\ \A u \in Procs : u # t => held'[u] = held[u]
  BY <1>0, GiveUnit
<1>2. /\ at' \in [Threads -> Places] /\ nth' \in [Threads -> Nat \ {0}]
      /\ \A u \in Threads : nth'[u] <= Len(alloc[u])
      /\ at'[t] = p
      /\ \A u \in Threads : u # t => at'[u] = at[u] /\ nth'[u] = nth[u]
  BY <1>0, Moved
<1>3. OnlyMoves(t)
  BY <1>2 DEF OnlyMoves
<1>4. /\ Main \in Procs /\ t # Main /\ Barrier \in Sems /\ (\A r \in Res : r \in Sems)
      /\ \A u \in Threads : u \in Procs
  BY <1>0, ProgramTypes DEF Procs, Sems
<1>5. DetectTypes'
  BY <1>0, <1>1, <1>2 DEF DetectTypes, Sems, Procs, Threads, Res, res_num, alloc
<1>6. Accounts'
  <2>1. \A r \in Sems : avail[r] \in Nat /\ held[t][r] \in Int
    BY <1>4 DEF DetectInv, DetectTypes
  <2>2. ASSUME NEW r \in Res
        PROVE  /\ avail'[r] + Bit(HasAlloc(t, r))' + Bit(HasRequest(t, r))' =
                    avail[r] + Bit(HasAlloc(t, r)) + Bit(HasRequest(t, r))
               /\ held'[t][r] = held[t][r] + avail[r] - avail'[r]
    <3> DEFINE a == Bit(HasAlloc(t, r)) q == Bit(HasRequest(t, r)) b == Bit(r = s)
               a1 == Bit(HasAlloc(t, r))' q1 == Bit(HasRequest(t, r))'
               v == avail[r] v1 == avail'[r] h == held[t][r] h1 == held'[t][r]
    <3>1. /\ a \in Nat /\ q \in Nat /\ b \in Nat /\ a1 \in Nat /\ q1 \in Nat
          /\ v \in Nat /\ h \in Int
      BY <1>4, <2>1 DEF Bit
    <3>2. a1 + q1 + b = a + q /\ v1 = v + b /\ h1 = h - b
      BY <1>1, <1>4
    <3> HIDE DEF a, q, b, a1, q1, v, v1, h, h1
    <3>3. v1 + a1 + q1 = v + a + q
      <4>1. v1 + a1 + q1 = v + (a1 + q1 + b)
        BY <3>1, <3>2
      <4>. QED BY <3>1, <3>2, <4>1
    <3>4. h1 = h + v - v1
      BY <3>1, <3>2
    <3>. QED BY <3>3, <3>4 DEF a, q, a1, q1, v, v1, h, h1
  <2>3. avail'[Barrier] + Bit(InBarrier(t))' = avail[Barrier] + Bit(InBarrier(t))
    <3>1. /\ avail'[Barrier] = avail[Barrier] + Bit(Barrier = s) /\ avail[Barrier] \in Nat
          /\ Bit(Barrier = s) \in Nat /\ Bit(InBarrier(t))' \in Nat
      BY <1>1, <1>4, <2>1 DEF Bit
    <3>. QED BY <3>1
  <2>4. held'[Main] = held[Main] /\ \A u \in Threads : u # t => held'[u] = held[u]
    BY <1>1, <1>4
  <2>. QED BY <1>0, <1>1, <1>3, <2>2, <2>3, <2>4, AccountsStep
<1>7. Blocked' /\ Courses' /\ Refusals'
  <2>1. need'[t] = NoRequest
    BY <1>1 DEF DetectInv, Blocked
  <2>2. ~(\A u \in Threads : at[u] \in {"barrier", "try"})
    OBVIOUS
  <2>. QED BY <1>1, <1>2, <1>3, <1>4, <2>1, <2>2, RestStep
<1>. QED BY <1>5, <1>6, <1>7 DEF DetectInv

(* What the thread in a down asks for.                                     *)
LEMMA Asking ==
  ASSUME DetectInv, NEW t \in Threads, at[t] \in {"alloc", "barrier", "try"}
  PROVE  /\ Wanted(t) \in Sems
         /\ at[t] = "barrier" <=> Wanted(t) = Barrier
         /\ at[t] # "barrier" => Wanted(t) \in Res
         /\ ~refused[t]
         /\ at[t] = "try" => request[t] # NoRequest
         /\ nth[t] \in 1 .. Len(alloc[t])
         /\ 1 \in 1 .. Len(alloc[t])
<1>1. program \in Programs /\ nth[t] \in Nat \ {0} /\ nth[t] <= Len(alloc[t])
  BY DEF DetectInv, DetectTypes
<1>2. Len(alloc[t]) \in Nat \ {0}
  BY <1>1, ProgramTypes
<1>3. nth[t] \in 1 .. Len(alloc[t]) /\ 1 \in 1 .. Len(alloc[t])
  BY <1>1, <1>2
<1>4. ~refused[t] /\ (at[t] = "try" => request[t] # NoRequest)
  BY DEF DetectInv, Courses
<1>5. at[t] = "barrier" => Wanted(t) = Barrier
  BY DEF Wanted
<1>6. at[t] # "barrier" => Wanted(t) \in Res
  BY <1>1, <1>3, <1>4, ProgramTypes DEF Wanted
<1>. QED BY <1>1, <1>3, <1>4, <1>5, <1>6, ProgramTypes DEF Sems

LEMMA WaitStep ==
  ASSUME DetectInv, NEW t \in Threads, at[t] \in {"alloc", "barrier", "try"}, code[t] = "running",
         Waits(t, Wanted(t)), UNCHANGED <<program, place, code, main, fail, ready>>
  PROVE  DetectInv'
<1>0. program \in Programs /\ DetectTypes /\ Accounts /\ Main \notin Threads
  BY ProgramTypes DEF DetectInv, DetectTypes
<1>1. /\ program' = program /\ at' = at /\ nth' = nth /\ refused' = refused
      /\ avail' = avail /\ held' = held /\ need' = [need EXCEPT ![t] = Wanted(t)]
  BY DEF Waits, Block, place
<1>2. OnlyMoves(t)
  BY <1>1 DEF OnlyMoves
<1>3. Wanted(t) \in Sems /\ t \in Procs /\ Main \in Procs /\ Barrier \in Sems
  BY Asking DEF Procs, Sems
<1>4. DetectTypes'
  BY <1>0, <1>1, <1>3 DEF DetectTypes, Sems, Procs, Threads, Res, res_num, alloc
<1>5. /\ \A r : (HasAlloc(t, r)' <=> HasAlloc(t, r)) /\ (HasRequest(t, r)' <=> HasRequest(t, r))
      /\ InBarrier(t)' <=> InBarrier(t)
      /\ Wanted(t)' = Wanted(t)
  BY <1>1 DEF HasAlloc, HasRequest, InBarrier, BarrierLast, Wanted, alloc, request
<1>6. Accounts'
  <2>1. avail' \in [Sems -> Nat] /\ \A r \in Sems : avail[r] \in Nat /\ held[t][r] \in Int
    BY <1>1, <1>3 DEF DetectInv, DetectTypes
  <2>2. \A r \in Res : /\ avail'[r] + Bit(HasAlloc(t, r))' + Bit(HasRequest(t, r))' =
                            avail[r] + Bit(HasAlloc(t, r)) + Bit(HasRequest(t, r))
                      /\ held'[t][r] = held[t][r] + avail[r] - avail'[r]
    BY <1>1, <1>5, <2>1 DEF Bit, Sems
  <2>3. avail'[Barrier] + Bit(InBarrier(t))' = avail[Barrier] + Bit(InBarrier(t))
    BY <1>1, <1>5 DEF Bit
  <2>. QED BY <1>0, <1>1, <1>2, <2>1, <2>2, <2>3, AccountsStep
<1>7. Blocked' /\ Courses' /\ Refusals'
  <2>1. /\ need'[t] = Wanted(t)' /\ \A u \in Procs : u # t => need'[u] = need[u]
    BY <1>0, <1>1, <1>3, <1>5 DEF DetectTypes
  <2>2. ~refused'[t] /\ (at'[t] \in {"try", "return"} => request[t] # NoRequest)
    BY <1>1, Asking
  <2>. QED BY <1>1, <1>2, <2>1, <2>2, RestStep
<1>. QED BY <1>4, <1>6, <1>7 DEF DetectInv

(* Only in sem1 is anybody refused, and then in try_sem_down.              *)
LEMMA DeniedStep ==
  ASSUME DetectInv, NEW t \in Threads, at[t] = "try", code[t] = "running",
         Denied(t, request[t]), refused' = [refused EXCEPT ![t] = TRUE],
         GoTo(t, IF program.barrierFirst THEN "leave" ELSE "free", 1),
         UNCHANGED <<program, code, main, fail, ready>>
  PROVE  DetectInv'
<1>0. /\ program \in Programs /\ DetectTypes /\ Accounts /\ Main \notin Threads
      /\ program.barrierFirst \in BOOLEAN
  BY ProgramTypes DEF DetectInv, DetectTypes
<1>1. program.barrierFirst
  BY <1>0, NotRefusedIfRelieved DEF DetectInv, Denied
<1>2. 1 \in 1 .. Len(alloc[t]) /\ ~refused[t] /\ "leave" \in Places
  BY Asking DEF Places
<1>11. \A u \in Threads : ~refused[u]
  <2>1. \A u \in Threads : at[u] = "try"
    BY <1>0, <1>1, RefusedWhenAllTry DEF DetectInv, Denied
  <2>. QED BY <2>1 DEF DetectInv, Courses
<1>3. /\ at' \in [Threads -> Places] /\ nth' \in [Threads -> Nat \ {0}]
      /\ \A u \in Threads : nth'[u] <= Len(alloc[u])
      /\ at'[t] = "leave"
      /\ \A u \in Threads : u # t => at'[u] = at[u] /\ nth'[u] = nth[u]
  BY <1>0, <1>1, <1>2, Moved
<1>4. /\ refused' \in [Threads -> BOOLEAN] /\ refused'[t]
      /\ \A u \in Threads : u # t => refused'[u] = refused[u]
  BY <1>0 DEF DetectTypes
<1>5. OnlyMoves(t)
  BY <1>3, <1>4 DEF OnlyMoves
<1>6. avail' = avail /\ held' = held /\ need' = need /\ need[t] = NoRequest
  BY DEF Denied, kernel
<1>7. DetectTypes'
  BY <1>0, <1>3, <1>4, <1>6 DEF DetectTypes, Sems, Procs, Threads, Res, res_num, alloc
<1>8. /\ \A r : (HasAlloc(t, r)' <=> HasAlloc(t, r)) /\ (HasRequest(t, r)' <=> HasRequest(t, r))
      /\ InBarrier(t)' <=> InBarrier(t)
  BY <1>1, <1>3 DEF HasAlloc, HasRequest, InBarrier, BarrierLast, alloc, request
<1>9. Accounts'
  <2>1. /\ avail' \in [Sems -> Nat] /\ Barrier \in Sems /\ t \in Procs
        /\ \A r \in Sems : avail[r] \in Nat /\ held[t][r] \in Int
    BY <1>6 DEF DetectInv, DetectTypes, Sems, Procs
  <2>2. \A r \in Res : /\ avail'[r] + Bit(HasAlloc(t, r))' + Bit(HasRequest(t, r))' =
                            avail[r] + Bit(HasAlloc(t, r)) + Bit(HasRequest(t, r))
                      /\ held'[t][r] = held[t][r] + avail[r] - avail'[r]
    BY <1>6, <1>8, <2>1 DEF Bit, Sems
  <2>3. avail'[Barrier] + Bit(InBarrier(t))' = avail[Barrier] + Bit(InBarrier(t))
    BY <1>6, <1>8 DEF Bit
  <2>. QED BY <1>0, <1>5, <1>6, <2>1, <2>2, <2>3, AccountsStep
<1>10. Blocked' /\ Courses' /\ Refusals'
  BY <1>1, <1>3, <1>4, <1>5, <1>6, <1>11, RestStep
<1>. QED BY <1>7, <1>9, <1>10 DEF DetectInv

LEMMA ExitStep ==
  ASSUME DetectInv, NEW t \in Threads, ExitThread(t)
  PROVE  DetectInv'
<1>0. /\ program \in Programs /\ DetectTypes /\ Accounts /\ t \in Procs /\ Barrier \in Sems
  BY DEF DetectInv, DetectTypes, Procs, Sems
<1>1. /\ program' = program /\ at' = at /\ nth' = nth /\ refused' = refused
      /\ avail' = avail /\ held' = held /\ need' = need
      /\ at[t] = "exit" /\ code[t] = "running"
      /\ code' = [code EXCEPT ![t] = IF refused[t] THEN "-1" ELSE "0"]
      /\ UNCHANGED <<main, fail, ready>>
  BY DEF ExitThread, At, place, kernel
<1>2. OnlyMoves(t)
  BY <1>1 DEF OnlyMoves
<1>3. /\ code' \in [Threads -> {"unborn", "running", "0", "-1"}]
      /\ code'[t] = (IF refused[t] THEN "-1" ELSE "0")
      /\ \A u \in Threads : u # t => code'[u] = code[u]
  BY <1>0, <1>1 DEF DetectTypes
<1>4. DetectTypes'
  BY <1>0, <1>1, <1>3 DEF DetectTypes, Sems, Procs, Threads, Res, res_num, alloc
<1>5. /\ \A r : (HasAlloc(t, r)' <=> HasAlloc(t, r)) /\ (HasRequest(t, r)' <=> HasRequest(t, r))
      /\ InBarrier(t)' <=> InBarrier(t)
  BY <1>1 DEF HasAlloc, HasRequest, InBarrier, BarrierLast, alloc, request
<1>6. Accounts'
  <2>1. /\ avail' \in [Sems -> Nat]
        /\ \A r \in Sems : avail[r] \in Nat /\ held[t][r] \in Int
    BY <1>0, <1>1 DEF DetectTypes
  <2>2. \A r \in Res : /\ avail'[r] + Bit(HasAlloc(t, r))' + Bit(HasRequest(t, r))' =
                            avail[r] + Bit(HasAlloc(t, r)) + Bit(HasRequest(t, r))
                      /\ held'[t][r] = held[t][r] + avail[r] - avail'[r]
    BY <1>1, <1>5, <2>1 DEF Bit, Sems
  <2>3. avail'[Barrier] + Bit(InBarrier(t))' = avail[Barrier] + Bit(InBarrier(t))
    BY <1>1, <1>5 DEF Bit
  <2>. QED BY <1>0, <1>1, <1>2, <2>1, <2>2, <2>3, AccountsStep
<1>7. Blocked' /\ Courses' /\ Refusals'
  <2>1. need'[t] = NoRequest
    BY <1>1 DEF DetectInv, Blocked
  <2>2. ~(\A u \in Threads : at[u] \in {"barrier", "try"})
    BY <1>1
  <2>3. code'[t] \in {"0", "-1"} /\ (code'[t] = "-1" <=> refused'[t])
    BY <1>1, <1>3
  <2>. QED BY <1>1, <1>2, <1>3, <2>1, <2>2, <2>3, RestStep
<1>. QED BY <1>4, <1>6, <1>7 DEF DetectInv

LEMMA AllocStep ==
  ASSUME DetectInv, NEW t \in Threads, sem_alloc(t)
  PROVE  DetectInv'
<1> DEFINE s == alloc[t][nth[t]]
<1>0. /\ program \in Programs /\ DetectTypes /\ Accounts /\ Blocked
      /\ at[t] = "alloc" /\ code[t] = "running" /\ program' = program
  BY DEF DetectInv, DetectTypes, sem_alloc, At
<1>1. /\ Wanted(t) = s /\ s \in Sems /\ s \in Res /\ ~refused[t]
      /\ nth[t] \in 1 .. Len(alloc[t]) /\ 1 \in 1 .. Len(alloc[t]) /\ Barrier # s
  BY <1>0, Asking, ProgramTypes DEF Wanted
<1>2. CASE Got(t, s) /\ (IF More(t) THEN GoTo(t, "alloc", nth[t] + 1) ELSE GoTo(t, "barrier", 1))
           /\ UNCHANGED code
  <2>1. /\ Len(alloc[t]) \in Nat /\ nth[t] \in Nat
        /\ \A k, l \in 1 .. Len(alloc[t]) : alloc[t][k] = alloc[t][l] => k = l
    BY <1>0, <1>1, ProgramTypes
  <2>2. PICK p \in {"alloc", "barrier"}, n \in 1 .. Len(alloc[t]) :
          /\ GoTo(t, p, n)
          /\ p = "alloc" => n = nth[t] + 1
          /\ p = "barrier" => nth[t] = Len(alloc[t])
    BY <1>1, <1>2, <2>1 DEF More
  <2>3. at'[t] = p /\ nth'[t] = n /\ alloc' = alloc /\ p \in Places
    BY <1>0, <2>2, Moved DEF alloc, Places
  <2>4. ASSUME NEW r \in Res
        PROVE  Bit(HasAlloc(t, r))' + Bit(HasRequest(t, r))' =
                 Bit(HasAlloc(t, r)) + Bit(HasRequest(t, r)) + Bit(r = s)
    <3>1. ~HasRequest(t, r) /\ ~HasRequest(t, r)'
      BY <1>0, <2>2, <2>3 DEF HasRequest
    <3>2. HasAlloc(t, r) <=> \E k \in 1 .. Len(alloc[t]) : alloc[t][k] = r /\ k < nth[t]
      BY <1>0 DEF HasAlloc
    <3>3. HasAlloc(t, r)' <=> \E k \in 1 .. Len(alloc[t]) : alloc[t][k] = r /\ (p = "alloc" => k < n)
      BY <2>2, <2>3 DEF HasAlloc
    <3>4. HasAlloc(t, r)' <=> \E k \in 1 .. Len(alloc[t]) : alloc[t][k] = r /\ k <= nth[t]
      BY <2>1, <2>2, <3>3
    <3>5. CASE r = s
      <4>1. ~HasAlloc(t, r)
        BY <1>1, <2>1, <3>2, <3>5
      <4>2. HasAlloc(t, r)'
        BY <1>1, <2>1, <3>4, <3>5
      <4>. QED BY <3>1, <3>5, <4>1, <4>2 DEF Bit
    <3>6. CASE r # s
      <4>1. HasAlloc(t, r)' <=> HasAlloc(t, r)
        BY <1>1, <2>1, <3>2, <3>4, <3>6
      <4>. QED BY <3>1, <3>6, <4>1 DEF Bit
    <3>. QED BY <3>5, <3>6
  <2>5. Bit(InBarrier(t))' = Bit(InBarrier(t)) + Bit(Barrier = s)
    BY <1>0, <1>1, <2>2, <2>3 DEF InBarrier, Bit
  <2>6. ~(program.barrierFirst /\ ready /\ \A u \in Threads : at[u] \in {"barrier", "try"})
    BY <1>0
  <2> HIDE DEF s
  <2>. QED BY <1>0, <1>1, <1>2, <2>2, <2>3, <2>4, <2>5, <2>6, GotStep DEF sem_alloc
<1>3. CASE Waits(t, s) /\ UNCHANGED <<at, nth, code>>
  BY <1>0, <1>1, <1>3, WaitStep DEF sem_alloc, place
<1>4. CASE Denied(t, s)
  BY <1>0, <1>1, <1>4, NotRefusedBefore DEF Denied
<1>. QED BY <1>2, <1>3, <1>4 DEF sem_alloc

LEMMA BarrierStep ==
  ASSUME DetectInv, NEW t \in Threads, AtBarrier(t)
  PROVE  DetectInv'
<1> DEFINE next == IF request[t] = NoRequest THEN "leave" ELSE "try"
<1>0. /\ program \in Programs /\ DetectTypes /\ Accounts /\ Blocked
      /\ at[t] = "barrier" /\ code[t] = "running" /\ program' = program
  BY DEF DetectInv, DetectTypes, AtBarrier, At
<1>1. /\ Wanted(t) = Barrier /\ Barrier \in Sems /\ Barrier \notin Res /\ ~refused[t]
      /\ 1 \in 1 .. Len(alloc[t])
  BY <1>0, Asking, ProgramTypes
<1>2. CASE Got(t, Barrier) /\ GoTo(t, next, 1) /\ UNCHANGED code
  <2>1. /\ next \in Places /\ next \in {"leave", "try"}
        /\ next = "try" => request[t] # NoRequest
    BY DEF Places
  <2>2. program.barrierFirst => next = "try"
    <3> SUFFICES ASSUME program.barrierFirst PROVE request[t] # NoRequest
      OBVIOUS
    <3>1. Exhausted(program)
      BY <1>0, ProgramAssumption
    <3>. QED BY <3>1 DEF Exhausted, request, Threads
  <2> HIDE DEF next
  <2>3. at'[t] = next /\ alloc' = alloc /\ request' = request
    BY <1>0, <1>1, <1>2, <2>1, Moved DEF alloc, request
  <2>4. ~BarrierLast(t)'
    BY <1>1 DEF BarrierLast, AtBarrier
  <2>5. ASSUME NEW r \in Res
        PROVE  Bit(HasAlloc(t, r))' + Bit(HasRequest(t, r))' =
                 Bit(HasAlloc(t, r)) + Bit(HasRequest(t, r)) + Bit(r = Barrier)
    <3>1. ~HasRequest(t, r) /\ ~HasRequest(t, r)'
      BY <1>0, <2>1, <2>3 DEF HasRequest
    <3>2. HasAlloc(t, r)' <=> HasAlloc(t, r)
      BY <1>0, <2>1, <2>3, <2>4 DEF HasAlloc
    <3>. QED BY <1>1, <3>1, <3>2 DEF Bit
  <2>6. Bit(InBarrier(t))' = Bit(InBarrier(t)) + Bit(Barrier = Barrier)
    BY <1>0, <2>1, <2>3 DEF InBarrier, Bit
  <2>7. next \in {"try", "return"} => request[t] # NoRequest
    BY <2>1
  <2>8. program.barrierFirst => next \in {"barrier", "try"}
    BY <2>2
  <2>. QED BY <1>0, <1>1, <1>2, <2>1, <2>5, <2>6, <2>7, <2>8, GotStep DEF AtBarrier
<1>3. CASE Waits(t, Barrier) /\ UNCHANGED <<at, nth, code>>
  BY <1>0, <1>1, <1>3, WaitStep DEF AtBarrier, place
<1>4. CASE Denied(t, Barrier)
  BY <1>0, <1>1, <1>4, NotRefusedBefore DEF Denied
<1>. QED BY <1>2, <1>3, <1>4 DEF AtBarrier

LEMMA TryStep ==
  ASSUME DetectInv, NEW t \in Threads, try_sem_down(t)
  PROVE  DetectInv'
<1> DEFINE s == request[t]
<1>0. /\ program \in Programs /\ DetectTypes /\ Accounts /\ Blocked
      /\ at[t] = "try" /\ code[t] = "running" /\ program' = program
  BY DEF DetectInv, DetectTypes, try_sem_down, At
<1>1. /\ Wanted(t) = s /\ s \in Sems /\ s \in Res /\ ~refused[t] /\ s # NoRequest
      /\ 1 \in 1 .. Len(alloc[t]) /\ Barrier # s
  BY <1>0, Asking, ProgramTypes DEF Wanted
<1>2. CASE Got(t, s) /\ GoTo(t, "return", 1) /\ UNCHANGED refused
  <2>1. at'[t] = "return" /\ alloc' = alloc /\ request' = request /\ "return" \in Places
    BY <1>0, <1>1, <1>2, Moved DEF alloc, request, Places
  <2>2. ASSUME NEW r \in Res
        PROVE  Bit(HasAlloc(t, r))' + Bit(HasRequest(t, r))' =
                 Bit(HasAlloc(t, r)) + Bit(HasRequest(t, r)) + Bit(r = s)
    <3>1. ~HasRequest(t, r) /\ (HasRequest(t, r)' <=> r = s)
      BY <1>0, <2>1 DEF HasRequest
    <3>2. HasAlloc(t, r)' <=> HasAlloc(t, r)
      BY <1>0, <2>1 DEF HasAlloc
    <3>. QED BY <3>1, <3>2 DEF Bit
  <2>3. Bit(InBarrier(t))' = Bit(InBarrier(t)) + Bit(Barrier = s)
    BY <1>0, <1>1, <2>1 DEF InBarrier, Bit
  <2>4. ~(program.barrierFirst /\ \A u \in Threads : at[u] \in {"barrier", "try"})
    <3>1. avail[s] \in Nat /\ avail[s] > 0
      BY <1>0, <1>1, <1>2 DEF Got, Take, DetectTypes
    <3>2. avail[s] # 0
      BY <3>1
    <3>. QED BY <1>0, <3>2, NothingLeft
  <2> HIDE DEF s
  <2>5. request[t] # NoRequest
    BY <1>1 DEF s
  <2>. QED BY <1>0, <1>1, <1>2, <2>1, <2>2, <2>3, <2>4, <2>5, GotStep DEF try_sem_down
<1>3. CASE Waits(t, s) /\ UNCHANGED place
  BY <1>0, <1>1, <1>3, WaitStep DEF try_sem_down
<1>4. CASE /\ Denied(t, s) /\ refused' = [refused EXCEPT ![t] = TRUE]
           /\ GoTo(t, IF program.barrierFirst THEN "leave" ELSE "free", 1)
  BY <1>0, <1>4, DeniedStep DEF try_sem_down
<1>. QED BY <1>2, <1>3, <1>4 DEF try_sem_down

(* The ups.                                                                *)
LEMMA ReturnStep ==
  ASSUME DetectInv, NEW t \in Threads, ReturnUnit(t)
  PROVE  DetectInv'
<1> DEFINE s == request[t]
<1>0. /\ program \in Programs /\ DetectTypes
      /\ at[t] = "return" /\ code[t] = "running" /\ program' = program /\ refused' = refused
      /\ Give(t, s) /\ GoTo(t, "leave", 1)
  BY DEF DetectInv, DetectTypes, ReturnUnit, At
<1>1. s # NoRequest /\ ~refused[t]
  BY <1>0 DEF DetectInv, Courses
<1>2. /\ s \in Res /\ s \in Sems /\ Barrier # s
      /\ Len(alloc[t]) \in Nat \ {0}
  BY <1>0, <1>1, ProgramTypes DEF Sems
<1>3. 1 \in 1 .. Len(alloc[t]) /\ "leave" \in Places
  BY <1>2 DEF Places
<1>4. at'[t] = "leave" /\ alloc' = alloc /\ request' = request /\ ~BarrierLast(t)'
  BY <1>0, <1>1, <1>3, Moved DEF alloc, request, BarrierLast
<1>5. ASSUME NEW r \in Res
      PROVE  Bit(HasAlloc(t, r))' + Bit(HasRequest(t, r))' + Bit(r = s) =
               Bit(HasAlloc(t, r)) + Bit(HasRequest(t, r))
  <2>1. ~HasRequest(t, r)' /\ (HasRequest(t, r) <=> r = s)
    BY <1>0, <1>4 DEF HasRequest
  <2>2. HasAlloc(t, r)' <=> HasAlloc(t, r)
    BY <1>0, <1>4 DEF HasAlloc
  <2>. QED BY <2>1, <2>2 DEF Bit
<1>6. Bit(InBarrier(t))' + Bit(Barrier = s) = Bit(InBarrier(t))
  BY <1>0, <1>2, <1>4 DEF InBarrier, Bit
<1> HIDE DEF s
<1>. QED BY <1>0, <1>2, <1>3, <1>5, <1>6, GiveStep DEF ReturnUnit

(* No thread gives the barrier back last: only one refused in sem2 would.  *)
LEMMA NoneLast ==
  ASSUME DetectInv, NEW t \in Threads
  PROVE  ~BarrierLast(t)
BY DEF DetectInv, Refusals, BarrierLast

LEMMA LeaveStep ==
  ASSUME DetectInv, NEW t \in Threads, LeaveBarrier(t)
  PROVE  DetectInv'
<1>0. /\ program \in Programs /\ DetectTypes /\ ~BarrierLast(t)
      /\ at[t] = "leave" /\ code[t] = "running" /\ program' = program /\ refused' = refused
      /\ Give(t, Barrier) /\ GoTo(t, "free", 1)
  BY NoneLast DEF DetectInv, DetectTypes, LeaveBarrier, At
<1>1. Len(alloc[t]) \in Nat \ {0} /\ Barrier \in Sems /\ Barrier \notin Res
  BY <1>0, ProgramTypes DEF Sems
<1>2. 1 \in 1 .. Len(alloc[t]) /\ "free" \in Places
  BY <1>1 DEF Places
<1>3. at'[t] = "free" /\ nth'[t] = 1 /\ alloc' = alloc /\ request' = request /\ ~BarrierLast(t)'
  BY <1>0, <1>2, Moved DEF alloc, request, BarrierLast
<1>4. ASSUME NEW r \in Res
      PROVE  Bit(HasAlloc(t, r))' + Bit(HasRequest(t, r))' + Bit(r = Barrier) =
               Bit(HasAlloc(t, r)) + Bit(HasRequest(t, r))
  <2>1. ~HasRequest(t, r)' /\ ~HasRequest(t, r)
    BY <1>0, <1>3 DEF HasRequest
  <2>2. \A k \in 1 .. Len(alloc[t]) : k >= 1
    BY <1>1
  <2>3. HasAlloc(t, r)' <=> HasAlloc(t, r)
    BY <1>0, <1>3, <2>2 DEF HasAlloc
  <2>. QED BY <1>1, <2>1, <2>3 DEF Bit
<1>5. Bit(InBarrier(t))' + Bit(Barrier = Barrier) = Bit(InBarrier(t))
  BY <1>0, <1>3 DEF InBarrier, Bit
<1>. QED BY <1>0, <1>1, <1>2, <1>4, <1>5, GiveStep DEF LeaveBarrier

LEMMA FreeStep ==
  ASSUME DetectInv, NEW t \in Threads, FreeResource(t)
  PROVE  DetectInv'
<1> DEFINE s == alloc[t][nth[t]]
<1>0. /\ program \in Programs /\ DetectTypes /\ ~BarrierLast(t)
      /\ at[t] = "free" /\ code[t] = "running" /\ program' = program /\ refused' = refused
      /\ Give(t, s)
      /\ IF More(t) THEN GoTo(t, "free", nth[t] + 1) ELSE GoTo(t, "exit", 1)
  BY NoneLast DEF DetectInv, DetectTypes, FreeResource, At
<1>1. /\ Len(alloc[t]) \in Nat \ {0} /\ nth[t] \in Nat \ {0} /\ nth[t] <= Len(alloc[t])
      /\ \A k, l \in 1 .. Len(alloc[t]) : alloc[t][k] = alloc[t][l] => k = l
  BY <1>0, ProgramTypes DEF DetectTypes
<1>2. nth[t] \in 1 .. Len(alloc[t]) /\ s \in Res /\ s \in Sems /\ Barrier # s
  BY <1>0, <1>1, ProgramTypes DEF Sems
<1>3. PICK p \in {"free", "exit"}, n \in 1 .. Len(alloc[t]) :
        /\ GoTo(t, p, n)
        /\ p = "free" => n = nth[t] + 1
        /\ p = "exit" => nth[t] = Len(alloc[t])
  BY <1>0, <1>1 DEF More
<1>4. /\ at'[t] = p /\ nth'[t] = n /\ alloc' = alloc /\ p \in Places
      /\ ~BarrierLast(t)'
  BY <1>0, <1>3, Moved DEF alloc, Places, BarrierLast
<1>5. ASSUME NEW r \in Res
      PROVE  Bit(HasAlloc(t, r))' + Bit(HasRequest(t, r))' + Bit(r = s) =
               Bit(HasAlloc(t, r)) + Bit(HasRequest(t, r))
  <2>1. ~HasRequest(t, r) /\ ~HasRequest(t, r)'
    BY <1>0, <1>3, <1>4 DEF HasRequest
  <2>2. HasAlloc(t, r) <=> \E k \in 1 .. Len(alloc[t]) : alloc[t][k] = r /\ k >= nth[t]
    BY <1>0 DEF HasAlloc
  <2>3. HasAlloc(t, r)' <=> \E k \in 1 .. Len(alloc[t]) : alloc[t][k] = r /\ p = "free" /\ k >= n
    BY <1>3, <1>4 DEF HasAlloc
  <2>4. HasAlloc(t, r)' <=> \E k \in 1 .. Len(alloc[t]) : alloc[t][k] = r /\ k > nth[t]
    BY <1>1, <1>3, <2>3
  <2>5. CASE r = s
    <3>1. HasAlloc(t, r)
      BY <1>1, <1>2, <2>2, <2>5
    <3>2. ~HasAlloc(t, r)'
      BY <1>1, <1>2, <2>4, <2>5
    <3>. QED BY <2>1, <2>5, <3>1, <3>2 DEF Bit
  <2>6. CASE r # s
    <3>1. HasAlloc(t, r)' <=> HasAlloc(t, r)
      BY <1>1, <1>2, <2>2, <2>4, <2>6
    <3>. QED BY <2>1, <2>6, <3>1 DEF Bit
  <2>. QED BY <2>5, <2>6
<1>6. Bit(InBarrier(t))' + Bit(Barrier = s) = Bit(InBarrier(t))
  BY <1>0, <1>2, <1>3, <1>4 DEF InBarrier, Bit
<1> HIDE DEF s
<1>. QED BY <1>0, <1>2, <1>3, <1>4, <1>5, <1>6, GiveStep DEF FreeResource

(* main, which moves no thread.                                            *)
LEMMA NobodyMoves ==
  ASSUME DetectInv, UNCHANGED <<program, place>>
  PROVE  /\ program \in Programs /\ Threads' = Threads /\ Res' = Res /\ Sems' = Sems
         /\ Procs' = Procs /\ res_num' = res_num /\ alloc' = alloc /\ request' = request
         /\ at' = at /\ nth' = nth /\ refused' = refused
         /\ Inside' = Inside
         /\ \A t \in Threads : Wanted(t)' = Wanted(t)
         /\ \A t \in Threads, s \in Res :
              (HasAlloc(t, s)' <=> HasAlloc(t, s)) /\ (HasRequest(t, s)' <=> HasRequest(t, s))
         /\ \A s \in Res : Allocated(s)' = Allocated(s) /\ Requested(s)' = Requested(s)
<1>1. /\ program \in Programs /\ program' = program
      /\ at' = at /\ nth' = nth /\ refused' = refused
  BY DEF DetectInv, DetectTypes, place
<1>2. /\ Threads' = Threads /\ Res' = Res /\ Sems' = Sems /\ Procs' = Procs
      /\ res_num' = res_num /\ alloc' = alloc /\ request' = request
  BY <1>1 DEF Threads, Res, Sems, Procs, res_num, alloc, request
<1>3. \A t \in Threads, s \in Res :
        (HasAlloc(t, s)' <=> HasAlloc(t, s)) /\ (HasRequest(t, s)' <=> HasRequest(t, s))
  BY <1>1, <1>2 DEF HasAlloc, HasRequest, BarrierLast
<1>4. Inside' = Inside /\ \A t \in Threads : Wanted(t)' = Wanted(t)
  BY <1>1, <1>2 DEF Inside, InBarrier, BarrierLast, Wanted
<1>5. \A s \in Res : Allocated(s)' = Allocated(s) /\ Requested(s)' = Requested(s)
  BY <1>2, <1>3 DEF Allocated, Requested
<1>. QED BY <1>1, <1>2, <1>3, <1>4, <1>5

LEMMA KernelRests ==
  ASSUME DetectInv, UNCHANGED <<program, place, kernel>>
  PROVE  Accounts'
<1>1. avail' = avail /\ held' = held
  BY DEF kernel
<1>2. \A t \in Threads, s \in Res :
        Bit(HasAlloc(t, s))' = Bit(HasAlloc(t, s)) /\ Bit(HasRequest(t, s))' = Bit(HasRequest(t, s))
  BY NobodyMoves DEF Bit
<1>. QED BY <1>1, <1>2, NobodyMoves DEF Accounts, DetectInv

LEMMA CreateStep ==
  ASSUME DetectInv, NEW t \in Threads, CreateThread(t)
  PROVE  DetectInv'
<1>1. /\ UNCHANGED <<program, place, kernel, main, fail, ready>> /\ main = "create" /\ code[t] = "unborn"
      /\ code' = [code EXCEPT ![t] = "running"]
  BY DEF CreateThread
<1>2. avail' = avail /\ held' = held /\ need' = need
  BY <1>1 DEF kernel
<1>3. /\ code' \in [Threads -> {"unborn", "running", "0", "-1"}]
      /\ code'[t] = "running"
      /\ \A u \in Threads : u # t => code'[u] = code[u]
  BY <1>1 DEF DetectInv, DetectTypes
<1>4. DetectTypes'
  BY <1>1, <1>2, <1>3, NobodyMoves DEF DetectInv, DetectTypes
<1>5. Accounts'
  BY <1>1, KernelRests
<1>6. Blocked'
  BY <1>1, <1>2, <1>3, NobodyMoves DEF DetectInv, Blocked
<1>7. Courses'
  <2>1. \A u \in Threads :
          /\ code'[u] = "unborn" => at[u] = "alloc"
          /\ code'[u] \in {"0", "-1"} => at[u] = "exit" /\ (code'[u] = "-1" <=> refused[u])
    BY <1>3 DEF DetectInv, Courses
  <2>. QED BY <1>1, <2>1, NobodyMoves DEF DetectInv, Courses
<1>8. Refusals'
  BY <1>1, NobodyMoves DEF DetectInv, Refusals
<1>. QED BY <1>4, <1>5, <1>6, <1>7, <1>8 DEF DetectInv

LEMMA SleepStep ==
  ASSUME DetectInv, AfterSleep
  PROVE  DetectInv'
<1>1. /\ UNCHANGED <<program, place, kernel, code, fail>> /\ main' = "release"
      /\ ready' = \A t \in Threads : need[t] = Barrier
  BY DEF AfterSleep
<1>2. avail' = avail /\ held' = held /\ need' = need
  BY <1>1 DEF kernel
<1>3. ready' \in BOOLEAN
  BY <1>1
<1>4. DetectTypes'
  BY <1>1, <1>2, <1>3, NobodyMoves DEF DetectInv, DetectTypes
<1>5. Accounts'
  BY <1>1, KernelRests
<1>6. Blocked' /\ Courses'
  BY <1>1, <1>2, NobodyMoves DEF DetectInv, Blocked, Courses
<1>7. Refusals'
  <2>1. ASSUME ready', NEW t \in Threads PROVE at[t] = "barrier"
    <3>1. need[t] = Barrier /\ Barrier # NoRequest
      BY <1>1, <2>1 DEF Barrier, NoRequest
    <3>2. at[t] \in {"alloc", "barrier", "try"} /\ Wanted(t) = Barrier
      BY <3>1 DEF DetectInv, Blocked
    <3>. QED BY <3>2, Asking
  <2>. QED BY <2>1, NobodyMoves, <1>1 DEF DetectInv, Refusals
<1>. QED BY <1>4, <1>5, <1>6, <1>7 DEF DetectInv

LEMMA ReleaseStep ==
  ASSUME DetectInv, ReleaseBarrier
  PROVE  DetectInv'
<1>1. /\ UNCHANGED <<program, place, code, fail, ready>> /\ main = "release"
  BY DEF ReleaseBarrier
<1>2. CASE held[Main][Barrier] > 0 /\ Give(Main, Barrier) /\ UNCHANGED main
  <2>1. /\ DetectTypes /\ Accounts /\ Main \in Procs /\ Barrier \in Sems /\ Main \notin Threads
        /\ Barrier \notin Res /\ \A t \in Threads : t \in Procs
    BY ProgramTypes DEF DetectInv, DetectTypes, Procs, Sems
  <2>2. /\ avail' \in [Sems -> Nat] /\ held' \in [Procs -> [Sems -> Int]]
        /\ need' = need
        /\ \A r \in Sems : /\ avail'[r] = avail[r] + Bit(r = Barrier)
                          /\ held'[Main][r] = held[Main][r] - Bit(r = Barrier)
        /\ \A u \in Procs : u # Main => held'[u] = held[u]
    BY <1>2, <2>1, GiveUnit
  <2>3. DetectTypes'
    BY <1>1, <1>2, <2>1, <2>2, NobodyMoves DEF DetectTypes
  <2>4. Accounts'
    <3>1. avail'[Barrier] = avail[Barrier] + 1 /\ held'[Main][Barrier] = held[Main][Barrier] - 1
      BY <2>1, <2>2 DEF Bit
    <3>2. \A s \in Res : avail'[s] = avail[s]
      <4> SUFFICES ASSUME NEW s \in Res PROVE avail'[s] = avail[s]
        OBVIOUS
      <4>1. s \in Sems /\ s # Barrier /\ avail[s] \in Nat
        BY <2>1 DEF Sems, DetectTypes
      <4>2. avail'[s] = avail[s] + Bit(s = Barrier) /\ Bit(s = Barrier) = 0
        BY <2>2, <4>1 DEF Bit
      <4>. QED BY <4>1, <4>2
    <3>3. avail[Barrier] \in Nat /\ held[Main][Barrier] \in Nat /\ Cardinality(Inside) \in Nat
      BY <2>1, SetsFinite DEF DetectTypes, Accounts
    <3>4. avail'[Barrier] + Cardinality(Inside) + held'[Main][Barrier] = Cardinality(Threads)
      BY <2>1, <3>1, <3>3 DEF Accounts
    <3>5. held'[Main][Barrier] \in Nat
      BY <1>2, <3>1, <3>3
    <3>6. \A t \in Threads, s \in Res :
            /\ Bit(HasAlloc(t, s))' = Bit(HasAlloc(t, s))
            /\ Bit(HasRequest(t, s))' = Bit(HasRequest(t, s))
            /\ held'[t][s] = held[t][s]
      BY <1>1, <2>1, <2>2, NobodyMoves DEF Bit
    <3>7. \A s \in Res :
            (avail[s] + Cardinality(Allocated(s)) + Cardinality(Requested(s)) = res_num[s])'
      BY <1>1, <2>1, <3>2, NobodyMoves DEF Accounts
    <3>8. \A t \in Threads, s \in Res :
            (held[t][s] = Bit(HasAlloc(t, s)) + Bit(HasRequest(t, s)))'
      BY <2>1, <3>6 DEF Accounts
    <3>9. (avail[Barrier] + Cardinality(Inside) + held[Main][Barrier] = Cardinality(Threads))'
      BY <1>1, <3>4, NobodyMoves
    <3>. QED BY <1>1, <3>5, <3>7, <3>8, <3>9, NobodyMoves DEF Accounts
  <2>5. Blocked' /\ Courses' /\ Refusals'
    BY <1>1, <1>2, <2>2, NobodyMoves DEF DetectInv, Blocked, Courses, Refusals
  <2>. QED BY <2>3, <2>4, <2>5 DEF DetectInv
<1>3. CASE ~(held[Main][Barrier] > 0) /\ main' = "join" /\ UNCHANGED kernel
  <2>1. avail' = avail /\ held' = held /\ need' = need
    BY <1>3 DEF kernel
  <2>2. held[Main][Barrier] = 0
    BY <1>3 DEF DetectInv, Accounts
  <2>3. DetectTypes'
    BY <1>1, <1>3, <2>1, NobodyMoves DEF DetectInv, DetectTypes
  <2>4. Accounts'
    BY <1>1, <1>3, KernelRests
  <2>5. Blocked' /\ Courses' /\ Refusals'
    BY <1>1, <1>3, <2>1, <2>2, NobodyMoves DEF DetectInv, Blocked, Courses, Refusals
  <2>. QED BY <2>3, <2>4, <2>5 DEF DetectInv
<1>. QED BY <1>2, <1>3 DEF ReleaseBarrier

LEMMA WaitAllStep ==
  ASSUME DetectInv, WaitAll
  PROVE  DetectInv'
<1>1. /\ UNCHANGED <<program, place, kernel, code, ready>> /\ main = "join" /\ main' = "checked"
      /\ \A t \in Threads : Exited(t)
      /\ fail' = Cardinality({t \in Threads : code[t] # "0"})
  BY DEF WaitAll
<1>2. avail' = avail /\ held' = held /\ need' = need
  BY <1>1 DEF kernel
<1>3. \A t \in Threads : code[t] \in {"0", "-1"}
  BY <1>1 DEF Exited, DetectInv, DetectTypes
<1>4. fail' \in Nat
  <2>1. IsFiniteSet(Threads) /\ {t \in Threads : code[t] # "0"} \in SUBSET Threads
    BY ProgramTypes DEF DetectInv, DetectTypes
  <2>2. IsFiniteSet({t \in Threads : code[t] # "0"})
    BY <2>1, FS_Subset
  <2>. QED BY <1>1, <2>2, FS_CardinalityType
<1>5. DetectTypes'
  BY <1>1, <1>2, <1>4, NobodyMoves DEF DetectInv, DetectTypes
<1>6. Accounts'
  BY <1>1, KernelRests
<1>7. Blocked' /\ Courses' /\ Refusals'
  BY <1>1, <1>2, <1>3, NobodyMoves DEF DetectInv, Blocked, Courses, Refusals
<1>. QED BY <1>5, <1>6, <1>7 DEF DetectInv

LEMMA DetectStep == DetectInv /\ [Next]_vars => DetectInv'
<1> SUFFICES ASSUME DetectInv, [Next]_vars PROVE DetectInv'
  OBVIOUS
<1>1. CASE mainThread
  BY <1>1, SleepStep, ReleaseStep, WaitAllStep, CreateStep DEF mainThread
<1>2. ASSUME NEW t \in Threads, deadlock_test(t) PROVE DetectInv'
  BY <1>2, AllocStep, BarrierStep, TryStep, ReturnStep, LeaveStep, FreeStep, ExitStep DEF deadlock_test
<1>3. CASE UNCHANGED vars
  <2>1. /\ UNCHANGED <<program, place, kernel>> /\ code' = code /\ main' = main /\ fail' = fail
        /\ ready' = ready
    BY <1>3 DEF vars
  <2>2. avail' = avail /\ held' = held /\ need' = need
    BY <2>1 DEF kernel
  <2>3. DetectTypes'
    BY <2>1, <2>2, NobodyMoves DEF DetectInv, DetectTypes
  <2>4. Accounts'
    BY <2>1, KernelRests
  <2>5. Blocked' /\ Courses' /\ Refusals'
    BY <2>1, <2>2, NobodyMoves DEF DetectInv, Blocked, Courses, Refusals
  <2>. QED BY <2>3, <2>4, <2>5 DEF DetectInv
<1>. QED BY <1>1, <1>2, <1>3 DEF Next

-----------------------------------------------------------------------------
(* The theorems.                                                           *)

(* Whatever the order of the threads, no unit is lost or made, and no down *)
(* is refused but those of try_sem_down in sem1: assert_eq ends no thread  *)
(* (there is no "panic" in DetectTypes).                                   *)
THEOREM DetectInductive == Spec => []DetectInv
<1>. QED BY InitInv, DetectStep, PTL DEF Spec

(* At the end every unit is back, also those of a thread that was refused. *)
THEOREM UnitsComeBack == Spec => []UnitsReturned
<1>1. DetectInv => UnitsReturned
  <2> SUFFICES ASSUME DetectInv, main = "checked", NEW s \in Sems PROVE avail[s] = Total(s)
    BY DEF UnitsReturned
  <2>1. program \in Programs /\ avail[s] \in Nat /\ Barrier \notin Res
    BY ProgramTypes DEF DetectInv, DetectTypes
  <2>2. /\ \A t \in Threads : at[t] = "exit"
        /\ held[Main][Barrier] = 0
    BY DEF DetectInv, Courses
  <2>3. Inside = {} /\ Allocated(s) = {} /\ Requested(s) = {}
    BY <2>2 DEF Inside, InBarrier, Allocated, HasAlloc, Requested, HasRequest
  <2>4. Cardinality({}) = 0
    BY FS_EmptySet
  <2>5. CASE s \in Res
    <3>1. avail[s] + Cardinality(Allocated(s)) + Cardinality(Requested(s)) = res_num[s]
      BY <2>5 DEF DetectInv, Accounts
    <3>2. avail[s] = res_num[s]
      BY <2>1, <2>3, <2>4, <3>1
    <3>. QED BY <2>1, <2>5, <3>2 DEF Total
  <2>6. CASE s = Barrier
    <3>1. avail[Barrier] + Cardinality(Inside) + held[Main][Barrier] = Cardinality(Threads)
      BY DEF DetectInv, Accounts
    <3>. QED BY <2>1, <2>2, <2>3, <2>4, <2>6, <3>1 DEF Total
  <2>. QED BY <2>5, <2>6 DEF Sems
<1>. QED BY <1>1, DetectInductive, PTL

(* sem2: nobody is refused, for every program in which who tries for a unit*)
(* can wait for a thread that tries for nothing.                           *)
THEOREM RelievedIsNotRefused == Spec => []NobodyIsRefused
<1>1. DetectInv => NobodyIsRefused
  <2> SUFFICES ASSUME DetectInv, main = "checked", ~program.barrierFirst PROVE fail = 0
    BY DEF NobodyIsRefused
  <2>1. \A t \in Threads : code[t] = "0"
    BY DEF DetectInv, Courses, Refusals
  <2>2. {t \in Threads : code[t] # "0"} = {}
    BY <2>1
  <2>. QED BY <2>2, FS_EmptySet DEF DetectInv, Courses
<1>. QED BY <1>1, DetectInductive, PTL

(* sem1: the assertion of main, ch8_sem1_deadlock.c:98, holds when every   *)
(* thread was at the barrier in time, for every program whose threads can  *)
(* only wait for each other all together; and no second one is refused.    *)
THEOREM OneOfTheRingIsRefused == Spec => []OneIsRefused
<1>1. DetectInv => OneIsRefused
  <2> SUFFICES ASSUME DetectInv, main = "checked", program.barrierFirst, ready PROVE fail = 1
    BY DEF OneIsRefused
  <2>1. PICK t \in Threads : refused[t]
    <3>1. Threads # {} /\ \A t \in Threads : at[t] = "exit"
      BY ProgramAssumption DEF DetectInv, DetectTypes, IsProgram, Threads, Courses
    <3>. QED BY <3>1 DEF DetectInv, Refusals
  <2>2. \A u \in Threads : refused[u] => u = t
    BY <2>1 DEF DetectInv, Refusals
  <2>3. \A u \in Threads : code[u] # "0" <=> refused[u]
    BY DEF DetectInv, Courses
  <2>4. {u \in Threads : code[u] # "0"} = {t}
    BY <2>1, <2>2, <2>3
  <2>5. Cardinality({t}) = 1
    BY FS_Singleton
  <2>. QED BY <2>4, <2>5 DEF DetectInv, Courses
<1>. QED BY <1>1, DetectInductive, PTL

=============================================================================
