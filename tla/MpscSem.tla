------------------------------ MODULE MpscSem -------------------------------
(***************************************************************************)
(* user/src/ucore/ch8b_mpsc_sem.c: several producers and one consumer share*)
(* a ring buffer guarded by three semaphores: a mutex, the free slots and  *)
(* the filled slots.                                                       *)
(***************************************************************************)
EXTENDS Integers, Sequences, FiniteSets

CONSTANTS
  Producers,           (* the producer threads                             *)
  Consumer,            (* the consumer thread                              *)
  buffer_size,         (* slots of the ring                                *)
  number_per_producer  (* entries each producer puts                       *)

ASSUME MpscAssumption ==
  /\ IsFiniteSet(Producers)
  /\ Consumer \notin Producers
  /\ buffer_size \in Nat \ {0}
  /\ number_per_producer \in Nat

RingThreads == Producers \cup {Consumer}

VARIABLES
  sem_mutex, sem_empty, sem_existed, (* the counts of the semaphores       *)
  buffer, front, tail,
  pc,       (* pc[t]: the statement thread t is about to run               *)
  i,        (* i[t]: its loop counter                                      *)
  ringMain, (* main(): "create", "join" or "passed"                        *)
  printed,  (* the ids the consumer has printed                            *)
  produced  (* history: the ids put, in the order of the puts              *)

ringVars == <<sem_mutex, sem_empty, sem_existed, buffer, front, tail, pc, i, ringMain,
              printed, produced>>

total == number_per_producer * Cardinality(Producers)

Rounds(t) == IF t = Consumer THEN total ELSE number_per_producer

RingInit ==
  /\ sem_mutex = 1
  /\ sem_empty = buffer_size
  /\ sem_existed = 0
  /\ buffer = [s \in 0 .. buffer_size - 1 |-> 0]
  /\ front = 0
  /\ tail = 0
  /\ pc = [t \in RingThreads |-> "unborn"]
  /\ i = [t \in RingThreads |-> 0]
  /\ ringMain = "create"
  /\ printed = <<>>
  /\ produced = <<>>

-----------------------------------------------------------------------------

Goto(t, from, to) ==
  /\ pc[t] = from
  /\ pc' = [pc EXCEPT ![t] = to]

(* Where the for loop of thread t goes when its counter is n.              *)
LoopTop(t, n) == IF n < Rounds(t) THEN "reserve" ELSE "exited"

(* Mutant: a slot is taken without waiting for a free one.                 *)
ReserveEmptyNoWait(p) ==
  /\ Goto(p, "reserve", "lock")
  /\ sem_empty' = IF sem_empty > 0 THEN sem_empty - 1 ELSE 0
  /\ UNCHANGED <<sem_mutex, sem_existed, buffer, front, tail, i, ringMain, printed, produced>>

(* Mutant: the consumer forgets to give the slot back.                     *)
ReleaseNothing ==
  /\ Goto(Consumer, "release", LoopTop(Consumer, i[Consumer] + 1))
  /\ i' = [i EXCEPT ![Consumer] = @ + 1]
  /\ UNCHANGED <<sem_mutex, sem_empty, sem_existed, buffer, front, tail, ringMain, printed, produced>>

(* semaphore_down on the free slots (producer) or filled slots (consumer). *)
ReserveEmpty(p) ==
  /\ Goto(p, "reserve", "lock")
  /\ sem_empty > 0
  /\ sem_empty' = sem_empty - 1
  /\ UNCHANGED <<sem_mutex, sem_existed, buffer, front, tail, i, ringMain, printed, produced>>

ReserveExisted ==
  /\ Goto(Consumer, "reserve", "lock")
  /\ sem_existed > 0
  /\ sem_existed' = sem_existed - 1
  /\ UNCHANGED <<sem_mutex, sem_empty, buffer, front, tail, i, ringMain, printed, produced>>

Lock(t) ==
  /\ Goto(t, "lock", "access")
  /\ sem_mutex > 0
  /\ sem_mutex' = sem_mutex - 1
  /\ UNCHANGED <<sem_empty, sem_existed, buffer, front, tail, i, ringMain, printed, produced>>

(* buffer[front] = id                                                      *)
Store(p) ==
  /\ Goto(p, "access", "advance")
  /\ buffer' = [buffer EXCEPT ![front] = p]
  /\ UNCHANGED <<sem_mutex, sem_empty, sem_existed, front, tail, i, ringMain, printed, produced>>

(* front = (front + 1) % buffer_size: the entry is in the queue.           *)
AdvanceFront(p) ==
  /\ Goto(p, "advance", "unlock")
  /\ front' = (front + 1) % buffer_size
  /\ produced' = Append(produced, p)
  /\ UNCHANGED <<sem_mutex, sem_empty, sem_existed, buffer, tail, i, ringMain, printed>>

(* printf("%d ", buffer[tail])                                             *)
Load ==
  /\ Goto(Consumer, "access", "advance")
  /\ printed' = Append(printed, buffer[tail])
  /\ UNCHANGED <<sem_mutex, sem_empty, sem_existed, buffer, front, tail, i, ringMain, produced>>

AdvanceTail ==
  /\ Goto(Consumer, "advance", "unlock")
  /\ tail' = (tail + 1) % buffer_size
  /\ UNCHANGED <<sem_mutex, sem_empty, sem_existed, buffer, front, i, ringMain, printed, produced>>

Unlock(t) ==
  /\ Goto(t, "unlock", "release")
  /\ sem_mutex' = sem_mutex + 1
  /\ UNCHANGED <<sem_empty, sem_existed, buffer, front, tail, i, ringMain, printed, produced>>

(* The last semaphore_up of a round, and the loop condition.               *)
ReleaseExisted(p) ==
  /\ Goto(p, "release", LoopTop(p, i[p] + 1))
  /\ i' = [i EXCEPT ![p] = @ + 1]
  /\ sem_existed' = sem_existed + 1
  /\ UNCHANGED <<sem_mutex, sem_empty, buffer, front, tail, ringMain, printed, produced>>

ReleaseEmpty ==
  /\ Goto(Consumer, "release", LoopTop(Consumer, i[Consumer] + 1))
  /\ i' = [i EXCEPT ![Consumer] = @ + 1]
  /\ sem_empty' = sem_empty + 1
  /\ UNCHANGED <<sem_mutex, sem_existed, buffer, front, tail, ringMain, printed, produced>>

(* main: thread_create for the producers, then for the consumer, each      *)
(* running at once; waittid for all of them; the final message.            *)
CreateRingThread(t) ==
  /\ ringMain = "create"
  /\ t = Consumer => \A p \in Producers : pc[p] # "unborn"
  /\ Goto(t, "unborn", LoopTop(t, 0))
  /\ ringMain' = IF t = Consumer THEN "join" ELSE "create"
  /\ UNCHANGED <<sem_mutex, sem_empty, sem_existed, buffer, front, tail, i, printed, produced>>

JoinAll ==
  /\ ringMain = "join"
  /\ \A t \in RingThreads : pc[t] = "exited"
  /\ ringMain' = "passed"
  /\ UNCHANGED <<sem_mutex, sem_empty, sem_existed, buffer, front, tail, pc, i, printed, produced>>

producer(p) ==
  ReserveEmpty(p) \/ Lock(p) \/ Store(p) \/ AdvanceFront(p) \/ Unlock(p) \/ ReleaseExisted(p)

consumer ==
  ReserveExisted \/ Lock(Consumer) \/ Load \/ AdvanceTail \/ Unlock(Consumer) \/ ReleaseEmpty

ringMainThread == JoinAll \/ \E t \in RingThreads : CreateRingThread(t)

RingNext == ringMainThread \/ consumer \/ \E p \in Producers : producer(p)

(* Every thread that can run is scheduled.  Nothing is assumed of the order*)
(* in which a semaphore wakes its waiters.                                 *)
RingFairness ==
  /\ WF_ringVars(ringMainThread)
  /\ WF_ringVars(consumer)
  /\ \A p \in Producers : WF_ringVars(producer(p))

RingSpec == RingInit /\ [][RingNext]_ringVars /\ RingFairness

-----------------------------------------------------------------------------

Labels == {"unborn", "reserve", "lock", "access", "advance", "unlock", "release", "exited"}

TypeOK ==
  /\ sem_mutex \in Nat /\ sem_empty \in Nat /\ sem_existed \in Nat
  /\ buffer \in [0 .. buffer_size - 1 -> Producers \cup {0}]
  /\ front \in 0 .. buffer_size - 1
  /\ tail \in 0 .. buffer_size - 1
  /\ pc \in [RingThreads -> Labels]
  /\ i \in [RingThreads -> Nat]
  /\ ringMain \in {"create", "join", "passed"}
  /\ printed \in Seq(Producers \cup {0})
  /\ produced \in Seq(Producers)

InSection(t) == pc[t] \in {"access", "advance", "unlock"}

(* The mutex semaphore admits one thread at a time to the ring's indices.  *)
MutualExclusion ==
  \A s, t \in RingThreads : InSection(s) /\ InSection(t) => s = t

(* What the consumer prints is what was put, in that order: no slot is     *)
(* overwritten before it is printed, printed twice or printed before it is *)
(* filled.                                                                 *)
PrintsInOrder ==
  /\ Len(printed) <= Len(produced)
  /\ \A k \in DOMAIN printed : printed[k] = produced[k]

(* The ring never holds more than its slots, and its indices are where the *)
(* numbers of puts and takes put them.                                     *)
RingConsistent ==
  /\ Len(produced) - Len(printed) <= buffer_size
  /\ front = Len(produced) % buffer_size
  /\ tail = (Len(printed) - IF pc[Consumer] = "advance" THEN 1 ELSE 0) % buffer_size

(* The counting argument behind the two properties above.  A producer holds*)
(* a free slot from its first semaphore_down to its last semaphore_up, and *)
(* has published it once front has moved; the consumer holds a filled slot *)
(* from its first semaphore_down to its last semaphore_up.                 *)
Busy == {"lock", "access", "advance", "unlock", "release"}

Holding   == {p \in Producers : pc[p] \in Busy}
Published == {p \in Producers : pc[p] \in {"unlock", "release"}}
Reserved  == IF pc[Consumer] \in Busy THEN 1 ELSE 0
Taken     == IF pc[Consumer] \in {"advance", "unlock", "release"} THEN 1 ELSE 0

Counting ==
  /\ sem_empty + sem_existed + Cardinality(Holding) + Reserved = buffer_size
  /\ Len(produced) = Len(printed) + sem_existed + Cardinality(Published) + Reserved - Taken

MutexCount ==
  /\ sem_mutex \in {0, 1}
  /\ sem_mutex = 1 <=> \A t \in RingThreads : ~InSection(t)

Slots ==
  /\ front = Len(produced) % buffer_size
  /\ tail = (Len(printed) - IF pc[Consumer] = "advance" THEN 1 ELSE 0) % buffer_size
  /\ pc[Consumer] = "advance" => Len(printed) > 0
  /\ \A k \in Len(printed) + 1 .. Len(produced) : buffer[(k - 1) % buffer_size] = produced[k]
  /\ \A p \in Producers : pc[p] = "advance" => buffer[front] = p

IInv ==
  /\ TypeOK
  /\ MutualExclusion
  /\ MutexCount
  /\ Counting
  /\ Slots
  /\ PrintsInOrder

(* The program implements the bounded queue, with the puts at the update   *)
(* of front and the takes at the printf.                                   *)
Fifo == INSTANCE BoundedFifo WITH Capacity <- buffer_size, entered <- produced, left <- printed
ImplementsFifo == Fifo!FifoSpec

=============================================================================
