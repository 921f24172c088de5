--------------------------- MODULE MpscSemProofs ----------------------------
(***************************************************************************)
(* Proofs about MpscSem for every set of producers, every ring size and    *)
(* every number of entries: types, the order in which entries are printed, *)
(* and that the program implements the bounded queue.                      *)
(***************************************************************************)
EXTENDS MpscSem, FiniteSetTheorems, TLAPS

-----------------------------------------------------------------------------
(* Indices modulo the size of the ring.                                    *)

(* Division with remainder, for a divisor that is not a constant.           *)
LEMMA DivMod ==
  ASSUME NEW n \in Nat \ {0}, NEW a \in Nat
  PROVE  /\ a \div n \in Int /\ a % n \in 0 .. n - 1
         /\ a = n * (a \div n) + (a % n)
OBVIOUS

(* A positive multiple of n is at least n.                                  *)
LEMMA MulLe ==
  ASSUME NEW n \in Nat \ {0}, NEW q \in Int, q >= 1
  PROVE  n * q >= n
OBVIOUS
(* A multiple of n by no more than 0 is no more than 0.                     *)
LEMMA MulNonPositive ==
  ASSUME NEW n \in Nat \ {0}, NEW q \in Int, q <= 0
  PROVE  n * q <= 0
OBVIOUS
(* Multiplication by n distributes over a difference.                       *)
LEMMA Distr ==
  ASSUME NEW n \in Nat \ {0}, NEW q \in Int, NEW p \in Int
  PROVE  n * q - n * p = n * (q - p)
OBVIOUS

(* Quotient and remainder are determined by the number.                     *)
LEMMA Unique ==
  ASSUME NEW n \in Nat \ {0}, NEW q \in Int, NEW p \in Int, 
   NEW r \in 0..n-1, NEW s \in 0..n-1, n * q + r = n * p + s
  PROVE  q = p /\ r = s
<1> DEFINE d == q - p
<1>1. n * d = s - r /\ d \in Int
  <2>1. n * q - n * p = n * (q - p)
    BY Distr
  <2>2. n * q \in Int /\ n * p \in Int
    OBVIOUS
  <2> HIDE DEF d
  <2>3. n * q - n * p = s - r
    BY <2>2
  <2>. QED BY <2>1, <2>3 DEF d
<1>2. ~(d >= 1)
  <2> HIDE DEF d
  <2>. QED BY <1>1, MulLe
<1>3. ~(d <= -1)
  <2>1. SUFFICES ASSUME d <= -1 PROVE FALSE
    OBVIOUS
  <2> DEFINE e == p - q
  <2>2. n * e = r - s /\ e \in Int /\ e >= 1
    <3>1. n * p - n * q = n * (p - q)
      BY Distr
    <3>2. n * q \in Int /\ n * p \in Int
      OBVIOUS
    <3>3. n * p - n * q = r - s
      BY <3>2
    <3>4. p - q >= 1
      BY <2>1
    <3> QED BY <3>1, <3>3, <3>4
  <2> HIDE DEF e
  <2> QED BY <2>2, MulLe
<1>4. d = 0
   BY <1>2, <1>3
<1> QED BY <1>4, <1>1

(* Two positions less than n apart fall on different slots of a ring of n   *)
(* slots (buffer[front] against the slots not yet printed).                 *)
LEMMA ModDiffer ==
  ASSUME NEW n \in Nat \ {0}, NEW a \in Nat, NEW b \in Nat, a < b, b < a + n
  PROVE  a % n # b % n
<1> DEFINE q == a \div n  p == b \div n  r == a % n  s == b % n
<1>1. /\ q \in Int /\ p \in Int /\ r \in 0 .. n - 1 /\ s \in 0 .. n - 1
      /\ a = n * q + r /\ b = n * p + s
  BY DivMod
<1>2. SUFFICES ASSUME r = s PROVE FALSE
  OBVIOUS
<1>3. n * p - n * q = n * (p - q)
  BY <1>1, Distr
<1>4. n * p \in Int /\ n * q \in Int /\ p - q \in Int
  BY <1>1
<1>5. b - a = n * (p - q)
  <2> HIDE DEF q, p, r, s
  <2> QED BY <1>1, <1>2, <1>3, <1>4
<1>6. p - q <= 0 \/ p - q >= 1
  BY <1>4
<1>7. CASE p - q <= 0
  <2>1. n * (p - q) <= 0
    <3> HIDE DEF q, p
    <3> QED BY <1>4, <1>7, MulNonPositive
  <2> QED BY <2>1, <1>5
<1>8. CASE p - q >= 1
  <2>1. n * (p - q) >= n
    <3> HIDE DEF q, p
    <3> QED BY <1>4, <1>8, MulLe
  <2> QED BY <2>1, <1>5
<1> QED BY <1>6, <1>7, <1>8

(* front = (front + 1) % buffer_size keeps front = (number of puts) % n.    *)
LEMMA ModSuccessor ==
  ASSUME NEW n \in Nat \ {0}, NEW a \in Nat
  PROVE  ((a % n) + 1) % n = (a + 1) % n
<1> DEFINE q == a \div n  r == a % n
<1>1. q \in Int /\ r \in 0 .. n - 1 /\ a = n * q + r
  BY DivMod
<1>2. CASE r + 1 < n
  <2>1. /\ (a + 1) \div n \in Int /\ (a + 1) % n \in 0 .. n - 1
        /\ a + 1 = n * ((a + 1) \div n) + ((a + 1) % n)
    BY DivMod
  <2>2. a + 1 = n * q + (r + 1)
    <3> n * q \in Int BY <1>1
    <3> HIDE DEF q, r
    <3> QED BY <1>1
  <2>3. (a + 1) % n = r + 1
    <3> DEFINE u == (a + 1) \div n  v == (a + 1) % n
    <3>1. u \in Int /\ v \in 0 .. n - 1 /\ n * u + v = n * q + (r + 1) /\ r + 1 \in 0 .. n - 1
      BY <1>1, <1>2, <2>1, <2>2
    <3> HIDE DEF u, v, q, r
    <3>2. v = r + 1
      BY <3>1, <1>1, Unique
    <3> QED BY <3>2 DEF v
  <2>4. (r + 1) % n = r + 1
    <3>1. r + 1 \in Nat
      BY <1>1
    <3> HIDE DEF r
    <3> QED BY <3>1, <1>2
  <2> QED BY <2>3, <2>4
<1>3. CASE r + 1 = n
  <2>1. /\ (a + 1) \div n \in Int /\ (a + 1) % n \in 0 .. n - 1
        /\ a + 1 = n * ((a + 1) \div n) + ((a + 1) % n)
    BY DivMod
  <2>2. a + 1 = n * (q + 1) + 0
    <3>1. n * (q + 1) - n * q = n * (q + 1 - q)
      BY <1>1, Distr
    <3>2. n * q \in Int /\ n * (q + 1) \in Int
      BY <1>1
    <3> HIDE DEF q, r
    <3> QED BY <1>1, <1>3, <3>1, <3>2
  <2>3. (a + 1) % n = 0
    <3> DEFINE u == (a + 1) \div n  v == (a + 1) % n
    <3>1. u \in Int /\ v \in 0 .. n - 1 /\ n * u + v = n * (q + 1) + 0 /\ q + 1 \in Int
      BY <1>1, <2>1, <2>2
    <3> HIDE DEF u, v, q, r
    <3>2. v = 0
      BY <3>1, <1>1, Unique
    <3> QED BY <3>2 DEF v
  <2>4. n % n = 0
    OBVIOUS
  <2> QED BY <2>3, <2>4, <1>3
<1> QED BY <1>1, <1>2, <1>3

-----------------------------------------------------------------------------

USE MpscAssumption

(* The loop bound of a thread is a natural number.                         *)
LEMMA RoundsType == \A t \in RingThreads : Rounds(t) \in Nat
<1>1. Cardinality(Producers) \in Nat
  BY FS_CardinalityType
<1>2. total \in Nat
  BY <1>1 DEF total
<1>. QED BY <1>2 DEF Rounds

(* TypeOK for every number of producers, entries and slots.                *)
THEOREM Typing == RingSpec => []TypeOK
<1>1. RingInit => TypeOK
  BY DEF RingInit, TypeOK, Labels
<1>2. TypeOK /\ [RingNext]_ringVars => TypeOK'
  <2> SUFFICES ASSUME TypeOK, [RingNext]_ringVars PROVE TypeOK'
    OBVIOUS
  <2> USE DEF TypeOK, Goto, Labels
  <2>1. ASSUME NEW p \in Producers, producer(p) PROVE TypeOK'
    <3> USE DEF RingThreads, LoopTop
    <3>1. CASE ReserveEmpty(p)    BY <3>1 DEF ReserveEmpty
    <3>2. CASE Lock(p)            BY <3>2 DEF Lock
    <3>3. CASE Store(p)           BY <3>3 DEF Store
    <3>4. CASE AdvanceFront(p)    BY <3>4 DEF AdvanceFront
    <3>5. CASE Unlock(p)          BY <3>5 DEF Unlock
    <3>6. CASE ReleaseExisted(p)  BY <3>6 DEF ReleaseExisted
    <3>. QED BY <2>1, <3>1, <3>2, <3>3, <3>4, <3>5, <3>6 DEF producer
  <2>2. CASE consumer
    <3> USE DEF RingThreads, LoopTop
    <3>1. CASE ReserveExisted     BY <3>1 DEF ReserveExisted
    <3>2. CASE Lock(Consumer)     BY <3>2 DEF Lock
    <3>3. CASE Load               BY <3>3 DEF Load
    <3>4. CASE AdvanceTail        BY <3>4 DEF AdvanceTail
    <3>5. CASE Unlock(Consumer)   BY <3>5 DEF Unlock
    <3>6. CASE ReleaseEmpty       BY <3>6 DEF ReleaseEmpty
    <3>. QED BY <2>2, <3>1, <3>2, <3>3, <3>4, <3>5, <3>6 DEF consumer
  <2>3. CASE ringMainThread
    BY <2>3 DEF ringMainThread, JoinAll, CreateRingThread, RingThreads, LoopTop
  <2>4. CASE UNCHANGED ringVars
    BY <2>4 DEF ringVars
  <2>. QED BY <2>1, <2>2, <2>3, <2>4 DEF RingNext
<1>. QED BY <1>1, <1>2, PTL DEF RingSpec

-----------------------------------------------------------------------------

(* The mutex semaphore is 1 exactly when nobody is in the section, and at  *)
(* most one thread is: only Lock and Unlock change either.                 *)
LEMMA MutexStep ==
  ASSUME TypeOK, TypeOK', MutualExclusion, MutexCount, [RingNext]_ringVars
  PROVE  MutualExclusion' /\ MutexCount'
<1> USE DEF MutualExclusion, MutexCount, InSection, TypeOK, Goto, Labels
<1>1. ASSUME NEW t \in RingThreads, Lock(t) PROVE MutualExclusion' /\ MutexCount'
  BY <1>1 DEF Lock
<1>2. ASSUME NEW t \in RingThreads, Unlock(t) PROVE MutualExclusion' /\ MutexCount'
  <2>1. sem_mutex = 0 /\ \A s \in RingThreads : InSection(s) => s = t
    BY <1>2 DEF Unlock
  <2>. QED BY <1>2, <2>1 DEF Unlock
<1>3. ASSUME NEW t \in RingThreads, NEW a, NEW b, Goto(t, a, b),
             a \in {"access", "advance"} <=> b \in {"advance", "unlock"},
             a \notin {"lock", "unlock"}, b \notin {"access"},
             UNCHANGED sem_mutex
      PROVE  MutualExclusion' /\ MutexCount'
  <2>1. \A s \in RingThreads : InSection(s)' <=> InSection(s)
    BY <1>3
  <2>. QED BY <2>1, <1>3
<1>4. ASSUME NEW p \in Producers, producer(p) PROVE MutualExclusion' /\ MutexCount'
  <2> USE DEF RingThreads
  <2>1. CASE ReserveEmpty(p)   BY <2>1, <1>3 DEF ReserveEmpty
  <2>2. CASE Store(p)          BY <2>2, <1>3 DEF Store
  <2>3. CASE AdvanceFront(p)   BY <2>3, <1>3 DEF AdvanceFront
  <2>4. CASE ReleaseExisted(p) BY <2>4, <1>3 DEF ReleaseExisted, LoopTop
  <2>. QED BY <1>4, <1>1, <1>2, <2>1, <2>2, <2>3, <2>4 DEF producer
<1>5. CASE consumer
  <2> USE DEF RingThreads
  <2>1. CASE ReserveExisted    BY <2>1, <1>3 DEF ReserveExisted
  <2>2. CASE Load              BY <2>2, <1>3 DEF Load
  <2>3. CASE AdvanceTail       BY <2>3, <1>3 DEF AdvanceTail
  <2>4. CASE ReleaseEmpty      BY <2>4, <1>3 DEF ReleaseEmpty, LoopTop
  <2>. QED BY <1>5, <1>1, <1>2, <2>1, <2>2, <2>3, <2>4 DEF consumer
<1>6. ASSUME NEW t \in RingThreads, CreateRingThread(t) PROVE MutualExclusion' /\ MutexCount'
  BY <1>6, <1>3 DEF CreateRingThread, LoopTop
<1>7. CASE JoinAll \/ UNCHANGED ringVars
  BY <1>7 DEF JoinAll, ringVars
<1>. QED BY <1>4, <1>5, <1>6, <1>7 DEF RingNext, ringMainThread

(* The sets that are counted are finite; a producer that holds a slot it   *)
(* has not published makes the first strictly larger than the second.      *)
LEMMA CountedSets ==
  ASSUME TypeOK
  PROVE  /\ IsFiniteSet(Holding) /\ IsFiniteSet(Published)
         /\ Cardinality(Holding) \in Nat /\ Cardinality(Published) \in Nat
         /\ Cardinality(Published) <= Cardinality(Holding)
         /\ Holding # Published => Cardinality(Published) < Cardinality(Holding)
<1>1. Holding \subseteq Producers /\ Published \subseteq Holding
  BY DEF Holding, Published, Busy
<1>2. IsFiniteSet(Holding) /\ IsFiniteSet(Published)
  BY <1>1, FS_Subset
<1>3. Cardinality(Holding) \in Nat /\ Cardinality(Published) \in Nat
  BY <1>2, FS_CardinalityType
<1>4. /\ Cardinality(Published) <= Cardinality(Holding)
      /\ Cardinality(Published) = Cardinality(Holding) => Holding = Published
  BY <1>1, <1>2, FS_Subset
<1>. QED BY <1>2, <1>3, <1>4

(* The two counting equations.  ReserveEmpty and ReleaseExisted change who *)
(* holds a slot, AdvanceFront and ReleaseExisted who has published one; all*)
(* other steps leave both sets alone.                                      *)
LEMMA CountingStep ==
  ASSUME TypeOK, TypeOK', Counting, [RingNext]_ringVars
  PROVE  Counting'
<1>t. /\ pc \in [RingThreads -> Labels]
      /\ sem_empty \in Nat /\ sem_existed \in Nat
      /\ Len(produced) \in Nat /\ Len(printed) \in Nat
      /\ produced \in Seq(Producers) /\ printed \in Seq(Producers \cup {0})
      /\ buffer \in [0 .. buffer_size - 1 -> Producers \cup {0}] /\ tail \in 0 .. buffer_size - 1
  BY DEF TypeOK
<1>0. /\ IsFiniteSet(Holding) /\ IsFiniteSet(Published)
      /\ Cardinality(Holding) \in Nat /\ Cardinality(Published) \in Nat
      /\ Consumer \in RingThreads /\ Producers \subseteq RingThreads
  BY CountedSets DEF RingThreads
<1>n. /\ sem_empty \in Nat /\ sem_existed \in Nat
      /\ Len(produced) \in Nat /\ Len(printed) \in Nat
      /\ Cardinality(Holding) \in Nat /\ Cardinality(Published) \in Nat
  BY <1>t, <1>0
<1>1. ASSUME NEW p \in Producers, producer(p) PROVE Counting'
  <2>1. Reserved' = Reserved /\ Taken' = Taken
    BY <1>1, <1>0, <1>t DEF Goto, producer, ReserveEmpty, Lock, Store, AdvanceFront, Unlock, ReleaseExisted,
                Reserved, Taken
  <2>2. Reserved \in {0, 1} /\ Taken \in {0, 1}
    BY DEF Reserved, Taken
  <2>3. CASE ReserveEmpty(p)
    <3>1. Holding' = Holding \cup {p} /\ p \notin Holding /\ Published' = Published
      BY <2>3, <1>0, <1>t DEF Goto, ReserveEmpty, Holding, Published, Busy
    <3>2. Cardinality(Holding') = Cardinality(Holding) + 1
      BY <3>1, <1>0, FS_AddElement
    <3>. QED BY <2>1, <2>2, <2>3, <3>1, <3>2, <1>0, <1>t DEF Counting, ReserveEmpty
  <2>4. CASE AdvanceFront(p)
    <3>1. Published' = Published \cup {p} /\ p \notin Published /\ Holding' = Holding
      BY <2>4, <1>0, <1>t DEF Goto, AdvanceFront, Holding, Published, Busy
    <3>2. Cardinality(Published') = Cardinality(Published) + 1
      BY <3>1, <1>0, FS_AddElement
    <3>3. Len(produced') = Len(produced) + 1
      BY <1>t, <2>4 DEF AdvanceFront
    <3>4. /\ Len(produced) \in Nat /\ Len(printed) \in Nat
          /\ UNCHANGED <<sem_empty, sem_existed, printed>>
      BY <1>t, <2>4 DEF AdvanceFront
    <3>5. Cardinality(Holding') = Cardinality(Holding)
      BY <3>1
    <3>. QED BY <2>1, <2>2, <3>2, <3>3, <3>4, <3>5, <1>n DEF Counting
  <2>5. CASE ReleaseExisted(p)
    <3>1. /\ Published' = Published \ {p} /\ p \in Published
          /\ Holding' = Holding \ {p} /\ p \in Holding
      BY <2>5, <1>0, <1>t DEF Goto, ReleaseExisted, LoopTop, Holding, Published, Busy
    <3>2. /\ Cardinality(Published') = Cardinality(Published) - 1
          /\ Cardinality(Holding') = Cardinality(Holding) - 1
      BY <3>1, <1>0, FS_RemoveElement
    <3>3. sem_existed' = sem_existed + 1 /\ UNCHANGED <<sem_empty, printed, produced>>
      BY <2>5 DEF ReleaseExisted
    <3>4. sem_empty' + sem_existed' + Cardinality(Holding') + Reserved' = buffer_size
      BY <2>1, <2>2, <3>2, <3>3, <1>n DEF Counting
    <3>5. Len(produced') = Len(printed') + sem_existed' + Cardinality(Published')
                           + Reserved' - Taken'
      BY <2>1, <2>2, <3>2, <3>3, <1>n DEF Counting
    <3>. QED BY <3>4, <3>5 DEF Counting
  <2>6. CASE Lock(p) \/ Store(p) \/ Unlock(p)
    <3>1. Holding' = Holding /\ Published' = Published
      BY <2>6, <1>0, <1>t DEF Goto, Lock, Store, Unlock, Holding, Published, Busy
    <3>. QED BY <2>1, <2>6, <3>1 DEF Counting, Lock, Store, Unlock
  <2>. QED BY <1>1, <2>3, <2>4, <2>5, <2>6 DEF producer
<1>2. CASE consumer
  <2>1. Holding' = Holding /\ Published' = Published
    BY <1>2, <1>0, <1>t DEF Goto, consumer, ReserveExisted, Lock, Load, AdvanceTail, Unlock, ReleaseEmpty,
                LoopTop, Holding, Published
  <2>2. CASE ReserveExisted
    <3>1. Reserved' = 1 /\ Reserved = 0 /\ Taken' = 0 /\ Taken = 0
      BY <2>2, <1>0, <1>t DEF Goto, ReserveExisted, Reserved, Taken, Busy
    <3>. QED BY <2>1, <2>2, <3>1, <1>0, <1>t DEF Counting, ReserveExisted
  <2>3. CASE Load
    <3>1. Reserved' = 1 /\ Reserved = 1 /\ Taken' = 1 /\ Taken = 0
      BY <2>3, <1>0, <1>t DEF Goto, Load, Reserved, Taken, Busy
    <3>2. Len(printed') = Len(printed) + 1
      BY <1>t, <2>3 DEF Load
    <3>. QED BY <2>1, <2>3, <3>1, <3>2, <1>0, <1>t DEF Counting, Load
  <2>4. CASE ReleaseEmpty
    <3>1. Reserved' = 0 /\ Reserved = 1 /\ Taken' = 0 /\ Taken = 1
      BY <2>4, <1>0, <1>t DEF Goto, ReleaseEmpty, LoopTop, Reserved, Taken, Busy
    <3>. QED BY <2>1, <2>4, <3>1, <1>0, <1>t DEF Counting, ReleaseEmpty
  <2>5. CASE Lock(Consumer) \/ AdvanceTail \/ Unlock(Consumer)
    <3>1. Reserved' = Reserved /\ Taken' = Taken
      BY <2>5, <1>0, <1>t DEF Goto, Lock, AdvanceTail, Unlock, Reserved, Taken, Busy
    <3>. QED BY <2>1, <2>5, <3>1 DEF Counting, Lock, AdvanceTail, Unlock
  <2>. QED BY <1>2, <2>2, <2>3, <2>4, <2>5 DEF consumer
<1>3. ASSUME NEW t \in RingThreads, CreateRingThread(t) PROVE Counting'
  <2>1. Holding' = Holding /\ Published' = Published /\ Reserved' = Reserved /\ Taken' = Taken
    BY <1>3, <1>0, <1>t DEF Goto, CreateRingThread, LoopTop, Holding, Published, Reserved, Taken, Busy
  <2>. QED BY <1>3, <2>1 DEF Counting, CreateRingThread
<1>4. CASE JoinAll \/ UNCHANGED ringVars
  BY <1>4 DEF JoinAll, ringVars, Counting, Holding, Published, Reserved, Taken
<1>. QED BY <1>1, <1>2, <1>3, <1>4 DEF RingNext, ringMainThread

(* A producer about to use a slot finds one that is free.                  *)
LEMMA RoomForPut ==
  ASSUME TypeOK, Counting, NEW p \in Producers, pc[p] \in {"lock", "access", "advance"}
  PROVE  Len(produced) - Len(printed) < buffer_size
<1>1. p \in Holding /\ p \notin Published
  BY DEF Holding, Published, Busy
<1>2. Reserved \in {0, 1} /\ Taken \in {0, 1}
  BY DEF Reserved, Taken
<1>. QED BY <1>1, <1>2, CountedSets DEF Counting, TypeOK

(* The ring never holds more entries than slots, nor fewer than none; and  *)
(* a consumer about to print finds an entry.                               *)
LEMMA RingBounds ==
  ASSUME TypeOK, Counting
  PROVE  /\ Len(printed) <= Len(produced)
         /\ Len(produced) <= Len(printed) + buffer_size
         /\ pc[Consumer] \in {"lock", "access"} => Len(printed) < Len(produced)
<1>1. Reserved \in {0, 1} /\ Taken \in {0, 1} /\ Taken <= Reserved
  BY DEF Reserved, Taken, Busy
<1>2. pc[Consumer] \in {"lock", "access"} => Reserved = 1 /\ Taken = 0
  BY DEF Reserved, Taken, Busy
<1>. QED BY <1>1, <1>2, CountedSets DEF Counting, TypeOK

(* What the ring's slots hold, and that what is printed is what was put.   *)
LEMMA SlotsStep ==
  ASSUME TypeOK, TypeOK', MutualExclusion, Counting, Slots, PrintsInOrder, [RingNext]_ringVars
  PROVE  Slots' /\ PrintsInOrder'
<1> DEFINE N == buffer_size
<1>t. /\ pc \in [RingThreads -> Labels] /\ Consumer \in RingThreads /\ Producers \subseteq RingThreads
      /\ N \in Nat \ {0} /\ front \in 0 .. N - 1 /\ tail \in 0 .. N - 1
      /\ Len(produced) \in Nat /\ Len(printed) \in Nat
      /\ produced \in Seq(Producers) /\ printed \in Seq(Producers \cup {0})
      /\ buffer \in [0 .. N - 1 -> Producers \cup {0}]
  BY DEF TypeOK, RingThreads
<1>b. Len(printed) <= Len(produced) /\ Len(produced) <= Len(printed) + N
  BY RingBounds
<1>1. ASSUME NEW t \in RingThreads, NEW a, NEW b, Goto(t, a, b), a # "advance", b # "advance",
             UNCHANGED <<front, tail, buffer, printed, produced>>
      PROVE  Slots' /\ PrintsInOrder'
  <2>1. /\ pc'[Consumer] = "advance" <=> pc[Consumer] = "advance"
        /\ \A p \in Producers : pc'[p] = "advance" <=> pc[p] = "advance"
    BY <1>1, <1>t DEF Goto
  <2>. QED BY <2>1, <1>1 DEF Slots, PrintsInOrder
<1>2. ASSUME NEW p \in Producers, Store(p) PROVE Slots' /\ PrintsInOrder'
  <2>1. Len(produced) - Len(printed) < N
    BY <1>2, RoomForPut DEF Store, Goto
  <2>2. \A k \in Len(printed) + 1 .. Len(produced) : (k - 1) % N # front
    <3> SUFFICES ASSUME NEW k \in Len(printed) + 1 .. Len(produced) PROVE (k - 1) % N # front
      OBVIOUS
    <3>1. k - 1 \in Nat /\ k - 1 < Len(produced) /\ Len(produced) < k - 1 + N
      BY <2>1, <1>t
    <3>2. (k - 1) % N # Len(produced) % N
      BY <3>1, <1>t, ModDiffer
    <3>. QED BY <3>2 DEF Slots
  <2>3. pc[p] = "access" /\ \A q \in Producers : pc[q] # "advance"
    BY <1>2, <1>t DEF Store, Goto, MutualExclusion, InSection
  <2>4. /\ pc'[Consumer] = pc[Consumer] /\ pc'[p] = "advance"
        /\ \A q \in Producers : pc'[q] = "advance" => q = p
    BY <1>2, <2>3, <1>t DEF Store, Goto
  <2>5. buffer'[front] = p /\ \A s \in 0 .. N - 1 : s # front => buffer'[s] = buffer[s]
    BY <1>2, <1>t DEF Store
  <2>6. \A k \in Len(printed) + 1 .. Len(produced) : (k - 1) % N \in 0 .. N - 1
    <3> SUFFICES ASSUME NEW k \in Len(printed) + 1 .. Len(produced)
                 PROVE  (k - 1) % N \in 0 .. N - 1
      OBVIOUS
    <3>1. k - 1 \in Nat
      BY <1>t
    <3>. QED BY <3>1, <1>t, DivMod
  <2>7. UNCHANGED <<front, tail, printed, produced>>
    BY <1>2 DEF Store
  <2>. QED BY <2>2, <2>4, <2>5, <2>6, <2>7 DEF Slots, PrintsInOrder
<1>3. ASSUME NEW p \in Producers, AdvanceFront(p) PROVE Slots' /\ PrintsInOrder'
  <2>1. /\ produced' = Append(produced, p) /\ Len(produced') = Len(produced) + 1
        /\ \A k \in 1 .. Len(produced) : produced'[k] = produced[k]
        /\ produced'[Len(produced) + 1] = p
    BY <1>3, <1>t DEF AdvanceFront
  <2>2. UNCHANGED <<tail, buffer, printed>>
    BY <1>3 DEF AdvanceFront
  <2>3. front' = Len(produced') % N
    BY <1>3, <2>1, <1>t, ModSuccessor DEF AdvanceFront, Slots
  <2>4. buffer[Len(produced) % N] = p
    BY <1>3 DEF AdvanceFront, Goto, Slots
  <2>5. \A k \in Len(printed) + 1 .. Len(produced') : buffer[(k - 1) % N] = produced'[k]
    <3> SUFFICES ASSUME NEW k \in Len(printed) + 1 .. Len(produced')
                 PROVE  buffer[(k - 1) % N] = produced'[k]
      OBVIOUS
    <3>1. CASE k = Len(produced) + 1
      BY <3>1, <2>1, <2>4, <1>t
    <3>2. CASE k # Len(produced) + 1
      BY <3>2, <2>1, <1>t DEF Slots
    <3>. QED BY <3>1, <3>2
  <2>6. pc'[Consumer] = pc[Consumer] /\ \A q \in Producers : pc'[q] # "advance"
    BY <1>3, <1>t DEF AdvanceFront, Goto, MutualExclusion, InSection
  <2>7. Slots'
    BY <2>2, <2>3, <2>5, <2>6 DEF Slots
  <2>8. PrintsInOrder'
    BY <2>1, <2>2, <1>t, <1>b DEF PrintsInOrder
  <2>. QED BY <2>7, <2>8
<1>4. CASE Load
  <2>1. Len(printed) < Len(produced)
    BY <1>4, RingBounds DEF Load, Goto
  <2>2. pc[Consumer] = "access" /\ pc'[Consumer] = "advance"
    BY <1>4, <1>t DEF Load, Goto
  <2>3. buffer[tail] = produced[Len(printed) + 1]
    BY <2>1, <2>2, <1>t DEF Slots
  <2>4. /\ printed' = Append(printed, buffer[tail]) /\ Len(printed') = Len(printed) + 1
        /\ \A k \in 1 .. Len(printed) : printed'[k] = printed[k]
        /\ printed'[Len(printed) + 1] = buffer[tail]
        /\ UNCHANGED <<front, tail, buffer, produced>>
    BY <1>4, <1>t DEF Load
  <2>5. \A q \in Producers : pc'[q] = pc[q]
    BY <1>4, <1>t DEF Load, Goto
  <2>6. Slots'
    BY <2>2, <2>4, <2>5, <1>t DEF Slots
  <2>7. PrintsInOrder'
    BY <2>1, <2>3, <2>4, <1>t DEF PrintsInOrder
  <2>. QED BY <2>6, <2>7
<1>5. CASE AdvanceTail
  <2>1. pc[Consumer] = "advance" /\ pc'[Consumer] # "advance" /\ \A q \in Producers : pc'[q] = pc[q]
    BY <1>5, <1>t DEF AdvanceTail, Goto
  <2>2. tail' = (tail + 1) % N /\ UNCHANGED <<front, buffer, printed, produced>>
    BY <1>5 DEF AdvanceTail
  <2>3. Len(printed) - 1 \in Nat
    BY <2>1, <1>t DEF Slots
  <2>4. tail = (Len(printed) - 1) % N
    BY <2>1 DEF Slots
  <2>5. tail' = Len(printed) % N
    <3>1. (((Len(printed) - 1) % N) + 1) % N = ((Len(printed) - 1) + 1) % N
      BY <2>3, <1>t, ModSuccessor
    <3>2. (Len(printed) - 1) + 1 = Len(printed)
      BY <1>t
    <3>. QED BY <2>2, <2>4, <3>1, <3>2
  <2>. QED BY <2>1, <2>2, <2>5, <1>t DEF Slots, PrintsInOrder
<1>6. ASSUME NEW p \in Producers, producer(p) PROVE Slots' /\ PrintsInOrder'
  <2>1. CASE ReserveEmpty(p)   BY <2>1, <1>1, <1>t DEF ReserveEmpty
  <2>2. CASE Lock(p)           BY <2>2, <1>1, <1>t DEF Lock
  <2>3. CASE Unlock(p)         BY <2>3, <1>1, <1>t DEF Unlock
  <2>4. CASE ReleaseExisted(p) BY <2>4, <1>1, <1>t DEF ReleaseExisted, LoopTop
  <2>. QED BY <1>6, <1>2, <1>3, <2>1, <2>2, <2>3, <2>4 DEF producer
<1>7. CASE consumer
  <2>1. CASE ReserveExisted    BY <2>1, <1>1, <1>t DEF ReserveExisted
  <2>2. CASE Lock(Consumer)    BY <2>2, <1>1, <1>t DEF Lock
  <2>3. CASE Unlock(Consumer)  BY <2>3, <1>1, <1>t DEF Unlock
  <2>4. CASE ReleaseEmpty      BY <2>4, <1>1, <1>t DEF ReleaseEmpty, LoopTop
  <2>. QED BY <1>7, <1>4, <1>5, <2>1, <2>2, <2>3, <2>4 DEF consumer
<1>8. ASSUME NEW t \in RingThreads, CreateRingThread(t) PROVE Slots' /\ PrintsInOrder'
  BY <1>8, <1>1 DEF CreateRingThread, LoopTop
<1>9. CASE JoinAll \/ UNCHANGED ringVars
  BY <1>9 DEF JoinAll, ringVars, Slots, PrintsInOrder
<1>. QED BY <1>6, <1>7, <1>8, <1>9 DEF RingNext, ringMainThread

-----------------------------------------------------------------------------

(* The invariant that carries the argument is inductive.                   *)
THEOREM Inductive == RingSpec => []IInv
<1>1. RingInit => IInv
  <2> SUFFICES ASSUME RingInit PROVE IInv
    OBVIOUS
  <2>1. TypeOK
    BY DEF RingInit, TypeOK, Labels
  <2>2. MutualExclusion /\ MutexCount
    BY DEF RingInit, MutualExclusion, MutexCount, InSection
  <2>3. Counting
    <3>1. Holding = {} /\ Published = {} /\ Reserved = 0 /\ Taken = 0
      BY DEF RingInit, Holding, Published, Reserved, Taken, Busy, RingThreads
    <3>. QED BY <3>1, FS_EmptySet DEF RingInit, Counting
  <2>4. Slots /\ PrintsInOrder
    <3>1. Consumer \in RingThreads /\ \A t \in RingThreads : pc[t] # "advance"
      BY DEF RingInit, RingThreads
    <3>2. 0 % buffer_size = 0
      OBVIOUS
    <3>. QED BY <3>1, <3>2 DEF RingInit, Slots, PrintsInOrder, RingThreads
  <2>. QED BY <2>1, <2>2, <2>3, <2>4 DEF IInv
<1>2. TypeOK' /\ IInv /\ [RingNext]_ringVars => IInv'
  BY MutexStep, CountingStep, SlotsStep DEF IInv
<1>. QED BY <1>1, <1>2, Typing, PTL DEF RingSpec

(* MutualExclusion for every number of threads.                            *)
THEOREM Exclusive == RingSpec => []MutualExclusion
BY Inductive, PTL DEF IInv

(* PrintsInOrder for every number of producers and every ring size.        *)
THEOREM NothingLostOrReordered == RingSpec => []PrintsInOrder
BY Inductive, PTL DEF IInv

(* RingConsistent: the ring does not overflow, its indices are right.      *)
THEOREM RingNeverOverflows == RingSpec => []RingConsistent
<1>1. IInv => RingConsistent
  <2> SUFFICES ASSUME IInv PROVE RingConsistent
    OBVIOUS
  <2>1. /\ Len(produced) <= Len(printed) + buffer_size
        /\ Len(produced) \in Nat /\ Len(printed) \in Nat
    BY RingBounds DEF IInv, TypeOK
  <2>2. Len(produced) - Len(printed) <= buffer_size
    BY <2>1
  <2>. QED BY <2>2 DEF IInv, RingConsistent, Slots
<1>. QED BY <1>1, Inductive, PTL

(* The program implements the bounded queue.                               *)
THEOREM Refinement == RingSpec => ImplementsFifo
<1> USE DEF Fifo!FifoInit, Fifo!FifoNext, Fifo!Put, Fifo!Take, Fifo!fifoVars
<1>1. RingInit => Fifo!FifoInit
  BY DEF RingInit
<1>2. IInv /\ [RingNext]_ringVars => [Fifo!FifoNext]_(Fifo!fifoVars)
  <2> SUFFICES ASSUME IInv, [RingNext]_ringVars PROVE [Fifo!FifoNext]_(Fifo!fifoVars)
    OBVIOUS
  <2>1. ASSUME NEW p \in Producers, AdvanceFront(p) PROVE Fifo!Put(p)
    BY <2>1, RoomForPut DEF IInv, AdvanceFront, Goto
  <2>2. ASSUME Load PROVE Fifo!Take
    <3>1. Len(printed) < Len(produced) /\ pc[Consumer] # "advance"
      BY <2>2, RingBounds DEF IInv, Load, Goto
    <3>2. buffer[tail] = produced[Len(printed) + 1]
      <4>1. /\ Len(printed) \in Nat /\ Len(produced) \in Nat
            /\ Len(printed) + 1 \in Len(printed) + 1 .. Len(produced)
            /\ (Len(printed) + 1) - 1 = Len(printed) /\ Len(printed) - 0 = Len(printed)
        BY <3>1 DEF IInv, TypeOK
      <4>2. tail = Len(printed) % buffer_size
        BY <3>1, <4>1 DEF IInv, Slots
      <4>3. buffer[(Len(printed) + 1 - 1) % buffer_size] = produced[Len(printed) + 1]
        BY <4>1 DEF IInv, Slots
      <4>. QED BY <4>1, <4>2, <4>3
    <3>. QED BY <2>2, <3>1, <3>2 DEF Load
  <2>3. ASSUME NEW p \in Producers, producer(p) PROVE Fifo!Put(p) \/ UNCHANGED Fifo!fifoVars
    BY <2>1, <2>3 DEF producer, ReserveEmpty, Lock, Store, Unlock, ReleaseExisted
  <2>4. ASSUME consumer PROVE Fifo!Take \/ UNCHANGED Fifo!fifoVars
    <3>1. CASE Load
      BY <2>2, <3>1
    <3>2. CASE ReserveExisted \/ Lock(Consumer) \/ AdvanceTail \/ Unlock(Consumer) \/ ReleaseEmpty
      <4>1. UNCHANGED <<printed, produced>>
        BY <3>2 DEF ReserveExisted, Lock, AdvanceTail, Unlock, ReleaseEmpty
      <4>. QED BY <4>1
    <3>. QED BY <2>4, <3>1, <3>2 DEF consumer
  <2>5. CASE ringMainThread \/ UNCHANGED ringVars
    BY <2>5 DEF ringMainThread, JoinAll, CreateRingThread, ringVars
  <2>. QED BY <2>3, <2>4, <2>5 DEF RingNext
<1>. QED BY <1>1, <1>2, Inductive, PTL DEF RingSpec, ImplementsFifo, Fifo!FifoSpec

=============================================================================
