--------------------------- MODULE ForkWaitProofs ---------------------------
(***************************************************************************)
(* Proofs about ForkWait for every number of children an exit status can   *)
(* tell apart, every process table and every schedule.                     *)
(***************************************************************************)
EXTENDS ForkWait, FiniteSetTheorems, TLAPS

USE PidAssumption, ForkWaitAssumption DEF NoPid

(* A code below 256 survives the eight bits of the status word.            *)
LEMMA SmallStatus == \A n \in 0 .. 255 : n % 256 = n
OBVIOUS

(* The codes of the children all fit.                                      *)
LEMMA SmallCodes == \A x \in ChildCodes : x \in 0 .. 255 /\ x # 0
BY DEF ChildCodes, ChildCode

(* A fork adds one child to main, and never takes main's own number.       *)
LEMMA ForkKids ==
  ASSUME TypeOK, OnlyMainHasChildren, test # "exited", NEW c \in Pid, Fork(Main, c)
  PROVE  c # Main /\ c \notin Kids /\ Kids' = Kids \cup {c}
BY DEF TypeOK, ProcTypeOK, OnlyMainHasChildren, Fork, Kids, Children

(* A wait4 that returns a child takes exactly this one away.               *)
LEMMA ReapKids ==
  ASSUME TypeOK, OnlyMainHasChildren, NEW r \in Kids, Reap(r)
  PROVE  /\ r \in Pid /\ r # Main /\ Kids' = Kids \ {r}
         /\ status' = [status EXCEPT ![r] = "free"]
         /\ parent' = [parent EXCEPT ![r] = NoPid]
         /\ UNCHANGED code
BY DEF TypeOK, ProcTypeOK, OnlyMainHasChildren, Reap, Kids, Children

(* A child that exits stays a child, as a zombie, while main() runs.       *)
LEMMA ExitKids ==
  ASSUME TypeOK, OnlyMainHasChildren, NEW p \in Pid, p # Main, status[p] = "live",
         NEW x \in Int, Exit(p, x)
  PROVE  /\ Kids' = Kids
         /\ UNCHANGED parent
         /\ status' = [status EXCEPT ![p] = IF parent[p] = NoPid THEN "free" ELSE "zombie"]
<1>1. \A q \in Pid : parent[q] # p
  BY DEF OnlyMainHasChildren
<1>2. UNCHANGED parent
  BY <1>1 DEF Exit, TypeOK, ProcTypeOK
<1>3. status' = [status EXCEPT ![p] = IF parent[p] = NoPid THEN "free" ELSE "zombie"]
  BY <1>1 DEF Exit, TypeOK, ProcTypeOK
<1>4. Kids' = Kids
  BY <1>2, <1>3 DEF Kids, Children, TypeOK, ProcTypeOK, OnlyMainHasChildren
<1>. QED BY <1>2, <1>3, <1>4

(* What wait4 returns when there is a child to wait for: one that is dead. *)
LEMMA WaitReturns ==
  ASSUME NEW who, NEW nohang, Kids \cap who # {}, NEW r \in Wait4(Main, who, nohang)
  PROVE  \/ r \in Kids \cap who /\ status[r] = "zombie"
         \/ r = 0 /\ nohang
BY DEF Wait4, Kids

(* The code main() reads from a dead child is the one it was forked with.  *)
LEMMA ReadsItsCode ==
  ASSUME TypeOK, ZombieCode, NEW r \in Pid, status[r] = "zombie", task[r] \in 0 .. 255
  PROVE  WEXITSTATUS(r) = task[r]
BY SmallStatus DEF TypeOK, ZombieCode, WEXITSTATUS

-----------------------------------------------------------------------------

(* The initial state satisfies the invariant.                              *)
LEMMA ForkWaitStart == Init => ForkWaitInv
<1> SUFFICES ASSUME Init PROVE ForkWaitInv
  OBVIOUS
<1> USE DEF Init, ProcInit
<1>1. TypeOK
  <2>1. ProcTypeOK /\ task \in [Pid -> Nat]
    BY DEF ProcTypeOK
  <2>2. forkFailed \in BOOLEAN
    BY Zenon
  <2>3. forked \in 0 .. NUM_CHILDREN /\ children_reaped \in 0 .. NUM_CHILDREN /\ failures \in 0 .. 3
    BY SMT
  <2>. QED BY <2>1, <2>2, <2>3 DEF TypeOK, Tests
<1>2. OnlyMainHasChildren /\ ZombieCode
  BY DEF OnlyMainHasChildren, ZombieCode
<1>3. Kids = {}
  BY DEF Kids, Children
<1>4. OneChildTests /\ ManyChildrenTest /\ Progress /\ FailsOnlyIfForkFails /\ PassedLeavesNoChild
  BY <1>3 DEF OneChildTests, ManyChildrenTest, Progress, FailsOnlyIfForkFails,
              PassedLeavesNoChild, Tests
<1>. QED BY <1>1, <1>2, <1>4 DEF ForkWaitInv

(* main() going on to the next test with no child left.                    *)
LEMMA ReturnStep ==
  ASSUME ForkWaitInv, test \in Tests, NEW ok \in BOOLEAN, Return(ok),
         OnlyMainHasChildren', ZombieCode', ProcTypeOK',
         UNCHANGED <<task, forked, children_reaped, forkFailed>>, got' \subseteq ChildCodes,
         Kids' = {}, ok
  PROVE  ForkWaitInv'
<1> USE DEF ForkWaitInv
<1>1. /\ test' = NextTest[test] /\ test' \in {"wnohang", "multiple", "summary"}
      /\ pc' = "fork" /\ child' = NoPid /\ failures' = failures /\ passed' = passed \cup {test}
  BY DEF Return, NextTest, Tests
<1>2. TypeOK'
  BY <1>1 DEF TypeOK, Tests
<1>3. OneChildTests'
  BY <1>1 DEF OneChildTests, NextTest, Tests
<1>4. ManyChildrenTest'
  <2> SUFFICES ASSUME test' = "multiple" PROVE ManyChildrenTest'
    BY DEF ManyChildrenTest
  <2>1. test = "wnohang"
    BY <1>1 DEF NextTest, Tests
  <2>2. forked' = 0 /\ children_reaped' = 0
    BY <2>1 DEF OneChildTests
  <2>3. IsFiniteSet(Kids') /\ Cardinality(Kids') = 0
    BY FS_EmptySet
  <2>. QED BY <1>1, <2>2, <2>3 DEF ManyChildrenTest
<1>5. Progress'
  BY <1>1 DEF Progress, NextTest, Tests, TypeOK
<1>6. FailsOnlyIfForkFails'
  BY <1>1 DEF FailsOnlyIfForkFails
<1>7. PassedLeavesNoChild'
  BY <1>1 DEF PassedLeavesNoChild, OnlyMainHasChildren, Kids, Children
<1>. QED BY <1>2, <1>3, <1>4, <1>5, <1>6, <1>7

(* A fork() of the tests with one child.                                   *)
LEMMA ForkOne ==
  ASSUME ForkWaitInv, test \in {"basic", "wnohang"}, ForkChild
  PROVE  ForkWaitInv'
<1> USE DEF ForkWaitInv
<1>1. /\ pc = "fork" /\ pc' = (IF test = "wnohang" THEN "poll" ELSE "wait")
      /\ UNCHANGED <<test, forked, got, children_reaped, failures, passed, forkFailed>>
  BY DEF ForkChild
<1>2. PICK c \in Pid : Fork(Main, c) /\ child' = c /\ task' = [task EXCEPT ![c] = NextTask]
  BY DEF ForkChild
<1>3. c # Main /\ Kids' = {c}
  BY <1>1, <1>2, ForkKids DEF OneChildTests
<1>4. NextTask \in Nat /\ (test = "basic" => NextTask = 42)
  BY DEF NextTask
<1>5. TypeOK'
  BY <1>1, <1>2, <1>4 DEF TypeOK, ProcTypeOK, Fork
<1>6. OnlyMainHasChildren' /\ ZombieCode'
  BY <1>1, <1>2, <1>3, <1>4 DEF OnlyMainHasChildren, ZombieCode, Fork, TypeOK, ProcTypeOK
<1>7. OneChildTests'
  BY <1>1, <1>2, <1>3, <1>4 DEF OneChildTests, TypeOK
<1>8. ManyChildrenTest' /\ Progress' /\ FailsOnlyIfForkFails' /\ PassedLeavesNoChild'
  BY <1>1 DEF ManyChildrenTest, Progress, FailsOnlyIfForkFails, PassedLeavesNoChild
<1>. QED BY <1>5, <1>6, <1>7, <1>8

(* SPAWN_ONE_CHILD: the next idx has its child.                            *)
LEMMA ForkMany ==
  ASSUME ForkWaitInv, test = "multiple", ForkChild
  PROVE  ForkWaitInv'
<1> USE DEF ForkWaitInv
<1>1. /\ pc = "fork" /\ forked' = forked + 1
      /\ pc' = (IF forked' < NUM_CHILDREN THEN "fork" ELSE "wait")
      /\ UNCHANGED <<test, got, children_reaped, failures, passed, forkFailed>>
  BY DEF ForkChild
<1>2. PICK c \in Pid : Fork(Main, c) /\ child' = c /\ task' = [task EXCEPT ![c] = NextTask]
  BY DEF ForkChild
<1>3. c # Main /\ c \notin Kids /\ Kids' = Kids \cup {c}
  BY <1>1, <1>2, ForkKids
<1>4. forked \in Nat /\ forked < NUM_CHILDREN /\ children_reaped = 0
  BY <1>1 DEF ManyChildrenTest, TypeOK
<1>5. NextTask = ChildCode(forked) /\ NextTask \in ChildCodes /\ NextTask \in Nat
  BY <1>4 DEF NextTask, ChildCodes, ChildCode
<1>6. TypeOK'
  BY <1>1, <1>2, <1>4, <1>5 DEF TypeOK, ProcTypeOK, Fork
<1>7. OnlyMainHasChildren' /\ ZombieCode'
  BY <1>1, <1>2, <1>3, <1>5 DEF OnlyMainHasChildren, ZombieCode, Fork, TypeOK, ProcTypeOK
<1>8. ManyChildrenTest'
  <2>1. IsFiniteSet(Kids') /\ Cardinality(Kids') = forked' - children_reaped'
    <3>1. IsFiniteSet(Kids) /\ Cardinality(Kids) = forked
      BY <1>4 DEF ManyChildrenTest
    <3>2. IsFiniteSet(Kids') /\ Cardinality(Kids') = Cardinality(Kids) + 1
      BY <1>3, <3>1, FS_AddElement
    <3>. QED BY <1>1, <1>4, <3>1, <3>2
  <2>2. \A k \in Kids : task'[k] = task[k]
    BY <1>2, <1>3 DEF TypeOK, Kids, Children
  <2>3. task'[c] = ChildCode(forked)
    BY <1>2, <1>5 DEF TypeOK
  <2>4. \A k \in Kids' : task'[k] \in ChildCodes
    BY <1>3, <1>5, <2>2, <2>3 DEF ManyChildrenTest
  <2>5. \A idx \in 0 .. forked' - 1 :
          ChildCode(idx) \in got \/ \E k \in Kids' : task'[k] = ChildCode(idx)
    <3> SUFFICES ASSUME NEW idx \in 0 .. forked' - 1
                 PROVE  ChildCode(idx) \in got \/ \E k \in Kids' : task'[k] = ChildCode(idx)
      OBVIOUS
    <3>1. CASE idx = forked
      BY <3>1, <1>3, <2>3
    <3>2. CASE idx \in 0 .. forked - 1
      BY <3>2, <1>3, <2>2 DEF ManyChildrenTest
    <3>. QED BY <3>1, <3>2, <1>1, <1>4
  <2>. QED BY <1>1, <1>4, <2>1, <2>4, <2>5 DEF ManyChildrenTest
<1>9. OneChildTests' /\ Progress' /\ FailsOnlyIfForkFails' /\ PassedLeavesNoChild'
  BY <1>1 DEF OneChildTests, Progress, FailsOnlyIfForkFails, PassedLeavesNoChild
<1>. QED BY <1>6, <1>7, <1>8, <1>9

(* A fork() that fails ends the test, and the failure is remembered.       *)
LEMMA ForkErrorStep ==
  ASSUME ForkWaitInv, ForkError
  PROVE  ForkWaitInv'
<1> USE DEF ForkWaitInv
<1>1. /\ test \in Tests /\ pc = "fork" /\ forkFailed' = TRUE
      /\ test' = NextTest[test] /\ test' \in {"wnohang", "multiple", "summary"}
      /\ pc' = "fork" /\ child' = NoPid /\ failures' = failures + 1
      /\ UNCHANGED <<status, parent, code, task, forked, got, children_reaped, passed>>
  BY DEF ForkError, Return, NextTest, Tests, procVars
<1>2. Kids' = Kids
  BY <1>1 DEF Kids, Children
<1>3. Progress'
  BY <1>1 DEF Progress, NextTest, Tests, TypeOK
<1>4. failures' \in 0 .. 3
  BY <1>1 DEF Progress, Tests, TypeOK
<1>5. TypeOK'
  <2>1. forkFailed' \in BOOLEAN
    BY <1>1, Zenon
  <2>2. ProcTypeOK' /\ task' \in [Pid -> Nat]
    BY <1>1 DEF TypeOK, ProcTypeOK
  <2>3. /\ test' \in Tests \cup {"summary", "exited"} /\ pc' \in {"fork", "poll", "wait"}
        /\ child' \in Pid \cup {NoPid}
    BY <1>1 DEF Tests
  <2>4. /\ forked' \in 0 .. NUM_CHILDREN /\ children_reaped' \in 0 .. NUM_CHILDREN
        /\ got' \subseteq ChildCodes /\ passed' \subseteq Tests
    BY <1>1 DEF TypeOK
  <2>. QED BY <1>4, <2>1, <2>2, <2>3, <2>4, Zenon DEF TypeOK
<1>6. OnlyMainHasChildren' /\ ZombieCode'
  BY <1>1 DEF OnlyMainHasChildren, ZombieCode, Tests
<1>7. OneChildTests'
  BY <1>1, <1>2 DEF OneChildTests, NextTest, Tests
<1>8. ManyChildrenTest'
  <2>1. CASE test = "wnohang"
    <3>1. Kids' = {} /\ forked' = 0 /\ children_reaped' = 0
      BY <2>1, <1>1, <1>2 DEF OneChildTests
    <3>2. IsFiniteSet(Kids') /\ Cardinality(Kids') = 0
      BY <3>1, FS_EmptySet
    <3>. QED BY <1>1, <3>1, <3>2 DEF ManyChildrenTest
  <2>2. CASE test # "wnohang"
    BY <2>2, <1>1 DEF ManyChildrenTest, NextTest, Tests
  <2>. QED BY <2>1, <2>2
<1>9. FailsOnlyIfForkFails' /\ PassedLeavesNoChild'
  BY <1>1 DEF FailsOnlyIfForkFails, PassedLeavesNoChild, Progress, Tests
<1>. QED BY <1>3, <1>5, <1>6, <1>7, <1>8, <1>9

-----------------------------------------------------------------------------

(* Reaping a dead child disturbs neither the table nor the other codes.    *)
LEMMA ReapStep ==
  ASSUME ForkWaitInv, test \in Tests, NEW r \in Kids, Reap(r), test' # "exited", task' = task
  PROVE  ProcTypeOK' /\ OnlyMainHasChildren' /\ ZombieCode'
<1> USE DEF ForkWaitInv
<1>1. /\ r \in Pid /\ r # Main
      /\ status' = [status EXCEPT ![r] = "free"]
      /\ parent' = [parent EXCEPT ![r] = NoPid]
      /\ UNCHANGED code
  BY ReapKids
<1>2. ProcTypeOK'
  BY <1>1 DEF TypeOK, ProcTypeOK
<1>3. OnlyMainHasChildren'
  BY <1>1 DEF OnlyMainHasChildren, TypeOK, ProcTypeOK, Tests
<1>4. ZombieCode'
  BY <1>1 DEF ZombieCode, TypeOK, ProcTypeOK
<1>. QED BY <1>2, <1>3, <1>4

(* The wait of test_fork_wait_basic and both waits of test_wnohang return  *)
(* the one child there is, with its code, or (poll only) 0.                *)
LEMMA WaitOne ==
  ASSUME ForkWaitInv, WaitBasic \/ PollWnohang \/ WaitWnohang
  PROVE  ForkWaitInv'
<1> USE DEF ForkWaitInv
<1>1. /\ test \in {"basic", "wnohang"} /\ test \in Tests
      /\ child \in Pid /\ Kids = {child} /\ (test = "basic" => task[child] = 42)
      /\ UNCHANGED <<task, forked, got, children_reaped, forkFailed>>
  BY DEF WaitBasic, PollWnohang, WaitWnohang, OneChildTests, Tests
<1>2. Kids \cap {child} = {child}
  BY <1>1
<1>3. ASSUME Reap(child), Return(TRUE)
      PROVE  ForkWaitInv'
  <2>1. Kids' = {}
    BY <1>1, <1>3, ReapKids
  <2>2. test' # "exited"
    BY <1>3, <1>1 DEF Return, NextTest, Tests
  <2>3. ProcTypeOK' /\ OnlyMainHasChildren' /\ ZombieCode'
    BY <1>1, <1>3, <2>2, ReapStep
  <2>4. got' \subseteq ChildCodes
    BY <1>1 DEF TypeOK
  <2>. QED BY <1>1, <1>3, <2>1, <2>3, <2>4, ReturnStep
<1>4. CASE WaitBasic
  <2>1. PICK r \in Wait4(Main, {child}, FALSE) :
          Reap(r) /\ Return(r = child /\ WEXITSTATUS(child) = 42)
    BY <1>4 DEF WaitBasic
  <2>2. r = child /\ status[child] = "zombie"
    BY <1>1, <1>2, <2>1, WaitReturns
  <2>3. test = "basic"
    BY <1>4 DEF WaitBasic
  <2>4. WEXITSTATUS(child) = 42
    BY <1>1, <2>2, <2>3, ReadsItsCode
  <2>. QED BY <1>3, <2>1, <2>2, <2>4
<1>5. CASE PollWnohang
  <2>1. PICK r \in Wait4(Main, {child}, TRUE) :
          /\ Reap(r)
          /\ IF r = 0 THEN pc' = "wait" /\ UNCHANGED <<test, child, failures, passed>>
                      ELSE Return(r = child)
    BY <1>5 DEF PollWnohang
  <2>2. r = child \/ r = 0
    BY <1>1, <1>2, <2>1, WaitReturns
  <2>3. CASE r = child
    BY <1>1, <1>3, <2>1, <2>3
  <2>4. CASE r = 0
    <3>1. UNCHANGED <<status, parent, code, test, child, failures, passed>> /\ pc' = "wait"
      BY <2>1, <2>4 DEF Reap, procVars
    <3>2. Kids' = Kids
      BY <3>1 DEF Kids, Children
    <3>3. test = "wnohang"
      BY <1>5 DEF PollWnohang
    <3>4. TypeOK' /\ OnlyMainHasChildren' /\ ZombieCode'
      BY <1>1, <3>1 DEF TypeOK, ProcTypeOK, OnlyMainHasChildren, ZombieCode
    <3>5. OneChildTests' /\ ManyChildrenTest'
      BY <1>1, <3>1, <3>2, <3>3 DEF OneChildTests, ManyChildrenTest
    <3>6. Progress' /\ FailsOnlyIfForkFails' /\ PassedLeavesNoChild'
      BY <1>1, <3>1 DEF Progress, FailsOnlyIfForkFails, PassedLeavesNoChild
    <3>. QED BY <3>4, <3>5, <3>6
  <2>. QED BY <2>2, <2>3, <2>4
<1>6. CASE WaitWnohang
  <2>1. PICK r \in Wait4(Main, {child}, FALSE) : Reap(r) /\ Return(r = child)
    BY <1>6 DEF WaitWnohang
  <2>2. r = child
    BY <1>1, <1>2, <2>1, WaitReturns
  <2>. QED BY <1>3, <2>1, <2>2
<1>. QED BY <1>4, <1>5, <1>6

(* The reaping loop: some child is left to wait for, the one that is       *)
(* returned has a code that is expected, and its flag is set.              *)
LEMMA WaitMany ==
  ASSUME ForkWaitInv, WaitAny
  PROVE  ForkWaitInv'
<1> USE DEF ForkWaitInv
<1>1. /\ test = "multiple" /\ pc = "wait" /\ children_reaped < NUM_CHILDREN
      /\ children_reaped \in Nat /\ forked = NUM_CHILDREN
      /\ UNCHANGED <<task, forked, forkFailed>>
  BY DEF WaitAny, ManyChildrenTest, TypeOK
<1>2. IsFiniteSet(Kids) /\ Cardinality(Kids) = NUM_CHILDREN - children_reaped
  BY <1>1 DEF ManyChildrenTest
<1>3. Kids # {} /\ Kids \cap Pid = Kids
  BY <1>1, <1>2, FS_EmptySet DEF Kids, Children
<1>4. PICK r \in Wait4(Main, Pid, FALSE) :
        /\ Reap(r)
        /\ IF r > 0 /\ WEXITSTATUS(r) \in ChildCodes
           THEN /\ got' = got \cup {WEXITSTATUS(r)}
                /\ children_reaped' = children_reaped + 1
                /\ UNCHANGED <<test, pc, child, failures, passed>>
           ELSE /\ Return(FALSE)
                /\ UNCHANGED <<got, children_reaped>>
  BY DEF WaitAny
<1>5. r \in Kids /\ status[r] = "zombie"
  BY <1>3, <1>4, WaitReturns
<1>6. r \in Pid /\ r > 0 /\ task[r] \in ChildCodes
  BY <1>1, <1>5 DEF ManyChildrenTest, Kids, Children
<1>7. WEXITSTATUS(r) = task[r]
  BY <1>5, <1>6, SmallCodes, ReadsItsCode
<1>8. /\ got' = got \cup {task[r]} /\ children_reaped' = children_reaped + 1
      /\ UNCHANGED <<test, pc, child, failures, passed>>
  BY <1>4, <1>6, <1>7
<1>9. ProcTypeOK' /\ OnlyMainHasChildren' /\ ZombieCode'
  BY <1>1, <1>4, <1>5, <1>8, ReapStep DEF Tests
<1>10. Kids' = Kids \ {r}
  BY <1>4, <1>5, ReapKids
<1>11. TypeOK'
  BY <1>1, <1>6, <1>8, <1>9 DEF TypeOK
<1>12. ManyChildrenTest'
  <2>1. IsFiniteSet(Kids') /\ Cardinality(Kids') = forked' - children_reaped'
    <3>1. IsFiniteSet(Kids') /\ Cardinality(Kids') = Cardinality(Kids) - 1
      BY <1>2, <1>5, <1>10, FS_RemoveElement
    <3>. QED BY <1>1, <1>2, <1>8, <3>1
  <2>2. \A idx \in 0 .. forked' - 1 :
          ChildCode(idx) \in got' \/ \E k \in Kids' : task'[k] = ChildCode(idx)
    BY <1>1, <1>8, <1>10 DEF ManyChildrenTest
  <2>. QED BY <1>1, <1>8, <1>10, <2>1, <2>2 DEF ManyChildrenTest
<1>13. OneChildTests' /\ Progress' /\ FailsOnlyIfForkFails' /\ PassedLeavesNoChild'
  BY <1>1, <1>8 DEF OneChildTests, Progress, FailsOnlyIfForkFails, PassedLeavesNoChild
<1>. QED BY <1>9, <1>11, <1>12, <1>13

(* After the loop no child is left, so every flag is set.                  *)
LEMMA AllReapedStep ==
  ASSUME ForkWaitInv, AllReaped
  PROVE  ForkWaitInv'
<1> USE DEF ForkWaitInv
<1>1. /\ test = "multiple" /\ pc = "wait" /\ children_reaped >= NUM_CHILDREN
      /\ children_reaped = NUM_CHILDREN /\ forked = NUM_CHILDREN
      /\ UNCHANGED <<status, parent, code, task, forked, got, children_reaped, forkFailed>>
  BY DEF AllReaped, ManyChildrenTest, TypeOK, procVars
<1>2. Kids = {}
  <2>1. IsFiniteSet(Kids) /\ Cardinality(Kids) = 0
    BY <1>1 DEF ManyChildrenTest
  <2>. QED BY <2>1, FS_EmptySet
<1>3. ChildCodes \subseteq got
  BY <1>1, <1>2 DEF ManyChildrenTest, ChildCodes
<1>4. Return(TRUE)
  BY <1>3 DEF AllReaped
<1>5. Kids' = {} /\ ProcTypeOK' /\ ZombieCode'
  BY <1>1, <1>2 DEF Kids, Children, ProcTypeOK, ZombieCode, TypeOK
<1>6. test' = "summary"
  BY <1>1, <1>4 DEF Return, NextTest
<1>7. OnlyMainHasChildren'
  BY <1>1, <1>6 DEF OnlyMainHasChildren
<1>8. got' \subseteq ChildCodes
  BY <1>1 DEF TypeOK
<1>. QED BY <1>1, <1>2, <1>4, <1>5, <1>7, <1>8, ReturnStep DEF Tests

(* main() returns, with a number of children that only a failed fork() can *)
(* have left behind.                                                       *)
LEMMA ExitMainStep ==
  ASSUME ForkWaitInv, ExitMain
  PROVE  ForkWaitInv'
<1> USE DEF ForkWaitInv
<1>1. /\ test = "summary" /\ test' = "exited"
      /\ UNCHANGED <<pc, child, task, forked, got, children_reaped, failures, passed, forkFailed>>
      /\ Exit(Main, IF failures > 0 THEN 1 ELSE 0)
  BY DEF ExitMain
<1>2. /\ parent[Main] = NoPid /\ Main # NoPid
      /\ \A p \in Pid : parent[p] \in {Main, NoPid}
  BY DEF OnlyMainHasChildren
<1>3. /\ parent' = [q \in Pid |-> NoPid] /\ code' \in [Pid -> Int]
      /\ \A q \in Pid \ {Main} : code'[q] = code[q]
  BY <1>1, <1>2 DEF Exit, TypeOK, ProcTypeOK
<1>4. /\ status' \in [Pid -> {"free", "live", "zombie"}]
      /\ status'[Main] = "free"
      /\ \A q \in Pid : status'[q] \in {"free", status[q]}
  BY <1>1, <1>2 DEF Exit, TypeOK, ProcTypeOK
<1>5. TypeOK'
  BY <1>1, <1>3, <1>4 DEF TypeOK, ProcTypeOK
<1>6. OnlyMainHasChildren'
  BY <1>1, <1>3 DEF OnlyMainHasChildren
<1>7. ZombieCode'
  <2> SUFFICES ASSUME NEW q \in Pid, status'[q] = "zombie" PROVE code'[q] = task[q]
    BY <1>1 DEF ZombieCode
  <2>1. q # Main /\ status[q] = "zombie"
    BY <1>4
  <2>. QED BY <1>3, <2>1 DEF ZombieCode
<1>8. PassedLeavesNoChild'
  BY <1>1, <1>4 DEF PassedLeavesNoChild
<1>9. OneChildTests' /\ ManyChildrenTest' /\ Progress' /\ FailsOnlyIfForkFails'
  BY <1>1 DEF OneChildTests, ManyChildrenTest, Progress, FailsOnlyIfForkFails
<1>. QED BY <1>5, <1>6, <1>7, <1>8, <1>9

(* A child exits, at any moment.                                           *)
LEMMA ChildExitStep ==
  ASSUME ForkWaitInv, NEW p \in Pid, ChildExit(p)
  PROVE  ForkWaitInv'
<1> USE DEF ForkWaitInv
<1>1. p # Main /\ status[p] = "live" /\ Exit(p, task[p]) /\ task[p] \in Int
      /\ UNCHANGED <<test, pc, child, task, forked, got, children_reaped, failures, passed, forkFailed>>
  BY DEF ChildExit, locals, TypeOK
<1>2. /\ Kids' = Kids /\ UNCHANGED parent
      /\ status' = [status EXCEPT ![p] = IF parent[p] = NoPid THEN "free" ELSE "zombie"]
  BY <1>1, ExitKids
<1>3. code' = [code EXCEPT ![p] = task[p]]
  BY <1>1 DEF Exit
<1>4. TypeOK'
  BY <1>1, <1>2, <1>3 DEF TypeOK, ProcTypeOK
<1>5. OnlyMainHasChildren' /\ ZombieCode'
  BY <1>1, <1>2, <1>3 DEF OnlyMainHasChildren, ZombieCode, TypeOK, ProcTypeOK
<1>6. OneChildTests' /\ ManyChildrenTest'
  BY <1>1, <1>2 DEF OneChildTests, ManyChildrenTest
<1>7. Progress' /\ FailsOnlyIfForkFails' /\ PassedLeavesNoChild'
  BY <1>1 DEF Progress, FailsOnlyIfForkFails, PassedLeavesNoChild
<1>. QED BY <1>4, <1>5, <1>6, <1>7

-----------------------------------------------------------------------------

(* The accounting of children holds on every schedule.                     *)
THEOREM ForkWaitInductive == Spec => []ForkWaitInv
<1>1. ForkWaitInv /\ [Next]_vars => ForkWaitInv'
  <2> SUFFICES ASSUME ForkWaitInv, [Next]_vars PROVE ForkWaitInv'
    OBVIOUS
  <2>1. CASE ForkChild
    <3>1. test \in Tests
      BY <2>1 DEF ForkChild
    <3>. QED BY <2>1, <3>1, ForkOne, ForkMany DEF Tests
  <2>2. CASE ForkError
    BY <2>2, ForkErrorStep
  <2>3. CASE WaitBasic \/ PollWnohang \/ WaitWnohang
    BY <2>3, WaitOne
  <2>4. CASE WaitAny
    BY <2>4, WaitMany
  <2>5. CASE AllReaped
    BY <2>5, AllReapedStep
  <2>6. CASE ExitMain
    BY <2>6, ExitMainStep
  <2>7. ASSUME NEW p \in Pid, ChildExit(p) PROVE ForkWaitInv'
    BY <2>7, ChildExitStep
  <2>8. CASE UNCHANGED vars
    <3>1. UNCHANGED <<status, parent, code>> /\ UNCHANGED locals
      BY <2>8 DEF vars
    <3>2. Kids' = Kids
      BY <3>1 DEF Kids, Children
    <3>. QED BY <3>1, <3>2 DEF locals, ForkWaitInv, TypeOK, ProcTypeOK, OnlyMainHasChildren,
           ZombieCode, OneChildTests, ManyChildrenTest, Progress, FailsOnlyIfForkFails,
           PassedLeavesNoChild
  <2>. QED BY <2>1, <2>2, <2>3, <2>4, <2>5, <2>6, <2>7, <2>8 DEF Next, MainStep
<1>. QED BY <1>1, ForkWaitStart, PTL DEF Spec

(* The types of the process table and of main()'s variables.               *)
THEOREM ForkWaitTyping == Spec => []TypeOK
BY ForkWaitInductive, PTL DEF ForkWaitInv

(* The program blames the kernel only when fork() failed: every wait4      *)
(* returned the right child, with the code it exited with.                 *)
THEOREM NoFalseFailure == Spec => []FailsOnlyIfForkFails
BY ForkWaitInductive, PTL DEF ForkWaitInv

(* While it reaps, main() has exactly the children it has not counted.     *)
THEOREM ChildrenAccounted == Spec => []CountMatchesChildren
<1>1. ForkWaitInv => CountMatchesChildren
  BY DEF ForkWaitInv, ManyChildrenTest, CountMatchesChildren, Kids
<1>. QED BY <1>1, ForkWaitInductive, PTL

(* No test inherits a child of an earlier one.                             *)
THEOREM NoInheritedChild == Spec => []TestsStartChildless
<1>1. ForkWaitInv => TestsStartChildless
  <2> SUFFICES ASSUME ForkWaitInv, test \in Tests, pc = "fork", forked = 0 PROVE Kids = {}
    BY DEF TestsStartChildless, Kids
  <2>1. CASE test = "multiple"
    <3>1. IsFiniteSet(Kids) /\ Cardinality(Kids) = 0
      BY <2>1 DEF ForkWaitInv, ManyChildrenTest
    <3>. QED BY <3>1, FS_EmptySet
  <2>2. CASE test # "multiple"
    BY <2>2 DEF ForkWaitInv, OneChildTests, Tests
  <2>. QED BY <2>1, <2>2
<1>. QED BY <1>1, ForkWaitInductive, PTL

(* A PASSED of test_multiple_children means that no zombie is left.        *)
THEOREM NoZombieAfterPass == Spec => []PassedLeavesNoChild
BY ForkWaitInductive, PTL DEF ForkWaitInv

=============================================================================
