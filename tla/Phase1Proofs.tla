---------------------------- MODULE Phase1Proofs ----------------------------
(***************************************************************************)
(* What test_phase1.c prints depends on fork() only, for every process     *)
(* table and every schedule.                                               *)
(***************************************************************************)
EXTENDS Phase1, SequenceTheorems, TLAPS

USE PidAssumption, Phase1Assumption DEF NoPid

(* The lines of a test, put together.                                      *)
LEMMA LinesJoin ==
  /\ \A s \in Seq({"PASS", "FAIL"}) : <<>> \o s = s /\ s \o <<>> = s
  /\ <<>> \in Seq({"PASS", "FAIL"}) /\ <<"PASS">> \in Seq({"PASS", "FAIL"})
  /\ <<"FAIL">> \in Seq({"PASS", "FAIL"})
  /\ <<"PASS">> \o <<"PASS">> = <<"PASS", "PASS">>
<1>1. \A s \in Seq({"PASS", "FAIL"}) : <<>> \o s = s /\ s \o <<>> = s
  BY ConcatEmptySeq, Zenon
<1>2. /\ <<>> \in Seq({"PASS", "FAIL"}) /\ <<"PASS">> \in Seq({"PASS", "FAIL"})
      /\ <<"FAIL">> \in Seq({"PASS", "FAIL"})
  OBVIOUS
<1>3. <<"PASS">> \o <<"PASS">> = <<"PASS", "PASS">>
  <2> DEFINE p == <<"PASS">>
             pp == <<"PASS", "PASS">>
  <2>1. p \in Seq({"PASS"}) /\ Len(p) = 1 /\ p[1] = "PASS"
    OBVIOUS
  <2>2. pp \in Seq({"PASS"}) /\ Len(pp) = 2 /\ pp[1] = "PASS" /\ pp[2] = "PASS"
    OBVIOUS
  <2> HIDE DEF p, pp
  <2>3. /\ p \o p \in Seq({"PASS"}) /\ Len(p \o p) = 2
        /\ (p \o p)[1] = "PASS" /\ (p \o p)[2] = "PASS"
    <3>1. /\ p \o p \in Seq({"PASS"}) /\ Len(p \o p) = Len(p) + Len(p)
          /\ \A i \in 1 .. Len(p) + Len(p) :
               (p \o p)[i] = IF i <= Len(p) THEN p[i] ELSE p[i - Len(p)]
      BY <2>1, ConcatProperties, Zenon
    <3>. QED BY <2>1, <3>1
  <2>4. p \o p = pp
    <3>1. \A i \in 1 .. Len(p \o p) : (p \o p)[i] = pp[i]
      BY <2>2, <2>3
    <3>. QED BY <2>2, <2>3, <3>1, SeqEqual, Zenon
  <2>. QED BY <2>4 DEF p, pp
<1>. QED BY <1>1, <1>2, <1>3

(* The codes are small enough for the eight bits of the status word.       *)
LEMMA ReadsItsCode ==
  ASSUME Phase1Types, ZombieCode, NEW r \in Pid, status[r] = "zombie", task[r] \in 0 .. 255
  PROVE  WEXITSTATUS(r) = task[r]
<1>1. \A n \in 0 .. 255 : n % 256 = n
  OBVIOUS
<1>. QED BY <1>1 DEF Phase1Types, ProcTypeOK, ZombieCode, WEXITSTATUS

(* A fork adds one child to main, and never takes main's own number.       *)
LEMMA ForkKids ==
  ASSUME Phase1Types, OnlyMainHasChildren, test # "exited", NEW c \in Pid, Fork(Main, c)
  PROVE  c # Main /\ c \notin Kids /\ Kids' = Kids \cup {c}
BY DEF Phase1Types, ProcTypeOK, OnlyMainHasChildren, Fork, Kids, Children

(* A wait4 that returns a child takes exactly this one away.               *)
LEMMA ReapKids ==
  ASSUME Phase1Types, OnlyMainHasChildren, NEW r \in Kids, Reap(r)
  PROVE  /\ r \in Pid /\ r # Main /\ Kids' = Kids \ {r}
         /\ status' = [status EXCEPT ![r] = "free"]
         /\ parent' = [parent EXCEPT ![r] = NoPid]
         /\ UNCHANGED code
<1>1. r \in Pid /\ parent[r] = Main /\ r # Main
  BY DEF OnlyMainHasChildren, Kids, Children
<1>2. /\ status' = [status EXCEPT ![r] = "free"]
      /\ parent' = [parent EXCEPT ![r] = NoPid]
      /\ UNCHANGED code
  BY <1>1 DEF Reap
<1>3. Kids' = Kids \ {r}
  BY <1>1, <1>2 DEF Kids, Children, Phase1Types, ProcTypeOK
<1>. QED BY <1>1, <1>2, <1>3

(* A child that exits stays a child, as a zombie, while main() runs.       *)
LEMMA ExitKids ==
  ASSUME Phase1Types, OnlyMainHasChildren, NEW p \in Pid, p # Main, status[p] = "live",
         NEW x \in Int, Exit(p, x)
  PROVE  /\ Kids' = Kids
         /\ UNCHANGED parent
         /\ status' = [status EXCEPT ![p] = IF parent[p] = NoPid THEN "free" ELSE "zombie"]
<1>1. \A q \in Pid : parent[q] # p
  BY DEF OnlyMainHasChildren
<1>2. UNCHANGED parent
  BY <1>1 DEF Exit, Phase1Types, ProcTypeOK
<1>3. status' = [status EXCEPT ![p] = IF parent[p] = NoPid THEN "free" ELSE "zombie"]
  BY <1>1 DEF Exit, Phase1Types, ProcTypeOK
<1>4. Kids' = Kids
  BY <1>2, <1>3 DEF Kids, Children, Phase1Types, ProcTypeOK, OnlyMainHasChildren
<1>. QED BY <1>2, <1>3, <1>4

(* What wait4 returns when there is a child to wait for: one that is dead. *)
LEMMA WaitReturns ==
  ASSUME NEW who, NEW nohang, Kids \cap who # {}, NEW r \in Wait4(Main, who, nohang)
  PROVE  \/ r \in Kids \cap who /\ status[r] = "zombie"
         \/ r = 0 /\ nohang
BY DEF Wait4, Kids

(* What one step prints is put behind what its test has printed.           *)
LEMMA SayStep ==
  ASSUME Phase1Types, test \in Tests, NEW lines \in Seq({"PASS", "FAIL"}), Say(lines)
  PROVE  /\ verdict' \in [Tests -> Seq({"PASS", "FAIL"})]
         /\ verdict'[test] = verdict[test] \o lines
         /\ \A t \in Tests \ {test} : verdict'[t] = verdict[t]
<1>1. verdict[test] \o lines \in Seq({"PASS", "FAIL"})
  BY ConcatProperties DEF Phase1Types
<1>. QED BY <1>1 DEF Say, Phase1Types

-----------------------------------------------------------------------------

(* The initial state satisfies the invariant.                              *)
LEMMA Phase1Start == Phase1Init => Phase1Inv
<1> SUFFICES ASSUME Phase1Init PROVE Phase1Inv
  OBVIOUS
<1> USE DEF Phase1Init, ProcInit
<1>1. Phase1Types
  <2>1. ProcTypeOK /\ task \in [Pid -> Nat]
    BY DEF ProcTypeOK
  <2>2. pid \in [{1, 2} -> Pid \cup {NoPid, -1}]
    OBVIOUS
  <2>3. verdict \in [Tests -> Seq({"PASS", "FAIL"})]
    BY LinesJoin
  <2>4. test \in Tests /\ child_count \in Nat /\ zombie_count \in Nat /\ forkFailed \subseteq Tests
    BY DEF Tests
  <2>. QED BY <2>1, <2>2, <2>3, <2>4 DEF Phase1Types
<1>2. OnlyMainHasChildren /\ ZombieCode
  BY DEF OnlyMainHasChildren, ZombieCode
<1>3. Kids = {}
  BY DEF Kids, Children
<1>4. OneForkTests /\ TwoForksTest /\ ChildIsLeft
  BY <1>3 DEF OneForkTests, TwoForksTest, ChildIsLeft
<1>5. Printed
  BY DEF Printed, After, Here, Tests
<1>. QED BY <1>1, <1>2, <1>4, <1>5 DEF Phase1Inv

(* A test that has printed what it should returns; it leaves a child only  *)
(* when a fork() of test_multiple_forks failed.                            *)
LEMMA EndStep ==
  ASSUME Phase1Inv, NEW here \in Tests, here = test, EndTest, Phase1Types',
         OnlyMainHasChildren', ZombieCode',
         \A t \in Tests \ {here} : verdict'[t] = verdict[t] /\ (t \in forkFailed' <=> t \in forkFailed),
         verdict'[here] = Expected(here)',
         here # "multiple_forks" => Kids' = {} /\ child_count' = 0 /\ zombie_count' = 0,
         Kids' # {} => "multiple_forks" \in forkFailed'
  PROVE  Phase1Inv'
<1> USE DEF Phase1Inv
<1>1. /\ test' = NextTest[test] /\ pc' = "fork"
      /\ test' \in {"wait4_wnohang", "multiple_forks", "completed"}
  BY DEF EndTest, NextTest, Tests
<1>2. OneForkTests' /\ TwoForksTest'
  BY <1>1 DEF OneForkTests, TwoForksTest, NextTest, Tests
<1>3. ChildIsLeft'
  BY <1>1 DEF ChildIsLeft
<1>4. Printed'
  <2> SUFFICES ASSUME NEW t \in Tests
               PROVE  /\ test' \in After[t] => verdict'[t] = Expected(t)'
                      /\ test' \notin After[t] /\ t # test' => verdict'[t] = <<>> /\ t \notin forkFailed'
                      /\ t = test' => /\ verdict'[t] = <<>>
                                      /\ t \notin forkFailed'
    BY <1>1 DEF Printed, Here
  <2>1. CASE t = test
    <3>1. test' \in After[here] /\ test' # here
      BY <1>1 DEF After, NextTest, Tests
    <3>. QED BY <2>1, <3>1
  <2>2. CASE t # test
    <3>1. verdict'[t] = verdict[t] /\ (t \in forkFailed' <=> t \in forkFailed)
      BY <2>2
    <3>2. Expected(t)' = Expected(t)
      BY <3>1 DEF Expected
    <3>3. CASE test \in After[t]
      <4>1. verdict[t] = Expected(t) /\ test' \in After[t] /\ t # test'
        BY <3>3, <1>1 DEF Printed, After, NextTest, Tests
      <4>. QED BY <4>1, <3>1, <3>2
    <3>4. CASE test \notin After[t]
      <4>1. verdict[t] = <<>> /\ t \notin forkFailed /\ test' \notin After[t]
        BY <3>4, <2>2, <1>1 DEF Printed, After, NextTest, Tests
      <4>. QED BY <4>1, <3>1
    <3>. QED BY <3>3, <3>4
  <2>. QED BY <2>1, <2>2
<1>. QED BY <1>2, <1>3, <1>4

(* A fork leaves the table of processes in order.                          *)
LEMMA ForkTable ==
  ASSUME Phase1Inv, test \in Tests, NEW c \in Pid, Fork(Main, c), NEW x \in Nat,
         task' = [task EXCEPT ![c] = x]
  PROVE  /\ ProcTypeOK' /\ task' \in [Pid -> Nat]
         /\ OnlyMainHasChildren' /\ ZombieCode'
         /\ c \notin Kids /\ Kids' = Kids \cup {c}
         /\ task'[c] = x /\ \A k \in Kids : task'[k] = task[k]
<1> USE DEF Phase1Inv
<1>1. test # "exited"
  BY DEF Tests
<1>2. c # Main /\ c \notin Kids /\ Kids' = Kids \cup {c}
  BY <1>1, ForkKids
<1>3. ProcTypeOK' /\ task' \in [Pid -> Nat]
  BY DEF Phase1Types, ProcTypeOK, Fork
<1>4. OnlyMainHasChildren'
  BY <1>1, <1>2 DEF OnlyMainHasChildren, Fork, Phase1Types, ProcTypeOK
<1>5. ZombieCode'
  BY DEF ZombieCode, Fork, Phase1Types, ProcTypeOK
<1>6. task'[c] = x /\ \A k \in Kids : task'[k] = task[k]
  BY <1>2 DEF Phase1Types, Kids, Children
<1>. QED BY <1>2, <1>3, <1>4, <1>5, <1>6

(* So does the wait for a child.                                           *)
LEMMA ReapTable ==
  ASSUME Phase1Inv, test \in Tests, NEW r \in Kids, Reap(r), UNCHANGED task
  PROVE  ProcTypeOK' /\ OnlyMainHasChildren' /\ ZombieCode' /\ Kids' = Kids \ {r}
<1> USE DEF Phase1Inv
<1>1. /\ r \in Pid /\ r # Main /\ Kids' = Kids \ {r}
      /\ status' = [status EXCEPT ![r] = "free"]
      /\ parent' = [parent EXCEPT ![r] = NoPid]
      /\ UNCHANGED code
  BY ReapKids
<1>2. ProcTypeOK'
  BY <1>1 DEF Phase1Types, ProcTypeOK
<1>3. test # "exited"
  BY DEF Tests
<1>4. OnlyMainHasChildren'
  BY <1>1, <1>3 DEF OnlyMainHasChildren, Phase1Types, ProcTypeOK
<1>5. ZombieCode'
  BY <1>1 DEF ZombieCode, Phase1Types, ProcTypeOK
<1>. QED BY <1>1, <1>2, <1>4, <1>5

(* A call that changes no process leaves the table as it is.               *)
LEMMA SameTable ==
  ASSUME Phase1Inv, test \in Tests, UNCHANGED <<status, parent, code, task>>
  PROVE  /\ ProcTypeOK' /\ task' \in [Pid -> Nat]
         /\ OnlyMainHasChildren' /\ ZombieCode' /\ Kids' = Kids
BY DEF Phase1Inv, Phase1Types, ProcTypeOK, OnlyMainHasChildren, ZombieCode, Kids, Children, Tests

-----------------------------------------------------------------------------

(* The waits for the one child of the first two tests: it is reaped with   *)
(* its code, or the poll finds it alive and the test goes on.              *)
LEMMA OneChildStep ==
  ASSUME Phase1Inv, WaitChild \/ PollChild \/ WaitPolled
  PROVE  Phase1Inv'
<1> USE DEF Phase1Inv
<1>1. /\ test \in {"fork_wait4", "wait4_wnohang"} /\ test \in Tests /\ pc \in {"poll", "wait"}
      /\ UNCHANGED <<pid, task, child_count, zombie_count, forkFailed>>
  BY DEF WaitChild, PollChild, WaitPolled, Here, Tests, counts
<1>2. /\ pid[1] \in Pid /\ Kids = {pid[1]} /\ child_count = 0 /\ zombie_count = 0
      /\ (test = "fork_wait4" => task[pid[1]] = 42)
  BY <1>1 DEF OneForkTests, Only
<1>3. /\ test \notin forkFailed
      /\ verdict[test] = IF Here("wait4_wnohang", "wait") THEN <<"PASS">> ELSE <<>>
  BY <1>1 DEF Printed, Here
<1>4. Kids \cap {pid[1]} = {pid[1]}
  BY <1>2
<1>5. ASSUME Reap(pid[1]), EndTest, NEW lines \in Seq({"PASS", "FAIL"}), Say(lines),
             verdict[test] \o lines = <<"PASS">>
      PROVE  Phase1Inv'
  <2>1. ProcTypeOK' /\ OnlyMainHasChildren' /\ ZombieCode' /\ Kids' = {}
    BY <1>1, <1>2, <1>5, ReapTable
  <2>2. /\ verdict' \in [Tests -> Seq({"PASS", "FAIL"})] /\ verdict'[test] = <<"PASS">>
        /\ \A t \in Tests \ {test} : verdict'[t] = verdict[t]
    BY <1>1, <1>5, SayStep
  <2>3. Phase1Types'
    BY <1>1, <1>5, <2>1, <2>2 DEF Phase1Types, EndTest, NextTest, Tests
  <2>4. PICK here \in Tests : here = test
    BY <1>1
  <2>5. Expected(here)' = <<"PASS">>
    BY <1>1, <1>3, <2>4 DEF Expected
  <2>. QED BY <1>1, <1>2, <1>5, <2>1, <2>2, <2>3, <2>4, <2>5, EndStep
<1>6. CASE WaitChild
  <2>1. PICK r \in Wait4(Main, {pid[1]}, FALSE) :
          Reap(r) /\ Say(IF r = pid[1] /\ WEXITSTATUS(r) = 42 THEN <<"PASS">> ELSE <<"FAIL">>)
    BY <1>6 DEF WaitChild
  <2>2. r = pid[1] /\ status[r] = "zombie"
    BY <1>4, <2>1, WaitReturns
  <2>3. test = "fork_wait4" /\ EndTest
    BY <1>6 DEF WaitChild, Here
  <2>4. WEXITSTATUS(r) = 42
    <3>1. task[r] = 42 /\ 42 \in 0 .. 255 /\ r \in Pid
      BY <1>2, <2>2, <2>3
    <3>. QED BY <2>2, <3>1, ReadsItsCode
  <2>5. Reap(pid[1]) /\ Say(<<"PASS">>)
    BY <2>1, <2>2, <2>4
  <2>6. verdict[test] \o <<"PASS">> = <<"PASS">>
    BY <1>3, <2>3, LinesJoin DEF Here
  <2>. QED BY <1>5, <2>3, <2>5, <2>6, LinesJoin
<1>7. CASE WaitPolled
  <2>1. PICK r \in Wait4(Main, {pid[1]}, FALSE) :
          Reap(r) /\ Say(IF r = pid[1] THEN <<>> ELSE <<"FAIL">>)
    BY <1>7 DEF WaitPolled
  <2>2. r = pid[1]
    BY <1>4, <2>1, WaitReturns
  <2>3. Here("wait4_wnohang", "wait") /\ EndTest
    BY <1>7 DEF WaitPolled
  <2>4. Reap(pid[1]) /\ Say(<<>>)
    BY <2>1, <2>2
  <2>5. verdict[test] \o <<>> = <<"PASS">>
    BY <1>3, <2>3, LinesJoin
  <2>. QED BY <1>5, <2>3, <2>4, <2>5, LinesJoin
<1>8. CASE PollChild
  <2>1. PICK r \in Wait4(Main, {pid[1]}, TRUE) :
          /\ Reap(r)
          /\ Say(IF r \in {0, pid[1]} THEN <<"PASS">> ELSE <<"FAIL">>)
          /\ IF r = 0 THEN pc' = "wait" /\ UNCHANGED test ELSE EndTest
    BY <1>8 DEF PollChild
  <2>2. r = pid[1] \/ r = 0
    BY <1>4, <2>1, WaitReturns
  <2>3. test = "wait4_wnohang" /\ pc = "poll"
    BY <1>8 DEF PollChild, Here
  <2>4. Say(<<"PASS">>) /\ verdict[test] \o <<"PASS">> = <<"PASS">>
    BY <1>3, <2>1, <2>2, <2>3, LinesJoin DEF Here
  <2>5. CASE r = pid[1]
    BY <1>2, <1>5, <2>1, <2>4, <2>5, LinesJoin
  <2>6. CASE r = 0
    <3>1. UNCHANGED <<status, parent, code, test>> /\ pc' = "wait"
      BY <2>1, <2>6 DEF Reap, procVars
    <3>2. ProcTypeOK' /\ OnlyMainHasChildren' /\ ZombieCode' /\ Kids' = Kids
      BY <1>1, <3>1, SameTable
    <3>3. /\ verdict' \in [Tests -> Seq({"PASS", "FAIL"})] /\ verdict'[test] = <<"PASS">>
          /\ \A t \in Tests \ {test} : verdict'[t] = verdict[t]
      BY <1>1, <2>4, LinesJoin, SayStep
    <3>4. Phase1Types'
      BY <1>1, <3>1, <3>2, <3>3 DEF Phase1Types
    <3>5. OneForkTests' /\ TwoForksTest' /\ ChildIsLeft'
      BY <1>1, <1>2, <2>3, <3>1, <3>2 DEF OneForkTests, TwoForksTest, Only, ChildIsLeft, Returned
    <3>6. Printed'
      BY <1>1, <2>3, <3>1, <3>3 DEF Printed, Expected, Here, After, Tests
    <3>. QED BY <3>2, <3>4, <3>5, <3>6
  <2>. QED BY <2>2, <2>5, <2>6
<1>. QED BY <1>6, <1>7, <1>8

(* The fork() of the first two tests.                                      *)
LEMMA ForkOneStep ==
  ASSUME Phase1Inv, NEW n \in {1, 2}, ForkNth(n), test # "multiple_forks"
  PROVE  Phase1Inv'
<1> USE DEF Phase1Inv
<1>1. /\ test \in Tests /\ test \in {"fork_wait4", "wait4_wnohang"} /\ n = 1 /\ pc = "fork"
      /\ pc' = (IF test = "fork_wait4" THEN "wait" ELSE "poll")
      /\ UNCHANGED <<test, child_count, zombie_count, verdict, forkFailed>>
  BY DEF ForkNth, ForkIn, Here, Tests, counts
<1>2. PICK c \in Pid : /\ Fork(Main, c) /\ pid' = [pid EXCEPT ![1] = c]
                       /\ task' = [task EXCEPT ![c] = TaskOf(1)]
  BY <1>1 DEF ForkNth
<1>3. TaskOf(1) \in Nat /\ (test = "fork_wait4" => TaskOf(1) = 42)
  BY <1>1 DEF TaskOf
<1>4. /\ ProcTypeOK' /\ task' \in [Pid -> Nat] /\ OnlyMainHasChildren' /\ ZombieCode'
      /\ Kids' = Kids \cup {c} /\ task'[c] = TaskOf(1)
  BY <1>1, <1>2, <1>3, ForkTable
<1>5. Kids' = {c} /\ pid' \in [{1, 2} -> Pid \cup {NoPid, -1}] /\ pid'[1] = c
  BY <1>1, <1>2, <1>4 DEF OneForkTests, Phase1Types
<1>6. Phase1Types'
  BY <1>1, <1>4, <1>5 DEF Phase1Types
<1>7. OneForkTests' /\ TwoForksTest' /\ ChildIsLeft'
  BY <1>1, <1>2, <1>3, <1>4, <1>5 DEF OneForkTests, TwoForksTest, Only, ChildIsLeft, Returned
<1>8. Printed'
  BY <1>1 DEF Printed, Expected, Here, After, Tests
<1>. QED BY <1>4, <1>6, <1>7, <1>8

(* A fork() of the first two tests that fails.                             *)
LEMMA ForkOneFails ==
  ASSUME Phase1Inv, NEW n \in {1, 2}, ForkNthFails(n), test # "multiple_forks"
  PROVE  Phase1Inv'
<1> USE DEF Phase1Inv
<1>1. /\ test \in Tests /\ test \in {"fork_wait4", "wait4_wnohang"} /\ n = 1 /\ pc = "fork"
      /\ EndTest /\ Say(<<"FAIL">>) /\ forkFailed' = forkFailed \cup {test}
      /\ pid' = [pid EXCEPT ![1] = -1]
      /\ UNCHANGED <<status, parent, code, task, child_count, zombie_count>>
  BY DEF ForkNthFails, ForkIn, Here, Tests, counts, procVars
<1>2. ProcTypeOK' /\ task' \in [Pid -> Nat] /\ OnlyMainHasChildren' /\ ZombieCode' /\ Kids' = Kids
  BY <1>1, SameTable
<1>3. verdict[test] = <<>> /\ Kids = {} /\ child_count = 0 /\ zombie_count = 0
  BY <1>1 DEF Printed, Here, OneForkTests
<1>4. /\ verdict' \in [Tests -> Seq({"PASS", "FAIL"})] /\ verdict'[test] = <<"FAIL">>
      /\ \A t \in Tests \ {test} : verdict'[t] = verdict[t]
  BY <1>1, <1>3, LinesJoin, SayStep
<1>5. Phase1Types'
  BY <1>1, <1>2, <1>4 DEF Phase1Types, EndTest, NextTest, Tests
<1>6. PICK here \in Tests : here = test
  BY <1>1
<1>7. Expected(here)' = <<"FAIL">>
  BY <1>1, <1>6 DEF Expected
<1>. QED BY <1>1, <1>2, <1>3, <1>4, <1>5, <1>6, <1>7, EndStep

(* The first fork() of test_multiple_forks, which goes on in any case.     *)
LEMMA FirstForkStep ==
  ASSUME Phase1Inv, test = "multiple_forks", ForkNth(1) \/ ForkNthFails(1)
  PROVE  Phase1Inv'
<1> USE DEF Phase1Inv
<1>1. /\ test \in Tests /\ pc = "fork" /\ pc' = "fork2" /\ Kids = {}
      /\ child_count = 0 /\ zombie_count = 0
      /\ UNCHANGED <<test, child_count, zombie_count, verdict>>
  BY DEF ForkNth, ForkNthFails, ForkIn, AfterNthFork, Tests, counts, TwoForksTest
<1>2. "multiple_forks" \notin forkFailed
  BY <1>1 DEF Printed
<1>3. ASSUME ProcTypeOK', task' \in [Pid -> Nat], OnlyMainHasChildren', ZombieCode',
             pid' \in [{1, 2} -> Pid \cup {NoPid, -1}],
             \/ Kids' = {pid'[1]} /\ pid'[1] \in Pid /\ task'[pid'[1]] = 1 /\ forkFailed' = forkFailed
             \/ Kids' = {} /\ pid'[1] = -1 /\ forkFailed' = forkFailed \cup {"multiple_forks"}
      PROVE  Phase1Inv'
  <2>1. Phase1Types'
    BY <1>1, <1>3 DEF Phase1Types
  <2>2. OneForkTests' /\ TwoForksTest' /\ ChildIsLeft'
    BY <1>1, <1>3 DEF OneForkTests, TwoForksTest, Only, ChildIsLeft, Returned
  <2>3. Printed'
    BY <1>1, <1>2, <1>3 DEF Printed, Expected, Here, After, Tests
  <2>. QED BY <1>3, <2>1, <2>2, <2>3
<1>4. CASE ForkNth(1)
  <2>1. PICK c \in Pid : /\ Fork(Main, c) /\ pid' = [pid EXCEPT ![1] = c]
                         /\ task' = [task EXCEPT ![c] = TaskOf(1)]
    BY <1>4 DEF ForkNth
  <2>2. TaskOf(1) = 1 /\ forkFailed' = forkFailed
    BY <1>4 DEF TaskOf, ForkNth
  <2>3. /\ ProcTypeOK' /\ task' \in [Pid -> Nat] /\ OnlyMainHasChildren' /\ ZombieCode'
        /\ Kids' = {c} /\ task'[c] = 1
    BY <1>1, <2>1, <2>2, ForkTable
  <2>4. pid' \in [{1, 2} -> Pid \cup {NoPid, -1}] /\ pid'[1] = c
    BY <2>1 DEF Phase1Types
  <2>. QED BY <1>3, <2>2, <2>3, <2>4
<1>5. CASE ForkNthFails(1)
  <2>1. /\ pid' = [pid EXCEPT ![1] = -1] /\ forkFailed' = forkFailed \cup {"multiple_forks"}
        /\ UNCHANGED <<status, parent, code, task>>
    BY <1>5 DEF ForkNthFails, procVars
  <2>2. /\ ProcTypeOK' /\ task' \in [Pid -> Nat] /\ OnlyMainHasChildren' /\ ZombieCode'
        /\ Kids' = {}
    BY <1>1, <2>1, SameTable
  <2>3. pid' \in [{1, 2} -> Pid \cup {NoPid, -1}] /\ pid'[1] = -1
    BY <2>1 DEF Phase1Types
  <2>. QED BY <1>3, <2>1, <2>2, <2>3
<1>. QED BY <1>4, <1>5

(* The second: both children are waited for, or the test is over and the   *)
(* child of the fork() that succeeded is left.                             *)
LEMMA SecondForkStep ==
  ASSUME Phase1Inv, ForkNth(2) \/ ForkNthFails(2)
  PROVE  Phase1Inv'
<1> USE DEF Phase1Inv
<1>1. /\ test = "multiple_forks" /\ test \in Tests /\ pc = "fork2"
      /\ child_count = 0 /\ zombie_count = 0 /\ AfterNthFork(2)
      /\ UNCHANGED <<child_count, zombie_count, verdict>>
  <2>1. test = "multiple_forks" /\ test \in Tests /\ pc = "fork2"
    <3>1. test \in Tests /\ ForkIn(2)
      BY Zenon DEF ForkNth, ForkNthFails
    <3>. QED BY <3>1 DEF ForkIn, Here
  <2>2. child_count = 0 /\ zombie_count = 0
    BY <2>1 DEF TwoForksTest
  <2>3. AfterNthFork(2) /\ UNCHANGED <<child_count, zombie_count, verdict>>
    BY <2>1 DEF ForkNth, ForkNthFails, counts
  <2>. QED BY <2>1, <2>2, <2>3
<1>2. /\ verdict["multiple_forks"] = <<>>
      /\ "multiple_forks" \in forkFailed <=> pid[1] = -1
      /\ \/ pid[1] \in Pid /\ Kids = {pid[1]} /\ task[pid[1]] = 1
         \/ pid[1] = -1 /\ Kids = {}
  BY <1>1 DEF Printed, Here, TwoForksTest, Only
<1>3. ASSUME ProcTypeOK', task' \in [Pid -> Nat], OnlyMainHasChildren', ZombieCode',
             pid' \in [{1, 2} -> Pid \cup {NoPid, -1}], EndTest,
             forkFailed' = forkFailed \cup {"multiple_forks"}
      PROVE  Phase1Inv'
  <2>1. Phase1Types'
    BY <1>1, <1>3 DEF Phase1Types, EndTest, NextTest, Tests
  <2>2. Expected("multiple_forks")' = <<>>
    BY <1>3 DEF Expected
  <2>. QED BY <1>1, <1>2, <1>3, <2>1, <2>2, EndStep
<1>4. CASE ForkNth(2)
  <2>1. PICK c \in Pid : /\ Fork(Main, c) /\ pid' = [pid EXCEPT ![2] = c]
                         /\ task' = [task EXCEPT ![c] = TaskOf(2)]
    BY <1>4 DEF ForkNth
  <2>2. TaskOf(2) = 2 /\ forkFailed' = forkFailed
    BY <1>1, <1>4 DEF TaskOf, ForkNth
  <2>3. /\ ProcTypeOK' /\ task' \in [Pid -> Nat] /\ OnlyMainHasChildren' /\ ZombieCode'
        /\ c \notin Kids /\ Kids' = Kids \cup {c} /\ task'[c] = 2
        /\ \A k \in Kids : task'[k] = task[k]
    BY <1>1, <2>1, <2>2, ForkTable
  <2>4. pid' \in [{1, 2} -> Pid \cup {NoPid, -1}] /\ pid'[1] = pid[1] /\ pid'[2] = c
    BY <2>1 DEF Phase1Types
  <2>5. CASE pid[1] \in Pid
    <3>1. pc' = "wait1" /\ test' = "multiple_forks"
      <4>1. pid'[1] > 0 /\ pid'[2] > 0
        <5>1. \A p \in Pid : p > 0
          BY PidAssumption
        <5>2. pid'[1] \in Pid /\ pid'[2] \in Pid
          BY <2>4, <2>5
        <5>. QED BY <5>1, <5>2, Zenon
      <4>. QED BY <1>1, <4>1 DEF AfterNthFork
    <3>2. /\ "multiple_forks" \notin forkFailed /\ Kids = {pid[1]} /\ task[pid[1]] = 1
      BY <1>2, <2>5
    <3>3. Phase1Types'
      BY <1>1, <2>2, <2>3, <2>4, <3>1 DEF Phase1Types
    <3>4. TwoForksTest'
      <4>1. /\ pid'[1] \in Pid /\ pid'[2] \in Pid /\ pid'[1] # pid'[2]
            /\ Kids' = {pid'[1], pid'[2]} /\ task'[pid'[1]] = 1 /\ task'[pid'[2]] = 2
        BY <2>1, <2>3, <2>4, <2>5, <3>2
      <4>. QED BY <1>1, <3>1, <4>1 DEF TwoForksTest
    <3>5. OneForkTests' /\ ChildIsLeft'
      BY <3>1 DEF OneForkTests, ChildIsLeft, Returned
    <3>6. Printed'
      BY <1>1, <1>2, <2>2, <3>1, <3>2 DEF Printed, Expected, Here, After, Tests
    <3>. QED BY <2>3, <3>3, <3>4, <3>5, <3>6
  <2>6. CASE pid[1] = -1
    <3>1. EndTest
      BY <1>1, <2>4, <2>6 DEF AfterNthFork
    <3>2. forkFailed' = forkFailed \cup {"multiple_forks"}
      BY <1>2, <2>2, <2>6
    <3>. QED BY <1>3, <2>3, <2>4, <3>1, <3>2
  <2>. QED BY <1>2, <2>5, <2>6
<1>5. CASE ForkNthFails(2)
  <2>1. /\ pid' = [pid EXCEPT ![2] = -1] /\ forkFailed' = forkFailed \cup {"multiple_forks"}
        /\ UNCHANGED <<status, parent, code, task>>
    BY <1>1, <1>5 DEF ForkNthFails, procVars
  <2>2. ProcTypeOK' /\ task' \in [Pid -> Nat] /\ OnlyMainHasChildren' /\ ZombieCode'
    BY <1>1, <2>1, SameTable
  <2>3. pid' \in [{1, 2} -> Pid \cup {NoPid, -1}] /\ pid'[2] = -1
    BY <2>1 DEF Phase1Types
  <2>4. EndTest
    BY <1>1, <2>3 DEF AfterNthFork
  <2>. QED BY <1>3, <2>1, <2>2, <2>3, <2>4
<1>. QED BY <1>4, <1>5

(* The waits of test_multiple_forks: each counts its child.                *)
LEMMA WaitNthStep ==
  ASSUME Phase1Inv, NEW n \in {1, 2}, WaitNth(n)
  PROVE  Phase1Inv'
<1> USE DEF Phase1Inv
<1>1. /\ test = "multiple_forks" /\ test \in Tests /\ pc = (IF n = 1 THEN "wait1" ELSE "wait2")
      /\ pc' = (IF n = 1 THEN "wait2" ELSE "cleanup")
      /\ UNCHANGED <<test, pid, task, zombie_count, forkFailed>>
  BY DEF WaitNth, Here, Tests
<1>2. PICK r \in Wait4(Main, {pid[n]}, FALSE) :
        /\ Reap(r)
        /\ child_count' = child_count + IF r = pid[n] /\ WEXITSTATUS(r) = n THEN 1 ELSE 0
        /\ Say((IF r = pid[n] THEN <<>> ELSE <<"FAIL">>) \o
               (IF n = 1 THEN <<>> ELSE IF child_count' = 2 THEN <<"PASS">> ELSE <<"FAIL">>))
  BY DEF WaitNth
<1>3. /\ pid[n] \in Pid /\ pid[n] \in Kids /\ task[pid[n]] = n /\ zombie_count = 0
      /\ n = 1 => Kids = {pid[1], pid[2]} /\ pid[1] # pid[2] /\ task[pid[2]] = 2 /\ pid[2] \in Pid
      /\ n = 2 => Kids = {pid[2]}
      /\ child_count = n - 1
  BY <1>1 DEF TwoForksTest, Only
<1>4. r = pid[n] /\ status[r] = "zombie"
  BY <1>2, <1>3, WaitReturns
<1>5. WEXITSTATUS(r) = n
  <2>1. r \in Pid /\ task[r] = n /\ n \in 0 .. 255
    BY <1>3, <1>4
  <2>. QED BY <1>4, <2>1, ReadsItsCode
<1>6. child_count' = n
  BY <1>2, <1>3, <1>4, <1>5
<1>7. /\ verdict["multiple_forks"] = <<>> /\ "multiple_forks" \notin forkFailed
  BY <1>1 DEF Printed, Here
<1>8. /\ verdict' \in [Tests -> Seq({"PASS", "FAIL"})]
      /\ verdict'[test] = (IF n = 1 THEN <<>> ELSE <<"PASS">>)
      /\ \A t \in Tests \ {test} : verdict'[t] = verdict[t]
  <2>1. Say(IF n = 1 THEN <<>> ELSE <<"PASS">>)
    BY <1>2, <1>4, <1>6, LinesJoin
  <2>. QED BY <1>1, <1>7, <2>1, LinesJoin, SayStep
<1>9. ProcTypeOK' /\ OnlyMainHasChildren' /\ ZombieCode' /\ Kids' = Kids \ {pid[n]}
  BY <1>1, <1>2, <1>3, <1>4, ReapTable
<1>10. Phase1Types'
  BY <1>1, <1>6, <1>8, <1>9 DEF Phase1Types
<1>11. TwoForksTest'
  BY <1>1, <1>3, <1>6, <1>9 DEF TwoForksTest, Only
<1>12. OneForkTests' /\ ChildIsLeft'
  BY <1>1 DEF OneForkTests, ChildIsLeft, Returned
<1>13. Printed'
  BY <1>1, <1>7, <1>8 DEF Printed, Expected, Here, After, Tests
<1>. QED BY <1>9, <1>10, <1>11, <1>12, <1>13

(* The cleanup loop finds nothing: both children have been reaped.         *)
LEMMA CleanupStep ==
  ASSUME Phase1Inv, Cleanup
  PROVE  Phase1Inv'
<1> USE DEF Phase1Inv
<1>1. /\ test = "multiple_forks" /\ test \in Tests /\ pc = "cleanup"
      /\ UNCHANGED <<pid, task, child_count, forkFailed>>
  BY DEF Cleanup, Here, Tests
<1>2. Kids = {} /\ zombie_count = 0 /\ child_count = 2
  BY <1>1 DEF TwoForksTest
<1>3. verdict["multiple_forks"] = <<"PASS">> /\ "multiple_forks" \notin forkFailed
  BY <1>1 DEF Printed, Here
<1>4. PICK r \in Wait4(Main, Pid, TRUE) :
        /\ Reap(r)
        /\ IF r > 0
           THEN zombie_count' = zombie_count + 1 /\ UNCHANGED <<test, pc, verdict>>
           ELSE /\ Say(IF zombie_count = 0 /\ child_count = 2 THEN <<"PASS">> ELSE <<>>)
                /\ EndTest /\ UNCHANGED zombie_count
  BY DEF Cleanup
<1>5. r = -1 /\ -1 \notin Pid
  BY <1>2, <1>4 DEF Wait4, Kids
<1>6. /\ UNCHANGED <<status, parent, code, zombie_count>> /\ Say(<<"PASS">>) /\ EndTest
  BY <1>2, <1>4, <1>5 DEF Reap, procVars
<1>7. ProcTypeOK' /\ OnlyMainHasChildren' /\ ZombieCode' /\ Kids' = {}
  BY <1>1, <1>2, <1>6, SameTable
<1>8. /\ verdict' \in [Tests -> Seq({"PASS", "FAIL"})] /\ verdict'[test] = <<"PASS", "PASS">>
      /\ \A t \in Tests \ {test} : verdict'[t] = verdict[t]
  BY <1>1, <1>3, <1>6, LinesJoin, SayStep
<1>9. Phase1Types'
  BY <1>1, <1>6, <1>7, <1>8 DEF Phase1Types, EndTest, NextTest, Tests
<1>10. Expected("multiple_forks")' = <<"PASS", "PASS">>
  BY <1>1, <1>3 DEF Expected
<1>. QED BY <1>1, <1>6, <1>7, <1>8, <1>9, <1>10, EndStep

(* main() returns.                                                         *)
LEMMA ExitMainStep ==
  ASSUME Phase1Inv, ExitMain
  PROVE  Phase1Inv'
<1> USE DEF Phase1Inv
<1>1. /\ test = "completed" /\ test' = "exited" /\ Exit(Main, 0)
      /\ UNCHANGED <<pc, pid, task, child_count, zombie_count, verdict, forkFailed>>
  BY DEF ExitMain, counts
<1>2. parent[Main] = NoPid /\ \A p \in Pid : parent[p] \in {Main, NoPid}
  BY DEF OnlyMainHasChildren
<1>3. /\ parent' = [q \in Pid |-> NoPid] /\ code' \in [Pid -> Int]
      /\ \A q \in Pid \ {Main} : code'[q] = code[q]
  BY <1>1, <1>2 DEF Exit, Phase1Types, ProcTypeOK
<1>4. /\ status' \in [Pid -> {"free", "live", "zombie"}] /\ status'[Main] = "free"
      /\ \A q \in Pid : status'[q] \in {"free", status[q]}
  BY <1>1, <1>2 DEF Exit, Phase1Types, ProcTypeOK
<1>5. Phase1Types'
  BY <1>1, <1>3, <1>4 DEF Phase1Types, ProcTypeOK
<1>6. OnlyMainHasChildren'
  BY <1>1, <1>3 DEF OnlyMainHasChildren
<1>7. ZombieCode'
  <2> SUFFICES ASSUME NEW q \in Pid, status'[q] = "zombie" PROVE code'[q] = task[q]
    BY <1>1 DEF ZombieCode
  <2>1. q # Main /\ status[q] = "zombie"
    BY <1>4
  <2>. QED BY <1>3, <2>1 DEF ZombieCode
<1>8. OneForkTests' /\ TwoForksTest'
  BY <1>1 DEF OneForkTests, TwoForksTest
<1>9. Printed'
  BY <1>1 DEF Printed, Expected, Here, After, Tests
<1>10. Kids' = {}
  BY <1>3 DEF Kids, Children
<1>11. ChildIsLeft'
  BY <1>10 DEF ChildIsLeft
<1>. QED BY <1>5, <1>6, <1>7, <1>8, <1>9, <1>11

(* A child exits, at any moment.                                           *)
LEMMA ChildExitStep ==
  ASSUME Phase1Inv, NEW p \in Pid, ChildExit(p)
  PROVE  Phase1Inv'
<1> USE DEF Phase1Inv
<1>1. p # Main /\ status[p] = "live" /\ Exit(p, task[p]) /\ task[p] \in Int
      /\ UNCHANGED <<test, pc, pid, task, child_count, zombie_count, verdict, forkFailed>>
  BY DEF ChildExit, counts, Phase1Types
<1>2. /\ Kids' = Kids /\ UNCHANGED parent
      /\ status' = [status EXCEPT ![p] = IF parent[p] = NoPid THEN "free" ELSE "zombie"]
  BY <1>1, ExitKids
<1>3. code' = [code EXCEPT ![p] = task[p]]
  BY <1>1 DEF Exit
<1>4. Phase1Types'
  BY <1>1, <1>2, <1>3 DEF Phase1Types, ProcTypeOK
<1>5. OnlyMainHasChildren' /\ ZombieCode'
  BY <1>1, <1>2, <1>3 DEF OnlyMainHasChildren, ZombieCode, Phase1Types, ProcTypeOK
<1>6. OneForkTests' /\ TwoForksTest' /\ ChildIsLeft'
  BY <1>1, <1>2 DEF OneForkTests, TwoForksTest, Only, ChildIsLeft, Returned
<1>7. Printed'
  BY <1>1 DEF Printed, Expected, Here
<1>. QED BY <1>4, <1>5, <1>6, <1>7

-----------------------------------------------------------------------------

(* On every schedule, the place in the program decides which children main *)
(* has and what has been printed (test_phase1.c:45-262).                   *)
THEOREM Phase1Inductive == Phase1Spec => []Phase1Inv
<1>1. Phase1Inv /\ [Phase1Next]_phase1Vars => Phase1Inv'
  <2> SUFFICES ASSUME Phase1Inv, [Phase1Next]_phase1Vars PROVE Phase1Inv'
    OBVIOUS
  <2>1. ASSUME NEW n \in {1, 2}, ForkNth(n) \/ ForkNthFails(n) PROVE Phase1Inv'
    <3>1. CASE test # "multiple_forks"
      BY <2>1, <3>1, ForkOneStep, ForkOneFails
    <3>2. CASE test = "multiple_forks" /\ n = 1
      BY <2>1, <3>2, FirstForkStep
    <3>3. CASE n = 2
      BY <2>1, <3>3, SecondForkStep
    <3>. QED BY <3>1, <3>2, <3>3
  <2>2. ASSUME NEW n \in {1, 2}, WaitNth(n) PROVE Phase1Inv'
    BY <2>2, WaitNthStep
  <2>3. CASE WaitChild \/ PollChild \/ WaitPolled
    BY <2>3, OneChildStep
  <2>4. CASE Cleanup
    BY <2>4, CleanupStep
  <2>5. CASE ExitMain
    BY <2>5, ExitMainStep
  <2>6. ASSUME NEW p \in Pid, ChildExit(p) PROVE Phase1Inv'
    BY <2>6, ChildExitStep
  <2>7. CASE UNCHANGED phase1Vars
    <3>1. UNCHANGED <<status, parent, code, test, pc, pid, task, child_count, zombie_count,
                      verdict, forkFailed>>
      BY <2>7 DEF phase1Vars, counts
    <3>2. Kids' = Kids
      BY <3>1 DEF Kids, Children
    <3>. QED BY <3>1, <3>2 DEF Phase1Inv, Phase1Types, ProcTypeOK, OnlyMainHasChildren,
           ZombieCode, OneForkTests, TwoForksTest, Only, Printed, Expected, Here,
           ChildIsLeft, Returned
  <2>. QED BY <2>1, <2>2, <2>3, <2>4, <2>5, <2>6, <2>7 DEF Phase1Next, mainProgram
<1>. QED BY <1>1, Phase1Start, PTL DEF Phase1Spec

(* The printed verdict of every test depends on fork() only, never on      *)
(* whether the child or the parent is faster (test_phase1.c:143-176).      *)
THEOREM VerdictOfEverySchedule == Phase1Spec => []VerdictsAreOfTheFork
<1>1. Phase1Inv => VerdictsAreOfTheFork
  BY DEF Phase1Inv, Printed, VerdictsAreOfTheFork, Returned, After, Tests
<1>. QED BY <1>1, Phase1Inductive, PTL

(* "[PASS] No zombie processes remaining" is never printed while a child   *)
(* is left, dead or alive (test_phase1.c:246-260).                         *)
THEOREM NoChildBehindTheLine == Phase1Spec => []NoZombieLineIsTrue
<1>1. Phase1Inv => NoZombieLineIsTrue
  <2> SUFFICES ASSUME Phase1Inv, Returned, Len(verdict["multiple_forks"]) = 2
               PROVE  Kids = {}
    BY DEF NoZombieLineIsTrue, Kids
  <2>1. verdict["multiple_forks"] = Expected("multiple_forks")
    BY DEF Phase1Inv, Printed, Returned, After, Tests
  <2>2. "multiple_forks" \in forkFailed => verdict["multiple_forks"] = <<>>
    BY <2>1 DEF Expected
  <2>3. "multiple_forks" \notin forkFailed
    BY <2>2
  <2>. QED BY <2>3 DEF Phase1Inv, ChildIsLeft
<1>. QED BY <1>1, Phase1Inductive, PTL

=============================================================================
