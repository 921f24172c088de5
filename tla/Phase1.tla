------------------------------- MODULE Phase1 -------------------------------
(***************************************************************************)
(* user/src/test/test_phase1.c: the process tests of phase 1, whose result *)
(* is what they print.  test_getpid_gettid only asks two questions and is  *)
(* left out.                                                               *)
(***************************************************************************)
EXTENDS ProcTable, Sequences

CONSTANT ForkMayFail (* whether fork() may return -EAGAIN                  *)

ASSUME Phase1Assumption == ForkMayFail \in BOOLEAN

VARIABLES
  test,        (* the test main() is in, or "completed", or "exited"       *)
  pc,          (* the call it makes next                                   *)
  pid,         (* pid[1], pid[2]: what fork() returned; -1 for an error    *)
  task,        (* task[p]: the code child p will exit with                 *)
  child_count, (* test_multiple_forks: children waited for                 *)
  zombie_count,(* test_multiple_forks: children the cleanup loop found     *)
  verdict,     (* history: verdict[t]: the "[PASS]" and "[FAIL]" lines     *)
  forkFailed   (* history: the tests in which a fork() failed              *)

counts == <<child_count, zombie_count>>
phase1Vars == <<status, parent, code, test, pc, pid, task, counts, verdict, forkFailed>>

Tests == {"fork_wait4", "wait4_wnohang", "multiple_forks"}

NextTest == [fork_wait4 |-> "wait4_wnohang", wait4_wnohang |-> "multiple_forks",
             multiple_forks |-> "completed"]

(* The code of the child the n-th fork() of a test makes.                  *)
TaskOf(n) ==
  CASE test = "fork_wait4"     -> 42
    [] test = "wait4_wnohang"  -> 0
    [] test = "multiple_forks" -> n

Phase1Init ==
  /\ ProcInit
  /\ test = "fork_wait4"
  /\ pc = "fork"
  /\ pid = [n \in {1, 2} |-> NoPid]
  /\ task = [p \in Pid |-> 0]
  /\ child_count = 0 /\ zombie_count = 0
  /\ verdict = [t \in Tests |-> <<>>]
  /\ forkFailed = {}

-----------------------------------------------------------------------------

Say(lines) == verdict' = [verdict EXCEPT ![test] = @ \o lines]

(* TEST_END: the test returns and main() calls the next one.               *)
EndTest == test' = NextTest[test] /\ pc' = "fork"

Here(t, p) == test = t /\ pc = p

(* What follows the n-th fork() of test_multiple_forks: nothing is waited  *)
(* for unless both succeeded.                                              *)
AfterNthFork(n) ==
  IF n = 1 THEN pc' = "fork2" /\ UNCHANGED test
  ELSE IF pid'[1] > 0 /\ pid'[2] > 0 THEN pc' = "wait1" /\ UNCHANGED test
  ELSE EndTest

ForkIn(n) == IF n = 1 THEN pc = "fork" ELSE Here("multiple_forks", "fork2")

ForkNth(n) ==
  /\ test \in Tests /\ ForkIn(n)
  /\ \E c \in Pid : /\ Fork(Main, c)
                    /\ pid' = [pid EXCEPT ![n] = c]
                    /\ task' = [task EXCEPT ![c] = TaskOf(n)]
  /\ CASE test = "fork_wait4"     -> pc' = "wait" /\ UNCHANGED test
       [] test = "wait4_wnohang"  -> pc' = "poll" /\ UNCHANGED test
       [] test = "multiple_forks" -> AfterNthFork(n)
  /\ UNCHANGED <<counts, verdict, forkFailed>>

(* The other two tests print "[FAIL] fork failed" and return.              *)
ForkNthFails(n) ==
  /\ ForkMayFail
  /\ test \in Tests /\ ForkIn(n)
  /\ pid' = [pid EXCEPT ![n] = -1]
  /\ IF test = "multiple_forks" THEN AfterNthFork(n) /\ UNCHANGED verdict
                                ELSE EndTest /\ Say(<<"FAIL">>)
  /\ forkFailed' = forkFailed \cup {test}
  /\ UNCHANGED <<procVars, task, counts>>

(* test_fork_wait4: the pid and the exit code must be those of the child.  *)
WaitChild ==
  /\ Here("fork_wait4", "wait")
  /\ \E r \in Wait4(Main, {pid[1]}, FALSE) :
       /\ Reap(r)
       /\ Say(IF r = pid[1] /\ WEXITSTATUS(r) = 42 THEN <<"PASS">> ELSE <<"FAIL">>)
  /\ EndTest
  /\ UNCHANGED <<pid, task, counts, forkFailed>>

(* Mutant: already_reaped is forgotten.                                    *)
PollForgetsReaped ==
  /\ Here("wait4_wnohang", "poll")
  /\ \E r \in Wait4(Main, {pid[1]}, TRUE) :
       /\ Reap(r)
       /\ Say(IF r \in {0, pid[1]} THEN <<"PASS">> ELSE <<"FAIL">>)
       /\ IF r \in {0, pid[1]} THEN pc' = "wait" /\ UNCHANGED test ELSE EndTest
  /\ UNCHANGED <<pid, task, counts, forkFailed>>

(* Mutant: the test ends while the child still runs.                       *)
PollOnly ==
  /\ Here("wait4_wnohang", "poll")
  /\ \E r \in Wait4(Main, {pid[1]}, TRUE) :
       /\ Reap(r)
       /\ Say(IF r \in {0, pid[1]} THEN <<"PASS">> ELSE <<"FAIL">>)
  /\ EndTest
  /\ UNCHANGED <<pid, task, counts, forkFailed>>

(* test_wait4_wnohang: 0 means that the child still runs; its pid that it  *)
(* has been reaped already (already_reaped).                               *)
PollChild ==
  /\ Here("wait4_wnohang", "poll")
  /\ \E r \in Wait4(Main, {pid[1]}, TRUE) :
       /\ Reap(r)
       /\ Say(IF r \in {0, pid[1]} THEN <<"PASS">> ELSE <<"FAIL">>)
       /\ IF r = 0 THEN pc' = "wait" /\ UNCHANGED test ELSE EndTest
  /\ UNCHANGED <<pid, task, counts, forkFailed>>

(* The blocking wait of test_wait4_wnohang, silent when it succeeds.       *)
WaitPolled ==
  /\ Here("wait4_wnohang", "wait")
  /\ \E r \in Wait4(Main, {pid[1]}, FALSE) :
       /\ Reap(r)
       /\ Say(IF r = pid[1] THEN <<>> ELSE <<"FAIL">>)
  /\ EndTest
  /\ UNCHANGED <<pid, task, counts, forkFailed>>

(* The n-th wait of test_multiple_forks; an unexpected status is only not  *)
(* counted.  After the second the count is judged.                         *)
WaitNth(n) ==
  /\ Here("multiple_forks", IF n = 1 THEN "wait1" ELSE "wait2")
  /\ \E r \in Wait4(Main, {pid[n]}, FALSE) :
       /\ Reap(r)
       /\ child_count' = child_count + IF r = pid[n] /\ WEXITSTATUS(r) = n THEN 1 ELSE 0
       /\ Say((IF r = pid[n] THEN <<>> ELSE <<"FAIL">>) \o
              (IF n = 1 THEN <<>> ELSE IF child_count' = 2 THEN <<"PASS">> ELSE <<"FAIL">>))
  /\ pc' = IF n = 1 THEN "wait2" ELSE "cleanup"
  /\ UNCHANGED <<test, pid, task, zombie_count, forkFailed>>

(* while (wait4(-1, WNOHANG) > 0): every child found is reaped and counted *)
(* (the second wait for it has no child to find); else the test ends.      *)
Cleanup ==
  /\ Here("multiple_forks", "cleanup")
  /\ \E r \in Wait4(Main, Pid, TRUE) :
       /\ Reap(r)
       /\ IF r > 0
          THEN zombie_count' = zombie_count + 1 /\ UNCHANGED <<test, pc, verdict>>
          ELSE /\ Say(IF zombie_count = 0 /\ child_count = 2 THEN <<"PASS">> ELSE <<>>)
               /\ EndTest /\ UNCHANGED zombie_count
  /\ UNCHANGED <<pid, task, child_count, forkFailed>>

(* "ALL TESTS COMPLETED", and main() returns 0.                            *)
ExitMain ==
  /\ test = "completed"
  /\ Exit(Main, 0)
  /\ test' = "exited"
  /\ UNCHANGED <<pc, pid, task, counts, verdict, forkFailed>>

ChildExit(p) ==
  /\ p # Main
  /\ status[p] = "live"
  /\ Exit(p, task[p])
  /\ UNCHANGED <<test, pc, pid, task, counts, verdict, forkFailed>>

mainProgram ==
  \/ \E n \in {1, 2} : ForkNth(n) \/ ForkNthFails(n) \/ WaitNth(n)
  \/ WaitChild \/ PollChild \/ WaitPolled \/ Cleanup
  \/ ExitMain

Phase1Next == mainProgram \/ \E p \in Pid : ChildExit(p)

(* Every process that can run is scheduled.                                *)
Phase1Fairness ==
  /\ WF_phase1Vars(mainProgram)
  /\ \A p \in Pid : WF_phase1Vars(ChildExit(p))

Phase1Spec == Phase1Init /\ [][Phase1Next]_phase1Vars /\ Phase1Fairness

-----------------------------------------------------------------------------

Returned == test \in {"completed", "exited"}

(* On every schedule of parent and children each test prints its "[PASS]"  *)
(* lines and nothing else, unless a fork() failed in it, and then it prints*)
(* no "[PASS]" line: the printed verdict does not depend on whether the    *)
(* child or the parent is faster (test_phase1.c:143-176).                  *)
Expected(t) ==
  CASE t \in forkFailed /\ t # "multiple_forks" -> <<"FAIL">>
    [] t \in forkFailed /\ t = "multiple_forks" -> <<>>
    [] t \notin forkFailed /\ t # "multiple_forks" -> <<"PASS">>
    [] t \notin forkFailed /\ t = "multiple_forks" -> <<"PASS", "PASS">>

VerdictsAreOfTheFork == Returned => \A t \in Tests : verdict[t] = Expected(t)

(* "[PASS] No zombie processes remaining" is true when it is printed, also *)
(* of children that still run, although wait4(-1, WNOHANG) does not see    *)
(* those (test_phase1.c:246-260).                                          *)
NoZombieLineIsTrue ==
  Returned /\ Len(verdict["multiple_forks"]) = 2 => Children(Main) = {}

-----------------------------------------------------------------------------
(* Why: only main() has children, a zombie's code is the one it was forked *)
(* with, and the place in a test decides which children there are and what *)
(* has been printed.                                                       *)

Kids == Children(Main)

Phase1Types ==
  /\ ProcTypeOK
  /\ test \in Tests \cup {"completed", "exited"}
  /\ pid \in [{1, 2} -> Pid \cup {NoPid, -1}]
  /\ task \in [Pid -> Nat]
  /\ child_count \in Nat /\ zombie_count \in Nat
  /\ verdict \in [Tests -> Seq({"PASS", "FAIL"})]
  /\ forkFailed \subseteq Tests

OnlyMainHasChildren ==
  /\ \A p \in Pid : parent[p] \in {Main, NoPid}
  /\ parent[Main] = NoPid
  /\ test # "exited" => /\ status[Main] = "live"
                        /\ \A p \in Pid \ {Main} : status[p] # "free" => parent[p] = Main

ZombieCode == \A p \in Pid : status[p] = "zombie" => code[p] = task[p]

(* The children there are: only[n] is the child of the n-th fork().        *)
Only(n) == pid[n] \in Pid /\ Kids = {pid[n]}

OneForkTests ==
  test \in {"fork_wait4", "wait4_wnohang"} =>
    /\ child_count = 0 /\ zombie_count = 0
    /\ pc \in {"fork", "poll", "wait"}
    /\ pc = "fork" => Kids = {}
    /\ pc # "fork" => Only(1) /\ (test = "fork_wait4" => task[pid[1]] = 42)

TwoForksTest ==
  test = "multiple_forks" =>
    /\ zombie_count = 0
    /\ pc \in {"fork", "fork2", "wait1", "wait2", "cleanup"}
    /\ pc \in {"fork", "fork2", "wait1"} => child_count = 0
    /\ pc \in {"fork", "cleanup"} => Kids = {}
    /\ pc = "fork2" => \/ Only(1) /\ task[pid[1]] = 1
                       \/ pid[1] = -1 /\ Kids = {}
    /\ pc = "wait1" => /\ pid[1] \in Pid /\ pid[2] \in Pid /\ pid[1] # pid[2]
                       /\ Kids = {pid[1], pid[2]}
                       /\ task[pid[1]] = 1 /\ task[pid[2]] = 2
    /\ pc = "wait2" => child_count = 1 /\ Only(2) /\ task[pid[2]] = 2
    /\ pc = "cleanup" => child_count = 2

After ==
  [fork_wait4     |-> {"wait4_wnohang", "multiple_forks", "completed", "exited"},
   wait4_wnohang  |-> {"multiple_forks", "completed", "exited"},
   multiple_forks |-> {"completed", "exited"}]

Printed ==
  \A t \in Tests :
    /\ test \in After[t] => verdict[t] = Expected(t)
    /\ test \notin After[t] /\ t # test => verdict[t] = <<>> /\ t \notin forkFailed
    /\ t = test => /\ verdict[t] = IF Here("multiple_forks", "cleanup")
                                    \/ Here("wait4_wnohang", "wait") THEN <<"PASS">> ELSE <<>>
                   /\ t \in forkFailed <=> pc = "fork2" /\ pid[1] = -1

ChildIsLeft == Returned /\ Kids # {} => "multiple_forks" \in forkFailed

Phase1Inv ==
  /\ Phase1Types
  /\ OnlyMainHasChildren
  /\ ZombieCode
  /\ OneForkTests
  /\ TwoForksTest
  /\ Printed
  /\ ChildIsLeft

=============================================================================
