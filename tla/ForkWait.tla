------------------------------ MODULE ForkWait ------------------------------
(***************************************************************************)
(* user/src/test/test_fork_wait.c: main() runs test_fork_wait_basic,       *)
(* test_wnohang and test_multiple_children one after the other, each forks *)
(* children and waits for them, and counts the tests that returned 1.      *)
(***************************************************************************)
EXTENDS ProcTable, FiniteSets

CONSTANTS
  NUM_CHILDREN, (* children of test_multiple_children; 3 in the source     *)
  ForkMayFail   (* whether fork() may return -EAGAIN                       *)

(* Exit codes are (idx + 1) * 10 and an exit status has eight bits.        *)
ASSUME ForkWaitAssumption ==
  /\ NUM_CHILDREN \in 1 .. 25
  /\ ForkMayFail \in BOOLEAN

VARIABLES
  test,     (* the test main() is in, "summary" or "exited"                *)
  pc,       (* its next call: "fork", "poll" (WNOHANG) or "wait"           *)
  child,    (* pid of the child just forked                                *)
  task,     (* task[p]: the code child p will exit with                    *)
  forked,   (* test_multiple_children: how many children were spawned      *)
  got,      (* test_multiple_children: the got_exit_<n> flags that are set *)
  children_reaped,
  failures,
  passed,   (* history: tests whose PASSED banner was printed              *)
  forkFailed(* history: a fork() has failed                                *)

locals == <<test, pc, child, task, forked, got, children_reaped, failures, passed, forkFailed>>
vars == <<status, parent, code, locals>>

Tests == {"basic", "wnohang", "multiple"}

NextTest == [basic |-> "wnohang", wnohang |-> "multiple", multiple |-> "summary"]

ChildCode(idx) == (idx + 1) * 10
ChildCodes == {ChildCode(idx) : idx \in 0 .. NUM_CHILDREN - 1}

(* The code the next child is forked with.                                 *)
NextTask ==
  CASE test = "basic"    -> 42
    [] test = "wnohang"  -> 0
    [] test = "multiple" -> ChildCode(forked)

Init ==
  /\ ProcInit
  /\ test = "basic"
  /\ pc = "fork"
  /\ child = NoPid
  /\ task = [p \in Pid |-> 0]
  /\ forked = 0
  /\ got = {}
  /\ children_reaped = 0
  /\ failures = 0
  /\ passed = {}
  /\ forkFailed = FALSE

-----------------------------------------------------------------------------

(* Mutant: main() starts the same test again.                              *)
ReturnAgain(ok) ==
  /\ test' = test
  /\ pc' = "fork"
  /\ child' = NoPid
  /\ IF ok THEN passed' = passed \cup {test} /\ UNCHANGED failures
           ELSE failures' = failures + 1 /\ UNCHANGED passed

(* main() after a test returned: banner, failures++, next test.            *)
Return(ok) ==
  /\ test' = NextTest[test]
  /\ pc' = "fork"
  /\ child' = NoPid
  /\ IF ok THEN passed' = passed \cup {test} /\ UNCHANGED failures
           ELSE failures' = failures + 1 /\ UNCHANGED passed

(* fork() > 0: the parent goes on to its wait4, or, in                     *)
(* test_multiple_children, to the next SPAWN_ONE_CHILD.                    *)
ForkChild ==
  /\ test \in Tests
  /\ pc = "fork"
  /\ \E c \in Pid :
       /\ Fork(Main, c)
       /\ child' = c
       /\ task' = [task EXCEPT ![c] = NextTask]
  /\ IF test = "multiple"
     THEN /\ forked' = forked + 1
          /\ pc' = IF forked' < NUM_CHILDREN THEN "fork" ELSE "wait"
     ELSE /\ pc' = IF test = "wnohang" THEN "poll" ELSE "wait"
          /\ UNCHANGED forked
  /\ UNCHANGED <<test, got, children_reaped, failures, passed, forkFailed>>

(* fork() < 0: the test prints FAIL and returns 1; children it already     *)
(* spawned are left alone.                                                 *)
ForkError ==
  /\ ForkMayFail
  /\ test \in Tests
  /\ pc = "fork"
  /\ Return(FALSE)
  /\ forkFailed' = TRUE
  /\ UNCHANGED <<procVars, task, forked, got, children_reaped>>

(* test_fork_wait_basic: wait4(pid, &status, 0, NULL) and the two checks.  *)
WaitBasic ==
  /\ test = "basic" /\ pc = "wait"
  /\ \E r \in Wait4(Main, {child}, FALSE) :
       /\ Reap(r)
       /\ Return(r = child /\ WEXITSTATUS(child) = 42)
  /\ UNCHANGED <<task, forked, got, children_reaped, forkFailed>>

(* Mutant: only a child that is still running is expected.                 *)
PollExpectsRunning ==
  /\ test = "wnohang" /\ pc = "poll"
  /\ \E r \in Wait4(Main, {child}, TRUE) :
       /\ Reap(r)
       /\ IF r = 0
          THEN pc' = "wait" /\ UNCHANGED <<test, child, failures, passed>>
          ELSE Return(FALSE)
  /\ UNCHANGED <<task, forked, got, children_reaped, forkFailed>>

(* Mutant: the test is over after the poll, whatever it returned.          *)
PollOnly ==
  /\ test = "wnohang" /\ pc = "poll"
  /\ \E r \in Wait4(Main, {child}, TRUE) : Reap(r) /\ Return(r \in {0, child})
  /\ UNCHANGED <<task, forked, got, children_reaped, forkFailed>>

(* test_wnohang: the poll right after fork.  A child still running is      *)
(* waited for, one already dead has been reaped and the test is over.      *)
PollWnohang ==
  /\ test = "wnohang" /\ pc = "poll"
  /\ \E r \in Wait4(Main, {child}, TRUE) :
       /\ Reap(r)
       /\ IF r = 0
          THEN pc' = "wait" /\ UNCHANGED <<test, child, failures, passed>>
          ELSE Return(r = child)
  /\ UNCHANGED <<task, forked, got, children_reaped, forkFailed>>

WaitWnohang ==
  /\ test = "wnohang" /\ pc = "wait"
  /\ \E r \in Wait4(Main, {child}, FALSE) : Reap(r) /\ Return(r = child)
  /\ UNCHANGED <<task, forked, got, children_reaped, forkFailed>>

(* Mutant: a child is reaped and not counted.                              *)
WaitAnyUncounted ==
  /\ test = "multiple" /\ pc = "wait"
  /\ children_reaped < NUM_CHILDREN
  /\ \E r \in Wait4(Main, Pid, FALSE) :
       /\ Reap(r)
       /\ got' = got \cup (IF r > 0 THEN {WEXITSTATUS(r)} ELSE {})
  /\ UNCHANGED <<test, pc, child, failures, passed, task, forked, forkFailed, children_reaped>>

(* test_multiple_children: one turn of the reaping loop, wait4(-1, ...).   *)
(* After the last child the flags are looked at.                           *)
WaitAny ==
  /\ test = "multiple" /\ pc = "wait"
  /\ children_reaped < NUM_CHILDREN
  /\ \E r \in Wait4(Main, Pid, FALSE) :
       /\ Reap(r)
       /\ IF r > 0 /\ WEXITSTATUS(r) \in ChildCodes
          THEN /\ got' = got \cup {WEXITSTATUS(r)}
               /\ children_reaped' = children_reaped + 1
               /\ UNCHANGED <<test, pc, child, failures, passed>>
          ELSE /\ Return(FALSE)
               /\ UNCHANGED <<got, children_reaped>>
  /\ UNCHANGED <<task, forked, forkFailed>>

AllReaped ==
  /\ test = "multiple" /\ pc = "wait"
  /\ children_reaped >= NUM_CHILDREN
  /\ Return(ChildCodes \subseteq got)
  /\ UNCHANGED <<procVars, task, forked, got, children_reaped, forkFailed>>

(* The summary, and main() returns failures > 0.                           *)
ExitMain ==
  /\ test = "summary"
  /\ Exit(Main, IF failures > 0 THEN 1 ELSE 0)
  /\ test' = "exited"
  /\ UNCHANGED <<pc, child, task, forked, got, children_reaped, failures, passed, forkFailed>>

(* A child runs (it prints, yields, works) until it calls exit(code).      *)
ChildExit(p) ==
  /\ p # Main
  /\ status[p] = "live"
  /\ Exit(p, task[p])
  /\ UNCHANGED locals

MainStep ==
  \/ ForkChild
  \/ ForkError
  \/ WaitBasic
  \/ PollWnohang
  \/ WaitWnohang
  \/ WaitAny
  \/ AllReaped
  \/ ExitMain

Next == MainStep \/ \E p \in Pid : ChildExit(p)

(* The kernel runs every process that can run; fork() failing for ever is  *)
(* no way to starve main(), since each failure ends a test.                *)
Fairness ==
  /\ WF_vars(MainStep)
  /\ \A p \in Pid : WF_vars(ChildExit(p))

Spec == Init /\ [][Next]_vars /\ Fairness

-----------------------------------------------------------------------------

TypeOK ==
  /\ ProcTypeOK
  /\ test \in Tests \cup {"summary", "exited"}
  /\ pc \in {"fork", "poll", "wait"}
  /\ child \in Pid \cup {NoPid}
  /\ task \in [Pid -> Nat]
  /\ forked \in 0 .. NUM_CHILDREN
  /\ got \subseteq ChildCodes
  /\ children_reaped \in 0 .. NUM_CHILDREN
  /\ failures \in 0 .. 3
  /\ passed \subseteq Tests
  /\ forkFailed \in BOOLEAN

(* No schedule makes the program report a failure of its own: as long as   *)
(* fork() succeeds no wait4 returns an error, the wrong child or the wrong *)
(* code, and no got_exit flag is missing after the loop, so every test     *)
(* prints PASSED (test_fork_wait.c:390-416).                               *)
FailsOnlyIfForkFails == failures > 0 => forkFailed

(* No child of one test is left for the wait4(-1) of a later one, which    *)
(* would take its exit code for an unexpected one (test_fork_wait.c:356);  *)
(* this holds although a test returns early when fork() fails.             *)
TestsStartChildless ==
  test \in Tests /\ pc = "fork" /\ forked = 0 => Children(Main) = {}

(* While it reaps, the parent has exactly the children it has spawned and  *)
(* not yet counted: no zombie is lost or counted twice, so the loop cannot *)
(* end early and cannot wait for a child that will never come.             *)
CountMatchesChildren ==
  test = "multiple" => Cardinality(Children(Main)) = forked - children_reaped

(* A PASSED banner means that the children have been reaped: main leaves   *)
(* no child behind unless test_multiple_children failed half way.          *)
PassedLeavesNoChild ==
  test \in {"summary", "exited"} /\ "multiple" \in passed =>
    \A p \in Pid \ {Main} : status[p] = "free"

(* main() returns, on every schedule, whatever fork() does, and no zombie  *)
(* stays in the table for ever.                                            *)
Terminates == <>(test = "exited")
TableEmptied == <>[](\A p \in Pid : status[p] = "free")

-----------------------------------------------------------------------------
(* Why the properties hold.  Only main() has children, a zombie's code is  *)
(* the one it was forked with, and each test accounts for its children.    *)

Kids == Children(Main)

OnlyMainHasChildren ==
  /\ \A p \in Pid : parent[p] \in {Main, NoPid}
  /\ parent[Main] = NoPid
  /\ test # "exited" => /\ status[Main] = "live"
                        /\ \A p \in Pid \ {Main} : status[p] # "free" => parent[p] = Main

ZombieCode == \A p \in Pid : status[p] = "zombie" => code[p] = task[p]

OneChildTests ==
  test \in {"basic", "wnohang"} =>
    /\ forked = 0 /\ children_reaped = 0
    /\ pc = "fork" => Kids = {}
    /\ pc # "fork" => child \in Pid /\ Kids = {child}
                      /\ (test = "basic" => task[child] = 42)

ManyChildrenTest ==
  test = "multiple" =>
    /\ pc = "fork" => forked < NUM_CHILDREN /\ children_reaped = 0
    /\ pc # "fork" => forked = NUM_CHILDREN
    /\ IsFiniteSet(Kids) /\ Cardinality(Kids) = forked - children_reaped
    /\ \A c \in Kids : task[c] \in ChildCodes
    /\ \A idx \in 0 .. forked - 1 :
         ChildCode(idx) \in got \/ \E c \in Kids : task[c] = ChildCode(idx)

Progress ==
  /\ failures <= CASE test = "basic" -> 0 [] test = "wnohang" -> 1 [] test = "multiple" -> 2
                  [] OTHER -> 3
  /\ "multiple" \in passed => test \in {"summary", "exited"}

ForkWaitInv ==
  /\ TypeOK
  /\ OnlyMainHasChildren
  /\ ZombieCode
  /\ OneChildTests
  /\ ManyChildrenTest
  /\ Progress
  /\ FailsOnlyIfForkFails
  /\ PassedLeavesNoChild

=============================================================================
