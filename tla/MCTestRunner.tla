---------------------------- MODULE MCTestRunner ----------------------------
(***************************************************************************)
(* Oscomp tests that end in TEST_END, with pipe among them, whose source   *)
(* has no TEST_END, and fork_wait4 of the RendezvOS suite (test_phase1.c), *)
(* which has no oracle.                                                    *)
(***************************************************************************)
EXTENDS SuiteLog

MixedSuite  == <<"exit", "getpid", "fork_wait4", "pipe", "wait", "waitpid">>

MCTests == {"exit", "getpid", "fork_wait4", "pipe", "wait", "waitpid"}
MCOracles == MCTests \ {"fork_wait4"}
MCEnds == MCTests \ {"pipe"}

Child == "This is child process"

MCBody == [exit    |-> <<"exit OK.">>,
           fork_wait4 |-> <<"[PASS] fork and wait4">>,
           getpid  |-> <<"getpid success.", "pid = N">>,
           pipe    |-> <<"cpid: 0", "cpid: N", "  Write to pipe successfully.", "[PASS] test_pipe">>,
           wait    |-> <<Child, "wait child success.", "wstatus: 0">>,
           waitpid |-> <<Child, "waitpid successfully.", "wstatus: 3">>]

AtLeast(k) == [kind |-> "len", n |-> k, x |-> "Testing"]
At(k, y)   == [kind |-> "at", n |-> k, x |-> y]
In(y)      == [kind |-> "in", n |-> 0, x |-> y]

MCExpect == [exit    |-> <<AtLeast(1), At(1, "exit OK.")>>,
             getpid  |-> <<AtLeast(2), At(1, "getpid success."), At(2, "pid = N")>>,
             pipe    |-> <<AtLeast(3), In("cpid: 0"), In("cpid: N"),
                           At(3, "  Write to pipe successfully.")>>,
             wait    |-> <<AtLeast(3), At(1, Child), At(2, "wait child success."),
                           At(3, "wstatus: 0")>>,
             waitpid |-> <<AtLeast(3), At(1, Child), At(2, "waitpid successfully."),
                           At(3, "wstatus: 3")>>]

MCAssertAt == [exit |-> {0}, getpid |-> {0}, fork_wait4 |-> {}, pipe |-> {},
               wait |-> {0, 1}, waitpid |-> {0, 1}]

MCText == UNION {{MCBody[t][i] : i \in DOMAIN MCBody[t]} : t \in MCTests}
          \cup {"Testing", "Fatal"}

=============================================================================
