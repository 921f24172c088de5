------------------------------ MODULE SuiteLog ------------------------------
(***************************************************************************)
(* The capture a run of the oscomp suite produces: run-all.sh starts the   *)
(* test programs one after the other, each prints its START line, its own  *)
(* lines and, if it has one and gets there, its END line.  A test may end  *)
(* early in an assert, after any number of its lines.                      *)
(***************************************************************************)
EXTENDS TestRunner, SequencesExt

CONSTANTS
  Suite,   (* the tests in the order of run-all.sh, without repetition     *)
  Body,    (* Body[t]: the lines t prints when all goes well               *)
  Ends,    (* the tests whose source ends with TEST_END                    *)
  AssertAt,(* AssertAt[t]: how many of its lines t may have printed when   *)
           (* one of its asserts fails                                     *)
  Echo,    (* the line "Testing $i :" of run-all.sh                        *)
  Fatal    (* the line " --- Assert Fatal ! ---"                           *)

SuiteTests == {Suite[i] : i \in DOMAIN Suite}

(* What becomes of a test: it completes, or panics after n lines.          *)
Fate(t) == {[done |-> TRUE, n |-> 0]} \cup {[done |-> FALSE, n |-> n] : n \in AssertAt[t]}

Fates == {f \in [SuiteTests -> UNION {Fate(t) : t \in SuiteTests}] :
            \A t \in SuiteTests : f[t] \in Fate(t)}

LineOf(k, t, x) == [kind |-> k, test |-> t, text |-> x]

(* assert(): the message of panic starts with a line feed.                 *)
Panic(t) == <<LineOf("blank", t, Fatal), LineOf("text", t, Fatal)>>

Printed(t, xs) == [i \in DOMAIN xs |-> LineOf("text", t, xs[i])]

(* The part of the capture that test t contributes.                        *)
Section(t, f) ==
  <<LineOf("text", t, Echo), LineOf("start", t, Echo)>> \o
  (IF f.done
   THEN Printed(t, Body[t]) \o (IF t \in Ends THEN <<LineOf("end", t, Echo)>> ELSE <<>>)
   ELSE Printed(t, SubSeq(Body[t], 1, f.n)) \o Panic(t))

Capture(f) == FlattenSeq([i \in DOMAIN Suite |-> Section(Suite[i], f[Suite[i]])])

SuiteLogs == {Capture(f) : f \in Fates}

(* run-all.sh names no test twice, and the oracle of a test accepts what   *)
(* the test prints when all goes well.                                     *)
ASSUME SuiteAssumption ==
  /\ Suite \in Seq(Tests) /\ \A i, j \in DOMAIN Suite : Suite[i] = Suite[j] => i = j
  /\ {Echo, Fatal} \subseteq Text
  /\ \A t \in SuiteTests : Body[t] \in Seq(Text) /\ AssertAt[t] \subseteq 0 .. Len(Body[t])
  /\ \A t \in SuiteTests \cap Ends \cap Oracles : \A i \in DOMAIN Expect[t] :
       Holds(Expect[t][i], Printed(t, Body[t]))
  /\ Logs = SuiteLogs

-----------------------------------------------------------------------------
(* What became of a test can be read off the capture.                      *)

Finished(t) == \E p \in DOMAIN log : log[p].kind = "end" /\ log[p].test = t

FullMarks(t) == t \in Oracles /\ Passed(t) = DOMAIN Expect[t]

(* An early exit costs no more than the tests up to the next END line: a   *)
(* test that prints its END line and follows one that did gets full marks. *)
(* (test_runner.py:40-58 with TestBase.start.)                             *)
RecoversAfterEnd ==
  outcome = "printed" =>
    \A i \in DOMAIN Suite :
      Finished(Suite[i]) /\ (i = 1 \/ Finished(Suite[i - 1])) => FullMarks(Suite[i])

=============================================================================
