----------------------------- MODULE TestRunner -----------------------------
(***************************************************************************)
(* The grader of the oscomp suite: the loop of test_runner.py that scans   *)
(* the captured serial output and the TestBase oracle it starts on the     *)
(* lines of one test.  The lines of the capture are abstract: what the     *)
(* scanner tells apart is START lines, END lines, blank lines and the rest.*)
(* data holds positions in the capture, so that a property can say which   *)
(* lines were graded.                                                      *)
(***************************************************************************)
EXTENDS Naturals, Sequences

CONSTANTS
  Tests,   (* the test names a START line can carry                        *)
  Text,    (* the other lines, as far as an oracle distinguishes them      *)
  Oracles, (* the tests with a <name>_test.py module                       *)
  Expect,  (* Expect[t]: the asserts of t's oracle, in order               *)
  Logs     (* the captures the scanner may be given                        *)

Line == [kind : {"start", "end", "text", "blank"}, test : Tests, text : Text]

(* An oracle's assert: at least n lines, the n-th line is x, some line is x.*)
Check == [kind : {"len", "at", "in"}, n : Nat, x : Text]

ASSUME RunnerAssumption ==
  /\ Oracles \subseteq Tests
  /\ Expect \in [Oracles -> Seq(Check)]
  /\ Logs \subseteq Seq(Line)

VARIABLES
  log,       (* serial_out.split('\n')                                     *)
  pos,       (* position of the line the for loop looks at                 *)
  state,     (* 0: looking for a START line, 1: inside a test              *)
  test_name, (* the name on the last START line recognised in state 0      *)
  data,      (* positions of the lines collected for test_name             *)
  result,    (* result[t]: outcome of each assert t's oracle recorded      *)
  outcome,   (* "scanning", "printed" (the JSON) or "KeyError"             *)
  from,      (* history: where the START line of test_name is              *)
  graded     (* history: one record per call of get_runner(..).start(..)   *)

vars == <<log, pos, state, test_name, data, result, outcome, from, graded>>

None == "None"

(* assert_util for one assert of an oracle on the collected lines ls.      *)
Holds(c, ls) ==
  \/ c.kind = "len" /\ Len(ls) >= c.n
  \/ c.kind = "at"  /\ c.n \in DOMAIN ls /\ ls[c.n].text = c.x
  \/ c.kind = "in"  /\ \E i \in DOMAIN ls : ls[i].text = c.x

(* TestBase.start: the result list is emptied, asserts run in order and    *)
(* each appends its outcome; the first that fails raises AssertFail, which *)
(* start swallows.                                                         *)
Start(t, ls) ==
  LET ok(i) == Holds(Expect[t][i], ls)
      upTo  == {i \in DOMAIN Expect[t] : \A j \in 1 .. i - 1 : ok(j)}
  IN  [i \in upTo |-> ok(i)]

(* get_result: "passed" counts the asserts recorded as true.               *)
Passed(t) == {i \in DOMAIN result[t] : result[t][i]}

Lines(ps) == [i \in DOMAIN ps |-> log[ps[i]]]

Init ==
  /\ log \in Logs
  /\ pos = 1
  /\ state = 0
  /\ test_name = None
  /\ data = <<>>
  /\ result = [t \in Oracles |-> <<>>]
  /\ outcome = "scanning"
  /\ from = 0
  /\ graded = {}

-----------------------------------------------------------------------------

(* The for loop takes the next line, which is of one of these kinds.       *)
Scan(kinds) ==
  /\ outcome = "scanning"
  /\ pos \in DOMAIN log
  /\ log[pos].kind \in kinds
  /\ pos' = pos + 1

(* get_runner(t).start(data), for a t that has an oracle.                  *)
Grade(t) ==
  /\ result' = [result EXCEPT ![t] = Start(t, Lines(data))]
  /\ graded' = graded \cup {[test |-> t, from |-> from, data |-> data, end |-> pos]}

(* Empty lines are skipped in both states.                                 *)
SkipBlank ==
  /\ Scan({"blank"})
  /\ UNCHANGED <<log, state, test_name, data, result, outcome, from, graded>>

(* Outside a test only a START line counts.                                *)
SkipOutside ==
  /\ state = 0
  /\ Scan({"text", "end"})
  /\ UNCHANGED <<log, state, test_name, data, result, outcome, from, graded>>

(* A START line outside a test: its name is taken, lines left over from an *)
(* unfinished test are graded under it, and a new collection begins.       *)
FoundStart ==
  /\ state = 0
  /\ Scan({"start"})
  /\ test_name' = log[pos].test
  /\ IF data # <<>> THEN test_name' \in Oracles /\ Grade(test_name')
                    ELSE UNCHANGED <<result, graded>>
  /\ data' = <<>>
  /\ state' = 1
  /\ from' = pos
  /\ UNCHANGED <<log, outcome>>

(* Mutant: the lines of the test are kept.                                 *)
FoundEndKeepsData ==
  /\ state = 1
  /\ Scan({"end"})
  /\ test_name \in Oracles
  /\ Grade(test_name)
  /\ state' = 0
  /\ UNCHANGED <<log, test_name, outcome, from, data>>

(* Mutant: the scanner stays inside the test.                              *)
FoundEndStays ==
  /\ state = 1
  /\ Scan({"end"})
  /\ test_name \in Oracles
  /\ Grade(test_name)
  /\ data' = <<>>
  /\ UNCHANGED <<log, test_name, outcome, from, state>>

(* An END line inside a test, whatever name the END line carries.          *)
FoundEnd ==
  /\ state = 1
  /\ Scan({"end"})
  /\ test_name \in Oracles
  /\ Grade(test_name)
  /\ state' = 0
  /\ data' = <<>>
  /\ UNCHANGED <<log, test_name, outcome, from>>

(* Either call of get_runner on a name without an oracle: runner[name]     *)
(* raises KeyError, the script ends and prints no result at all.           *)
NoRunner ==
  /\ IF state = 1 THEN Scan({"end"}) ELSE Scan({"start"}) /\ data # <<>>
  /\ test_name' = IF state = 1 THEN test_name ELSE log[pos].test
  /\ test_name' \notin Oracles
  /\ outcome' = "KeyError"
  /\ UNCHANGED <<log, state, data, result, from, graded>>

(* Mutant: START lines inside a test are dropped.                          *)
CollectText ==
  /\ state = 1
  /\ Scan({"text", "start"})
  /\ data' = IF log[pos].kind = "text" THEN Append(data, pos) ELSE data
  /\ UNCHANGED <<log, state, test_name, result, outcome, from, graded>>

(* Any other line inside a test is collected, START lines included.        *)
Collect ==
  /\ state = 1
  /\ Scan({"text", "start"})
  /\ data' = Append(data, pos)
  /\ UNCHANGED <<log, state, test_name, result, outcome, from, graded>>

(* The loop is over: the results of every oracle are printed.              *)
PrintResults ==
  /\ outcome = "scanning"
  /\ pos \notin DOMAIN log
  /\ outcome' = "printed"
  /\ UNCHANGED <<log, pos, state, test_name, data, result, from, graded>>

Next ==
  \/ SkipBlank
  \/ SkipOutside
  \/ FoundStart
  \/ FoundEnd
  \/ NoRunner
  \/ Collect
  \/ PrintResults

Spec == Init /\ [][Next]_vars

-----------------------------------------------------------------------------

TypeOK ==
  /\ log \in Logs
  /\ pos \in 1 .. Len(log) + 1
  /\ state \in {0, 1}
  /\ test_name \in Tests \cup {None}
  /\ data \in Seq(Nat)
  /\ outcome \in {"scanning", "printed", "KeyError"}
  /\ from \in 0 .. Len(log)
  /\ DOMAIN result = Oracles

(* ps lists, in order and without omission, the lines that are not blank   *)
(* strictly between lines a and b, and none of them is an END line.        *)
ExactlyBetween(ps, a, b) ==
  /\ \A i \in DOMAIN ps : ps[i] \in a + 1 .. b - 1 /\ log[ps[i]].kind \in {"text", "start"}
  /\ \A i, j \in DOMAIN ps : i < j => ps[i] < ps[j]
  /\ \A p \in a + 1 .. b - 1 : log[p].kind = "blank" \/ \E i \in DOMAIN ps : ps[i] = p

(* What the scanner holds is what lies between the START line it           *)
(* recognised and the line it looks at; outside a test it holds nothing.   *)
(* The state-0 branch that grades left-over lines (test_runner.py:45-47)   *)
(* therefore never has any lines to grade.                                 *)
CollectsItsSegment ==
  IF state = 0
  THEN data = <<>>
  ELSE /\ from \in 1 .. pos - 1
       /\ log[from].kind = "start"
       /\ log[from].test = test_name
       /\ outcome = "scanning" => ExactlyBetween(data, from, pos)

(* Every call of an oracle is on the lines from the START line with its    *)
(* name to the first END line after it: no line is lost, none is graded    *)
(* twice and none comes from before the START or after the END.            *)
GradedSegmentsExact ==
  \A g \in graded :
    /\ g.end \in 1 .. pos - 1 /\ g.from \in 1 .. g.end - 1
    /\ log[g.end].kind = "end"
    /\ log[g.from].kind = "start" /\ log[g.from].test = g.test
    /\ ExactlyBetween(g.data, g.from, g.end)

(* A test is graded at most once per END line, and the segments graded do  *)
(* not overlap.                                                            *)
SegmentsDisjoint ==
  \A g, h \in graded : g = h \/ g.end < h.from \/ h.end < g.from

(* The four properties above are inductive together with the fact that the *)
(* test being collected starts after everything graded so far.             *)
GradedIsPast == state = 1 => \A g \in graded : g.end < from

RunnerInv ==
  /\ TypeOK
  /\ CollectsItsSegment
  /\ GradedSegmentsExact
  /\ SegmentsDisjoint
  /\ GradedIsPast

=============================================================================
