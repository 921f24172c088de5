------------------------------ MODULE Console -------------------------------
(***************************************************************************)
(* Six programs of user/src/oscomp whose processes share the console, and  *)
(* what their oracles (fork_test.py and so on) make of it: fork, wait,     *)
(* waitpid, clone, yield and pipe.  A write() reaches the console in one   *)
(* piece; printf is one write() per literal and per number (lib/stdio.c).  *)
(***************************************************************************)
EXTENDS ProcTable, Sequences, SequencesExt, TLC

CONSTANTS
  CHILDREN, (* of yield.c: 3 in the source                                 *)
  ROUNDS,   (* lines each of them prints: 5 in the source                  *)
  DIGITS,   (* how often yield_test.py asks for each digit: 3              *)
  Programs  (* which of the programs run                                   *)

ASSUME ConsoleAssumption ==
  /\ {CHILDREN, ROUNDS, DIGITS} \subseteq Nat \ {0} /\ DIGITS <= ROUNDS
  /\ Programs \subseteq {"fork", "wait", "waitpid", "clone", "yield", "pipe"}

VARIABLES
  program, (* the program                                                  *)
  whole,   (* whether the kernel switches only between calls of printf     *)
  todo,    (* todo[p]: the calls process p makes next                      *)
  console, (* what has been printed                                        *)
  buffer,  (* what is in the pipe                                          *)
  writers, (* the processes that have the pipe's write end open            *)
  cpid,    (* what fork() returned to main()                               *)
  failed,  (* history: fork() or pipe() has failed                         *)
  marked   (* history: where on the console the marker is, or 0            *)

pipe == <<buffer, writers>>
vars == <<procVars, program, whole, todo, console, pipe, cpid, failed, marked>>

-----------------------------------------------------------------------------
(* Printing.  A piece of text is a token, and so is a line feed.           *)

NL == "\n"
Num(k) == IF k < 0 THEN "-N" ELSE ToString(k)

(* printint() prints the digits of a number, and those of 0 for 0 only.    *)
ASSUME NumAssumption ==
  /\ \A k \in Pid \cup 0 .. CHILDREN - 1 \cup {3} : Num(k) # NL
  /\ \A p \in Pid : Num(p) # Num(0)

Call(op, arg) == [op |-> op, arg |-> arg]

(* write(), with the tokens it prints; printf() of a literal, a number and *)
(* a literal, with the tokens of each.                                     *)
write(tokens) == <<Call("write", tokens)>>
printf(s, n, t) ==
  IF whole THEN write(s \o n \o t) ELSE write(s) \o write(n) \o write(t)

exit(c) == <<Call("exit", c)>>

(* Mutant: one wait() too few.                                             *)
waitLess(n) == [i \in 1 .. n - 1 |-> Call("wait", Pid)]

wait(n) == [i \in 1 .. n |-> Call("wait", Pid)]

(* TEST_END, TEST_PASS and TEST_FAIL, with which main() returns.           *)
Marker(word) ==
  <<Call("mark", <<word>>)>> \o write(<<program>>) \o write(<<"=", NL>>) \o exit(0)

(* assert() that fails: panic() prints and exits.                          *)
Panic == write(<<NL, "Assert Fatal", NL>>) \o exit(-100)

-----------------------------------------------------------------------------
(* The programs.  What main() does after a call depends on its result.     *)

main ==
  CASE program = "yield" ->
         [i \in 1 .. CHILDREN |-> Call("fork", i - 1)] \o wait(CHILDREN) \o Marker("END")
    [] program = "pipe"  -> <<Call("pipe", 0), Call("fork", 0)>>
    [] OTHER             -> <<Call("fork", 0)>>

Data == <<"  Write to pipe successfully.", NL>>

(* The i-th child, of process number c.                                    *)
Child(i, c) ==
  CASE program = "fork"    -> write(<<"  child process.", NL>>) \o exit(0)
    [] program = "wait"    -> write(<<"This is child process", NL>>) \o exit(0)
    [] program = "waitpid" -> write(<<"This is child process", NL>>) \o exit(3)
    [] program = "clone"   -> write(<<"  Child says successfully!", NL>>) \o exit(0)
    [] program = "yield"   ->
         LET line == printf(<<Num(c)>>, <<Num(i)>>, <<".", NL>>)
         IN  [k \in 1 .. Len(line) * ROUNDS |-> line[1 + ((k - 1) % Len(line))]] \o exit(0)
    [] program = "pipe"    ->
         printf(<<"cpid: ">>, <<Num(0)>>, <<NL>>)
         \o <<Call("put", Data), Call("close", c)>> \o exit(0)

(* main() after fork() has returned r. An error number other than -1 passes*)
(* assert(cpid != -1), and what is not positive takes the branch of the    *)
(* child in fork.c and pipe.c.                                             *)
AfterFork(r) ==
  CASE program = "yield"   -> <<>>
    [] program = "wait"    -> wait(1)
    [] program = "fork"    -> IF r = -1 THEN Panic ELSE IF r > 0 THEN wait(1) ELSE Child(0, Main)
    [] program = "clone"   -> IF r = -1 THEN Panic ELSE wait(1)
    [] program = "waitpid" -> IF r = -1 THEN Panic ELSE <<Call("wait", {r})>>
    [] program = "pipe"    ->
         printf(<<"cpid: ">>, <<Num(r)>>, <<NL>>) \o
         (IF r > 0
          THEN <<Call("close", Main), Call("copy", 0)>> \o write(<<NL>>) \o wait(1) \o Marker("PASS")
          ELSE <<Call("put", Data), Call("close", Main)>> \o exit(0))

(* main() after wait() or waitpid() has returned r.                        *)
AfterWait(r) ==
  CASE program = "fork" ->
         printf(<<"  parent process. wstatus:">>, <<Num(256 * WEXITSTATUS(r))>>, <<NL>>)
         \o Marker("END")
    [] program = "wait" ->
         IF r = -1 THEN Panic
         ELSE (IF r = cpid
               THEN printf(<<"wait child success.", NL, "wstatus: ">>,
                             <<Num(256 * WEXITSTATUS(r))>>, <<NL>>)
               ELSE write(<<"wait child error.", NL>>)) \o Marker("END")
    [] program = "waitpid" ->
         IF r = -1 THEN Panic
         ELSE (IF r = cpid /\ WEXITSTATUS(r) = 3
               THEN printf(<<"waitpid successfully.", NL, "wstatus: ">>,
                             <<Num(WEXITSTATUS(r))>>, <<NL>>)
               ELSE write(<<"waitpid error.", NL>>)) \o Marker("END")
    [] program = "clone" ->
         (IF r = cpid
          THEN printf(<<"clone process successfully.", NL, "pid:">>, <<Num(cpid)>>, <<NL>>)
          ELSE write(<<"clone process error.", NL>>)) \o Marker("END")
    [] program \in {"yield", "pipe"} -> <<>>

Init ==
  /\ ProcInit
  /\ program \in Programs
  /\ whole \in BOOLEAN
  /\ todo = [p \in Pid |-> IF p = Main THEN main ELSE <<>>]
  /\ console = <<>>
  /\ buffer = <<>> /\ writers = {}
  /\ cpid = NoPid
  /\ failed = FALSE
  /\ marked = 0

-----------------------------------------------------------------------------
(* The calls.                                                              *)

Calls(p, op) == todo[p] # <<>> /\ Head(todo[p]).op = op
Arg(p)       == Head(todo[p]).arg

Then(p, more) == todo' = [todo EXCEPT ![p] = Tail(@) \o more]

Write(p) ==
  /\ Calls(p, "write") \/ Calls(p, "mark")
  /\ console' = console \o Arg(p)
  /\ marked' = IF Calls(p, "mark") THEN Len(console') ELSE marked
  /\ Then(p, <<>>)
  /\ UNCHANGED <<procVars, program, whole, pipe, cpid, failed>>

(* The child has what its parent has open.                                 *)
ForkChild(p) ==
  /\ Calls(p, "fork")
  /\ \E c \in Pid :
       /\ Fork(p, c)
       /\ cpid' = c
       /\ todo' = [todo EXCEPT ![p] = Tail(@) \o AfterFork(c), ![c] = Child(Arg(p), c)]
       /\ writers' = IF p \in writers THEN writers \cup {c} ELSE writers
  /\ UNCHANGED <<program, whole, console, buffer, failed, marked>>

(* fork() and clone() return the error number of the kernel as it is.      *)
ForkError(p) ==
  /\ Calls(p, "fork")
  /\ failed' = TRUE
  /\ \E error \in {-1, -11} : cpid' = error /\ Then(p, AfterFork(error))
  /\ UNCHANGED <<procVars, program, whole, console, pipe, marked>>

(* Mutant: the parent does not wait for the child it has.                  *)
WaitNot(p) ==
  /\ Calls(p, "wait")
  /\ \E r \in IF cpid \in Pid THEN {cpid} ELSE Wait4(p, Arg(p), FALSE) : Then(p, AfterWait(r))
  /\ UNCHANGED <<procVars, program, whole, console, pipe, cpid, failed, marked>>

Wait(p) ==
  /\ Calls(p, "wait")
  /\ \E r \in Wait4(p, Arg(p), FALSE) : Reap(r) /\ Then(p, AfterWait(r))
  /\ UNCHANGED <<program, whole, console, pipe, cpid, failed, marked>>

ExitProcess(p) ==
  /\ Calls(p, "exit")
  /\ Exit(p, Arg(p))
  /\ todo' = [todo EXCEPT ![p] = <<>>]
  /\ writers' = writers \ {p}
  /\ UNCHANGED <<program, whole, console, buffer, cpid, failed, marked>>

Pipe(p) ==
  /\ Calls(p, "pipe")
  /\ \/ writers' = {p} /\ Then(p, <<>>) /\ UNCHANGED failed
     \/ /\ failed' = TRUE
        /\ todo' = [todo EXCEPT ![p] =
                      printf(<<"ERROR: pipe returned ">>, <<"-N">>, <<")", NL>>) \o Marker("FAIL")]
        /\ UNCHANGED writers
  /\ UNCHANGED <<procVars, program, whole, console, buffer, cpid, marked>>

Put(p) ==
  /\ Calls(p, "put")
  /\ buffer' = buffer \o Arg(p)
  /\ Then(p, <<>>)
  /\ UNCHANGED <<procVars, program, whole, console, writers, cpid, failed, marked>>

(* Mutant: the reader's own write end stays open.                          *)
CloseNothing(p) ==
  /\ Calls(p, "close")
  /\ Then(p, <<>>)
  /\ UNCHANGED <<procVars, program, whole, console, pipe, cpid, failed, marked>>

Close(p) ==
  /\ Calls(p, "close")
  /\ writers' = writers \ {p}
  /\ Then(p, <<>>)
  /\ UNCHANGED <<procVars, program, whole, console, buffer, cpid, failed, marked>>

(* while (read(fd[0], buf, 1) > 0) write(STDOUT, buf, 1): what is read is  *)
(* printed, and the loop ends when nobody can write any more.              *)
Copy(p) ==
  /\ Calls(p, "copy")
  /\ \/ /\ buffer # <<>>
        /\ console' = Append(console, Head(buffer))
        /\ buffer' = Tail(buffer)
        /\ UNCHANGED todo
     \/ buffer = <<>> /\ writers = {} /\ Then(p, <<>>) /\ UNCHANGED <<console, buffer>>
  /\ UNCHANGED <<procVars, program, whole, writers, cpid, failed, marked>>

Step(p) ==
  \/ Write(p) \/ ForkChild(p) \/ ForkError(p) \/ Wait(p) \/ ExitProcess(p)
  \/ Pipe(p) \/ Put(p) \/ Close(p) \/ Copy(p)

Next == \E p \in Pid : Step(p)

(* Every process that can run is scheduled.                                *)
Fairness == \A p \in Pid : WF_vars(Step(p))

Spec == Init /\ [][Next]_vars /\ Fairness

-----------------------------------------------------------------------------
(* The oracles.                                                            *)

(* Where the lines of a console begin that are not empty, and where the one*)
(* that begins at k ends.                                                  *)
LineStarts(tokens) == {k \in DOMAIN tokens : tokens[k] # NL /\ (k = 1 \/ tokens[k - 1] = NL)}

EndsLine(tokens, k, e) ==
  /\ \A i \in k .. e : tokens[i] # NL
  /\ e = Len(tokens) \/ tokens[e + 1] = NL

(* Lines(tokens): those lines.                                             *)
Lines(tokens) ==
  LET Line(k) == SubSeq(tokens, k, CHOOSE e \in k .. Len(tokens) : EndsLine(tokens, k, e))
      starts  == LineStarts(tokens)
  IN  [l \in 1 .. Cardinality(starts) |->
         Line(CHOOSE k \in starts : Cardinality({j \in starts : j < k}) = l - 1)]

(* What is between the START and the END line; a [PASS] line is a line.    *)
GradedLines ==
  Lines(IF marked > 0 /\ console[marked] = "END" THEN SubSeq(console, 1, marked - 1) ELSE console)

Numbers == {Num(k) : k \in Pid \cup {0}}

(* A pattern is found in a line: text, or text and a number.               *)
In(text, data)  == \E l \in DOMAIN data : text \in Range(data[l])
InN(text, data) ==
  \E l \in DOMAIN data : \E k \in 1 .. Len(data[l]) - 1 :
    data[l][k] = text /\ data[l][k + 1] \in Numbers

StartsWith(data, lines) == IsPrefix(lines, data)

(* A digit is counted wherever it is printed.                              *)
DigitCount(d, data) ==
  Cardinality(UNION {{<<l, k>> : k \in {j \in DOMAIN data[l] : data[l][j] = Num(d)}} :
                     l \in DOMAIN data})

(* The number behind "cpid: " is positive; digits may have met.            *)
PositiveCpid(line) ==
  \E k, m \in DOMAIN line :
    /\ k < m /\ line[k] = "cpid: " /\ line[m] \in Numbers \ {Num(0)}
    /\ \A j \in k + 1 .. m - 1 : line[j] \in Numbers

(* Mutant: yield_test.py does not count the lines.                         *)
FullMarksUncounted(data) ==
  /\ program = "yield"
  /\ \A d \in 0 .. CHILDREN - 1 : DigitCount(d, data) >= DIGITS

(* All asserts of the program's oracle hold.                               *)
FullMarks(data) ==
  CASE program = "fork"    -> /\ Len(data) >= 2
                              /\ InN("  parent process. wstatus:", data)
                              /\ In("  child process.", data)
    [] program = "wait"    -> StartsWith(data, <<<<"This is child process">>,
                                <<"wait child success.">>, <<"wstatus: ", Num(0)>>>>)
    [] program = "waitpid" -> StartsWith(data, <<<<"This is child process">>,
                                <<"waitpid successfully.">>, <<"wstatus: ", Num(3)>>>>)
    [] program = "clone"   -> /\ Len(data) >= 3
                              /\ In("  Child says successfully!", data)
                              /\ InN("pid:", data)
                              /\ In("clone process successfully.", data)
    [] program = "yield"   -> /\ Len(data) = CHILDREN * ROUNDS
                              /\ \A d \in 0 .. CHILDREN - 1 : DigitCount(d, data) >= DIGITS
    [] program = "pipe"    -> /\ Len(data) >= 3
                              /\ \E l \in 1 .. 3 : data[l] = <<"cpid: ", Num(0)>>
                              /\ \E l \in 1 .. 3 : PositiveCpid(data[l])
                              /\ data[3] = <<"  Write to pipe successfully.">>

-----------------------------------------------------------------------------

Ended == \A p \in Pid : status[p] = "free" /\ todo[p] = <<>>

(* On every schedule of parent and children the oracle gives full marks,   *)
(* if no call fails, although literals and numbers of different processes  *)
(* mix: a parent prints after its children, and yield_test.py counts lines *)
(* and digits only. pipe.c needs a kernel that keeps the three writes of a *)
(* line together (stdio.c:74-130 with fork.c, wait.c, waitpid.c, clone.c,  *)
(* yield.c, pipe.c and their oracles).                                     *)
MarksOnEverySchedule ==
  Ended /\ ~failed /\ (program = "pipe" => whole) => FullMarks(GradedLines)

(* The oracle notices that fork(), clone() or pipe() has failed, although  *)
(* asserts compare with -1 only, and exit statuses and the START line say  *)
(* nothing (fork.c:18, clone.c:19, waitpid.c:11).                          *)
FailureCostsMarks == Ended /\ failed => ~FullMarks(GradedLines)

(* Nothing a child prints comes after the marker of its program: it would  *)
(* be graded as output of the next one (yield.c:23-26, pipe.c:43).         *)
MarkerIsLast ==
  marked > 0 =>
    IsPrefix(SubSeq(console, marked + 1, Len(console)), <<program, "=", NL>>)

(* pipe_test.py:13-23 asks for both "cpid: " lines and the text below them *)
(* of every run of pipe.c.                                                 *)
PipeIsGraded == Ended /\ ~failed /\ program = "pipe" => FullMarks(GradedLines)

=============================================================================
