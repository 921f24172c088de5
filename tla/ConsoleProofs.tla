---------------------------- MODULE ConsoleProofs ---------------------------
(***************************************************************************)
(* The oracles' verdict on the six programs of Console, for every process  *)
(* table, every number of children and rounds and every schedule.          *)
(***************************************************************************)
EXTENDS Console, SequenceTheorems, FiniteSetTheorems, WellFoundedInduction, TLAPS

(* What is printed are texts, line feeds and numbers.                      *)
Texts ==
  {"  child process.", "This is child process", "  Child says successfully!",
   "  parent process. wstatus:", "wait child success.", "wait child error.", "wstatus: ",
   "waitpid successfully.", "waitpid error.", "clone process successfully.", "pid:",
   "clone process error.", "Assert Fatal", ".", "cpid: ", "  Write to pipe successfully.",
   "ERROR: pipe returned ", "-N", ")", "END", "PASS", "FAIL", "="}

Tokens == Texts \cup {NL} \cup Programs \cup {Num(k) : k \in Int}

CallSet ==
  [op : {"write", "mark", "put"}, arg : Seq(Tokens)]
  \cup [op : {"fork", "exit", "close", "copy", "pipe"}, arg : Int]
  \cup [op : {"wait"}, arg : SUBSET Int]

-----------------------------------------------------------------------------
(* Sequences, and what a sequence of calls prints.                         *)

(* Putting sequences together.                                             *)
LEMMA Joined ==
  ASSUME NEW T, NEW s \in Seq(T), NEW t \in Seq(T)
  PROVE  /\ s \o t \in Seq(T) /\ Len(s \o t) = Len(s) + Len(t)
         /\ \A i \in 1 .. Len(s) : (s \o t)[i] = s[i]
         /\ \A i \in 1 .. Len(t) : (s \o t)[Len(s) + i] = t[i]
         /\ <<>> \o s = s /\ s \o <<>> = s
OBVIOUS

(* Joining is associative.                                                 *)
LEMMA JoinedThree == \A s, t, u \in Seq(Tokens) : (s \o t) \o u = s \o (t \o u)
<1> SUFFICES ASSUME NEW s \in Seq(Tokens), NEW t \in Seq(Tokens), NEW u \in Seq(Tokens)
             PROVE  (s \o t) \o u = s \o (t \o u)
  OBVIOUS
<1>. QED OBVIOUS

(* Putting tuples together.                                                *)
LEMMA Tuples ==
  /\ \A a, b : <<a>> \o <<b>> = <<a, b>>
  /\ \A a, b, c : <<a, b>> \o <<c>> = <<a, b, c>>
  /\ \A a, b, c, d : <<a, b, c>> \o <<d>> = <<a, b, c, d>>
  /\ \A a, b, c, d, e : <<a, b, c, d>> \o <<e>> = <<a, b, c, d, e>>
  /\ \A a, b, c, d : <<a, b>> \o <<c, d>> = <<a, b, c, d>>
  /\ \A a, b, c : <<a>> \o <<b, c>> = <<a, b, c>>
  /\ \A a, b, c, d : <<a>> \o <<b, c, d>> = <<a, b, c, d>>
<1>11. ASSUME NEW a, NEW b
      PROVE  <<a>> \o <<b>> = <<a, b>>
  <2> DEFINE T == {a, b}
             s == <<a>> \o <<b>>
             t == <<a, b>>
  <2>1. s \in Seq(T) /\ Len(s) = 2 /\ s[1] = a /\ s[2] = b
    OBVIOUS
  <2>2. t \in Seq(T) /\ Len(t) = 2 /\ t[1] = a /\ t[2] = b
    OBVIOUS
  <2> HIDE DEF T, s, t
  <2>3. s = t
    <3>1. \A n \in 1 .. 2 : s[n] = t[n]
      BY <2>1, <2>2
    <3>. QED BY <2>1, <2>2, <3>1, SeqEqual
  <2>. QED BY <2>3 DEF s, t
<1>21. ASSUME NEW a, NEW b, NEW c
      PROVE  <<a, b>> \o <<c>> = <<a, b, c>>
  <2> DEFINE T == {a, b, c}
             s == <<a, b>> \o <<c>>
             t == <<a, b, c>>
  <2>1. s \in Seq(T) /\ Len(s) = 3 /\ s[1] = a /\ s[2] = b /\ s[3] = c
    OBVIOUS
  <2>2. t \in Seq(T) /\ Len(t) = 3 /\ t[1] = a /\ t[2] = b /\ t[3] = c
    OBVIOUS
  <2> HIDE DEF T, s, t
  <2>3. s = t
    <3>1. \A n \in 1 .. 3 : s[n] = t[n]
      BY <2>1, <2>2
    <3>. QED BY <2>1, <2>2, <3>1, SeqEqual
  <2>. QED BY <2>3 DEF s, t
<1>31. ASSUME NEW a, NEW b, NEW c, NEW d
      PROVE  <<a, b, c>> \o <<d>> = <<a, b, c, d>>
  <2> DEFINE T == {a, b, c, d}
             s == <<a, b, c>> \o <<d>>
             t == <<a, b, c, d>>
  <2>1. s \in Seq(T) /\ Len(s) = 4 /\ s[1] = a /\ s[2] = b /\ s[3] = c /\ s[4] = d
    OBVIOUS
  <2>2. t \in Seq(T) /\ Len(t) = 4 /\ t[1] = a /\ t[2] = b /\ t[3] = c /\ t[4] = d
    OBVIOUS
  <2> HIDE DEF T, s, t
  <2>3. s = t
    <3>1. \A n \in 1 .. 4 : s[n] = t[n]
      BY <2>1, <2>2
    <3>. QED BY <2>1, <2>2, <3>1, SeqEqual
  <2>. QED BY <2>3 DEF s, t
<1>41. ASSUME NEW a, NEW b, NEW c, NEW d, NEW e
      PROVE  <<a, b, c, d>> \o <<e>> = <<a, b, c, d, e>>
  <2> DEFINE T == {a, b, c, d, e}
             s == <<a, b, c, d>> \o <<e>>
             t == <<a, b, c, d, e>>
  <2>1. s \in Seq(T) /\ Len(s) = 5 /\ s[1] = a /\ s[2] = b /\ s[3] = c /\ s[4] = d /\ s[5] = e
    OBVIOUS
  <2>2. t \in Seq(T) /\ Len(t) = 5 /\ t[1] = a /\ t[2] = b /\ t[3] = c /\ t[4] = d /\ t[5] = e
    OBVIOUS
  <2> HIDE DEF T, s, t
  <2>3. s = t
    <3>1. \A n \in 1 .. 5 : s[n] = t[n]
      BY <2>1, <2>2
    <3>. QED BY <2>1, <2>2, <3>1, SeqEqual
  <2>. QED BY <2>3 DEF s, t
<1>22. ASSUME NEW a, NEW b, NEW c, NEW d
      PROVE  <<a, b>> \o <<c, d>> = <<a, b, c, d>>
  <2> DEFINE T == {a, b, c, d}
             s == <<a, b>> \o <<c, d>>
             t == <<a, b, c, d>>
  <2>1. s \in Seq(T) /\ Len(s) = 4 /\ s[1] = a /\ s[2] = b /\ s[3] = c /\ s[4] = d
    OBVIOUS
  <2>2. t \in Seq(T) /\ Len(t) = 4 /\ t[1] = a /\ t[2] = b /\ t[3] = c /\ t[4] = d
    OBVIOUS
  <2> HIDE DEF T, s, t
  <2>3. s = t
    <3>1. \A n \in 1 .. 4 : s[n] = t[n]
      BY <2>1, <2>2
    <3>. QED BY <2>1, <2>2, <3>1, SeqEqual
  <2>. QED BY <2>3 DEF s, t
<1>12. ASSUME NEW a, NEW b, NEW c
      PROVE  <<a>> \o <<b, c>> = <<a, b, c>>
  <2> DEFINE T == {a, b, c}
             s == <<a>> \o <<b, c>>
             t == <<a, b, c>>
  <2>1. s \in Seq(T) /\ Len(s) = 3 /\ s[1] = a /\ s[2] = b /\ s[3] = c
    OBVIOUS
  <2>2. t \in Seq(T) /\ Len(t) = 3 /\ t[1] = a /\ t[2] = b /\ t[3] = c
    OBVIOUS
  <2> HIDE DEF T, s, t
  <2>3. s = t
    <3>1. \A n \in 1 .. 3 : s[n] = t[n]
      BY <2>1, <2>2
    <3>. QED BY <2>1, <2>2, <3>1, SeqEqual
  <2>. QED BY <2>3 DEF s, t
<1>13. ASSUME NEW a, NEW b, NEW c, NEW d
      PROVE  <<a>> \o <<b, c, d>> = <<a, b, c, d>>
  <2> DEFINE T == {a, b, c, d}
             s == <<a>> \o <<b, c, d>>
             t == <<a, b, c, d>>
  <2>1. s \in Seq(T) /\ Len(s) = 4 /\ s[1] = a /\ s[2] = b /\ s[3] = c /\ s[4] = d
    OBVIOUS
  <2>2. t \in Seq(T) /\ Len(t) = 4 /\ t[1] = a /\ t[2] = b /\ t[3] = c /\ t[4] = d
    OBVIOUS
  <2> HIDE DEF T, s, t
  <2>3. s = t
    <3>1. \A n \in 1 .. 4 : s[n] = t[n]
      BY <2>1, <2>2
    <3>. QED BY <2>1, <2>2, <3>1, SeqEqual
  <2>. QED BY <2>3 DEF s, t
<1>. QED BY <1>11, <1>21, <1>31, <1>41, <1>22, <1>12, <1>13, Zenon

(* What printf() prints.                                                   *)
LEMMA TuplesOne == \A a, b, c : <<a>> \o <<b>> \o <<c>> = <<a, b, c>>
<1> SUFFICES ASSUME NEW a, NEW b, NEW c PROVE <<a>> \o <<b>> \o <<c>> = <<a, b, c>>
  OBVIOUS
<1>1. <<a>> \o <<b>> = <<a, b>>
  BY Tuples
<1>2. <<a, b>> \o <<c>> = <<a, b, c>>
  BY Tuples
<1>. QED BY <1>1, <1>2, Zenon

(* Three tuples put together.                                              *)
LEMMA TuplesThree == \A a, b, c, d, e : <<a, b, c>> \o <<d>> \o <<e>> = <<a, b, c, d, e>>
<1> SUFFICES ASSUME NEW a, NEW b, NEW c, NEW d, NEW e
             PROVE  <<a, b, c>> \o <<d>> \o <<e>> = <<a, b, c, d, e>>
  OBVIOUS
<1>1. <<a, b, c>> \o <<d>> = <<a, b, c, d>>
  BY Tuples
<1>2. <<a, b, c, d>> \o <<e>> = <<a, b, c, d, e>>
  BY Tuples
<1>. QED BY <1>1, <1>2, Zenon

(* Short tuples are sequences.                                             *)
LEMMA TupleTypes ==
  ASSUME NEW T
  PROVE  /\ \A a \in T : <<a>> \in Seq(T)
         /\ \A a, b \in T : <<a, b>> \in Seq(T)
         /\ \A a, b, c \in T : <<a, b, c>> \in Seq(T)
         /\ \A a, b, c, d \in T : <<a, b, c, d>> \in Seq(T)
         /\ \A a, b, c, d, e \in T : <<a, b, c, d, e>> \in Seq(T)
OBVIOUS

(* The first call of two programs is that of the first, if it has one.     *)
LEMMA HeadJoined ==
  ASSUME NEW T, NEW s \in Seq(T), NEW t \in Seq(T), s # <<>>
  PROVE  /\ s \o t # <<>> /\ Head(s \o t) = Head(s) /\ Tail(s \o t) = Tail(s) \o t
         /\ Head(s) \in T /\ Tail(s) \in Seq(T)
<1>1. /\ Len(s) \in Nat /\ Len(s) # 0 /\ Len(s \o t) = Len(s) + Len(t) /\ Len(t) \in Nat
      /\ s \o t \in Seq(T)
  OBVIOUS
<1>2. s \o t # <<>> /\ Head(s) = s[1] /\ Head(s \o t) = (s \o t)[1] /\ (s \o t)[1] = s[1]
  BY <1>1
<1>3. /\ Tail(s) \in Seq(T) /\ Len(Tail(s)) = Len(s) - 1
      /\ \A i \in 1 .. Len(s) - 1 : Tail(s)[i] = s[i + 1]
  BY <1>1
<1>4. /\ Tail(s \o t) \in Seq(T) /\ Len(Tail(s \o t)) = Len(s) + Len(t) - 1
      /\ \A i \in 1 .. Len(s) + Len(t) - 1 : Tail(s \o t)[i] = (s \o t)[i + 1]
  BY <1>1, <1>2
<1>5. /\ Tail(s) \o t \in Seq(T) /\ Len(Tail(s) \o t) = Len(s) - 1 + Len(t)
      /\ \A i \in 1 .. Len(s) - 1 : (Tail(s) \o t)[i] = Tail(s)[i]
      /\ \A i \in 1 .. Len(t) : (Tail(s) \o t)[Len(s) - 1 + i] = t[i]
  BY <1>1, <1>3
<1>6. ASSUME NEW i \in 1 .. Len(s) + Len(t) - 1
      PROVE  Tail(s \o t)[i] = (Tail(s) \o t)[i]
  <2>1. CASE i <= Len(s) - 1
    <3>1. i + 1 \in 1 .. Len(s) /\ i \in 1 .. Len(s) - 1
      BY <1>1, <2>1
    <3>. QED BY <1>3, <1>4, <1>5, <3>1
  <2>2. CASE i > Len(s) - 1
    <3>1. PICK j \in 1 .. Len(t) : Len(s) - 1 + j = i /\ Len(s) + j = i + 1
      <4>1. PICK l \in Nat, m \in Nat : l = Len(s) /\ m = Len(t)
        OBVIOUS
      <4>2. i \in Int /\ i <= l + m - 1 /\ i > l - 1
        BY <2>2, <4>1
      <4>3. i - (l - 1) \in 1 .. m /\ l - 1 + (i - (l - 1)) = i /\ l + (i - (l - 1)) = i + 1
        BY <4>1, <4>2
      <4>. QED BY <4>1, <4>3
    <3>2. (s \o t)[Len(s) + j] = t[j]
      OBVIOUS
    <3>. QED BY <1>4, <1>5, <3>1, <3>2
  <2>. QED BY <1>1, <2>1, <2>2
<1>7. Tail(s \o t) = Tail(s) \o t
  BY <1>1, <1>4, <1>5, <1>6, SeqEqual
<1>8. Head(s) \in T
  BY <1>1, <1>2
<1>. QED BY <1>2, <1>3, <1>7, <1>8

Printed(c) == IF c.op \in {"write", "mark"} THEN c.arg ELSE <<>>

(* The calls of s print out: rem[n] is what is left of it after n of them. *)
Gives(s, out) ==
  \E rem \in [0 .. Len(s) -> Seq(Tokens)] :
    /\ rem[0] = out /\ rem[Len(s)] = <<>>
    /\ \A n \in 1 .. Len(s) : rem[n - 1] = Printed(s[n]) \o rem[n]


-----------------------------------------------------------------------------
(* The invariant.  Each program runs through a few stages; in each of them *)
(* the invariant says what the processes still call, and what is on the    *)
(* console once they have made the calls that print.                       *)

TypesOK ==
  /\ ProcTypeOK
  /\ program \in Programs /\ whole \in BOOLEAN
  /\ todo \in [Pid -> Seq(CallSet)]
  /\ console \in Seq(Tokens) /\ buffer \in Seq(Tokens) /\ writers \subseteq Pid
  /\ cpid \in Int /\ failed \in BOOLEAN /\ marked \in Nat

(* Main is nobody's child, every child is its child, and it is there until *)
(* it has nothing to call.                                                 *)
Family ==
  /\ parent[Main] = NoPid /\ \A p \in Pid : parent[p] \in {NoPid, Main}
  /\ status[Main] = IF todo[Main] = <<>> THEN "free" ELSE "live"

Unused(p)   == status[p] = "free" /\ todo[p] = <<>>
Alone       == \A p \in Pid \ {Main} : Unused(p)
OneChild(c) ==
  /\ c \in Pid \ {Main} /\ parent[c] = Main
  /\ \A p \in Pid \ {Main, c} : Unused(p)

Quiet(q) == \A n \in 1 .. Len(q) : q[n].op \in {"write", "put", "close"}

(* Process p makes quiet calls, which complete the console to text, and    *)
(* then those of after.                                                    *)
Prints(p, text, after) ==
  \E q \in Seq(CallSet), rest \in Seq(Tokens) :
    /\ Quiet(q) /\ Gives(q, rest)
    /\ todo[p] = q \o after /\ console \o rest = text

(* It prints and exits, or has done so.                                    *)
PrintsAndExits(p, text, x) ==
  \/ Prints(p, text, exit(x))
  \/ todo[p] = <<>> /\ console = text

(* main() completes the console to text and prints the marker of word.     *)
AfterMark(text, word) ==
  /\ marked = Len(text) + 1
  /\ \/ /\ todo[Main] = <<Call("write", <<program>>), Call("write", <<"=", NL>>), Call("exit", 0)>>
        /\ console = text \o <<word>>
     \/ /\ todo[Main] = <<Call("write", <<"=", NL>>), Call("exit", 0)>>
        /\ console = text \o <<word, program>>
     \/ /\ todo[Main] \in {<<Call("exit", 0)>>, <<>>}
        /\ console = text \o <<word, program, "=", NL>>

Reports(text, word) ==
  \/ marked = 0 /\ Prints(Main, text, Marker(word))
  \/ AfterMark(text, word)

-----------------------------------------------------------------------------
(* fork, wait, waitpid and clone: main() waits for one child.              *)

Simple == {"fork", "wait", "waitpid", "clone"}

ChildText ==
  CASE program = "fork"  -> <<"  child process.", NL>>
    [] program = "clone" -> <<"  Child says successfully!", NL>>
    [] OTHER             -> <<"This is child process", NL>>

ChildCode == IF program = "waitpid" THEN 3 ELSE 0

(* What main() prints about its child c.                                   *)
ParentText(c) ==
  CASE program = "fork"    -> <<"  parent process. wstatus:", Num(0), NL>>
    [] program = "wait"    -> <<"wait child success.", NL, "wstatus: ", Num(0), NL>>
    [] program = "waitpid" -> <<"waitpid successfully.", NL, "wstatus: ", Num(3), NL>>
    [] program = "clone"   -> <<"clone process successfully.", NL, "pid:", Num(c), NL>>

PanicText == <<NL, "Assert Fatal", NL>>

Waits(who) == todo[Main] = <<Call("wait", who)>>

Beginning ==
  Alone /\ ~failed /\ marked = 0 /\ console = <<>> /\ todo[Main] = <<Call("fork", 0)>>

Waiting ==
  /\ ~failed /\ marked = 0
  /\ \E c \in Pid :
       /\ OneChild(c) /\ cpid = c
       /\ Waits(Pid) \/ Waits({c})
       /\ \/ status[c] = "live" /\ Prints(c, ChildText, exit(ChildCode))
          \/ /\ status[c] = "zombie" /\ code[c] = ChildCode
             /\ todo[c] = <<>> /\ console = ChildText

Reporting == Alone /\ ~failed /\ cpid \in Pid /\ Reports(ChildText \o ParentText(cpid), "END")

(* fork() has failed: a panic, the branch of the child in main() (fork.c), *)
(* a wait() that fails as well, or a marker all the same (clone.c).        *)
Failing ==
  /\ Alone /\ failed
  /\ \/ marked = 0 /\ PrintsAndExits(Main, PanicText, -100)
     \/ marked = 0 /\ program = "fork" /\ PrintsAndExits(Main, ChildText, 0)
     \/ /\ marked = 0 /\ program # "fork" /\ console = <<>>
        /\ program = "clone" => cpid = -11
        /\ \E who \in SUBSET Int : Waits(who)
     \/ program = "clone" /\ Reports(<<"clone process error.", NL>>, "END")

SimpleInv == Beginning \/ Waiting \/ Reporting \/ Failing

-----------------------------------------------------------------------------
(* pipe: main() reads what its child writes.                               *)

ErrorText    == <<"ERROR: pipe returned ", "-N", ")", NL>>
ForklessText == <<"cpid: ", "-N", NL>>

Opening ==
  /\ Alone /\ ~failed /\ marked = 0 /\ console = <<>> /\ buffer = <<>>
  /\ \/ writers = {} /\ todo[Main] = <<Call("pipe", 0), Call("fork", 0)>>
     \/ writers = {Main} /\ todo[Main] = <<Call("fork", 0)>>

PipeFailing ==
  /\ Alone /\ failed
  /\ \/ Reports(ErrorText, "FAIL")
     \/ marked = 0 /\ PrintsAndExits(Main, ForklessText, 0)

Awaits(p, after) == \E q \in Seq(CallSet) : Quiet(q) /\ todo[p] = q \o after

(* What main() calls from its m-th call on, and the child c from its n-th, *)
(* if the kernel keeps the writes of a line together.                      *)
CpidText(k) == <<"cpid: ", Num(k), NL>>

WaitAndPass == wait(1) \o Marker("PASS")
CopyAndPass == <<Call("copy", 0)>> \o (write(<<NL>>) \o WaitAndPass)

MainRest(c, m) ==
  CASE m = 1 -> write(CpidText(c)) \o (<<Call("close", Main)>> \o CopyAndPass)
    [] m = 2 -> <<Call("close", Main)>> \o CopyAndPass
    [] m = 3 -> CopyAndPass
    [] m = 4 -> write(<<NL>>) \o WaitAndPass
    [] m = 5 -> WaitAndPass

ChildRest(c, n) ==
  CASE n = 1 -> write(CpidText(0)) \o (<<Call("put", Data)>> \o (<<Call("close", c)>> \o exit(0)))
    [] n = 2 -> <<Call("put", Data)>> \o (<<Call("close", c)>> \o exit(0))
    [] n = 3 -> <<Call("close", c)>> \o exit(0)
    [] n = 4 -> exit(0)
    [] n = 5 -> <<>>

(* Their first lines come in either order.                                 *)
Intros(c, n, m) ==
  CASE n = 1 /\ m = 1 -> {<<>>}
    [] n = 1 /\ m > 1 -> {CpidText(c)}
    [] n > 1 /\ m = 1 -> {CpidText(0)}
    [] n > 1 /\ m > 1 -> {CpidText(0) \o CpidText(c), CpidText(c) \o CpidText(0)}

(* main() has copied part of what the child has put into the pipe.         *)
InOrder(c) ==
  \E n, m \in 1 .. 5 :
    /\ todo[c] = ChildRest(c, n) /\ todo[Main] = MainRest(c, m)
    /\ n <= 3 => c \in writers
    /\ m >= 4 => n >= 4 /\ buffer = <<>>
    /\ \E intro \in Intros(c, n, m), part \in Seq(Tokens) :
         /\ part \o buffer = IF n >= 3 THEN Data ELSE <<>>
         /\ m = 1 => part = <<>>
         /\ console = IF m = 5 THEN (intro \o part) \o <<NL>> ELSE intro \o part

PipeTexts(c) == {(intro \o Data) \o <<NL>> : intro \in Intros(c, 5, 5)}

Sharing ==
  /\ ~failed /\ marked = 0
  /\ \E c \in Pid :
       /\ OneChild(c) /\ cpid = c
       /\ \/ status[c] = "live" /\ Awaits(c, exit(0))
          \/ status[c] = "zombie" /\ todo[c] = <<>>
       /\ Awaits(Main, CopyAndPass) \/ Awaits(Main, WaitAndPass)
       /\ whole => InOrder(c)

Passing ==
  /\ Alone /\ ~failed /\ cpid \in Pid
  /\ \E text \in Seq(Tokens) : Reports(text, "PASS") /\ (whole => text \in PipeTexts(cpid))

PipeInv == Opening \/ PipeFailing \/ Sharing \/ Passing

-----------------------------------------------------------------------------
(* yield: CHILDREN children print ROUNDS lines each.                       *)

Ids     == 0 .. CHILDREN - 1
Pieces  == IF whole THEN 1 ELSE 3

(* What the i-th child c still calls after s pieces of its line r + 1.     *)
Left(i, c, r, s) == SubSeq(Child(i, c), Pieces * r + s + 1, Pieces * ROUNDS + 1)

(* Of main() after its first k calls.                                      *)
MainLeft(k) == SubSeq(main, k + 1, 2 * CHILDREN + 4)

Complete(r) == {line \in Ids \X (1 .. ROUNDS) : line[2] <= r[line[1]]}

Places(text, token) == {x \in DOMAIN text : text[x] = token}

LastIsNL(text) == text = <<>> \/ text[Len(text)] = NL

(* What the children have printed after r[i] lines and s[i] pieces: as many*)
(* lines, one more in the making, and the number of each of them as often. *)
Tally(text, r, s) ==
  /\ Cardinality(LineStarts(text)) = Cardinality(Complete(r)) + (IF LastIsNL(text) THEN 0 ELSE 1)
  /\ LastIsNL(text) \/ \E i \in Ids : s[i] # 0
  /\ \A i \in Ids : Cardinality(Places(text, Num(i))) >= r[i] + (IF s[i] = 2 THEN 1 ELSE 0)

(* The i-th child is c, if c is not NoPid: before it is there, until it has*)
(* been waited for, and afterwards, if fork() has not failed.              *)
KidOK(i, k, c, r, s) ==
  /\ s < Pieces /\ (r = ROUNDS => s = 0)
  /\ i >= k => c = NoPid /\ r = 0
  /\ c = NoPid => s = 0 /\ r \in {0, ROUNDS} /\ (~failed /\ i < k => r = ROUNDS)
  /\ c # NoPid =>
       /\ c # Main /\ parent[c] = Main
       /\ \/ status[c] = "live" /\ todo[c] = Left(i, c, r, s)
          \/ status[c] = "zombie" /\ todo[c] = <<>> /\ r = ROUNDS

There(kid) == {i \in Ids : kid[i] # NoPid}

(* main() has made k calls.                                                *)
KidsOK(k, kid, r, s) ==
  /\ \A i, j \in Ids : kid[i] = kid[j] /\ kid[i] # NoPid => i = j
  /\ \A p \in Pid \ {Main} : Unused(p) \/ \E i \in Ids : kid[i] = p
  /\ \A i \in Ids : KidOK(i, k, kid[i], r[i], s[i])
  /\ failed => \E i \in Ids : i < k /\ kid[i] = NoPid /\ r[i] = 0

YieldingAt(k, kid, r, s) ==
  /\ todo[Main] = MainLeft(k)
  /\ k >= CHILDREN => Cardinality(There(kid)) <= 2 * CHILDREN - k
  /\ KidsOK(k, kid, r, s)
  /\ Tally(console, r, s)

Yielding ==
  /\ marked = 0
  /\ \E k \in 0 .. 2 * CHILDREN, kid \in [Ids -> Pid \cup {NoPid}],
        r \in [Ids -> 0 .. ROUNDS], s \in [Ids -> 0 .. 2] : YieldingAt(k, kid, r, s)

(* All have ended.                                                         *)
YieldText(text) ==
  \E r \in [Ids -> {0, ROUNDS}] :
    /\ Tally(text, r, [i \in Ids |-> 0])
    /\ failed <=> \E i \in Ids : r[i] = 0

Yielded == Alone /\ \E text \in Seq(Tokens) : Reports(text, "END") /\ YieldText(text)

YieldInv == Yielding \/ Yielded

-----------------------------------------------------------------------------

ConsoleInv ==
  /\ TypesOK /\ Family
  /\ program \in Simple => SimpleInv
  /\ program = "pipe" => PipeInv
  /\ program = "yield" => YieldInv

(* No calls print nothing.                                                 *)
LEMMA GivesNone == Gives(<<>>, <<>>)
<1> DEFINE rem == [n \in 0 .. 0 |-> <<>>]
<1>1. Len(<<>>) = 0
  OBVIOUS
<1>2. rem \in [0 .. 0 -> Seq(Tokens)] /\ rem[0] = <<>>
  OBVIOUS
<1> HIDE DEF rem
<1>. QED BY <1>1, <1>2 DEF Gives

(* What a call prints is text.                                             *)
LEMMA PrintedType == \A c \in CallSet : Printed(c) \in Seq(Tokens)
BY DEF CallSet, Printed

(* One call gives what it prints.                                          *)
LEMMA GivesOne ==
  ASSUME NEW c \in CallSet
  PROVE  Gives(<<c>>, Printed(c))
<1>1. PICK o \in Seq(Tokens) : o = Printed(c)
  BY PrintedType
<1> DEFINE rem == [n \in 0 .. 1 |-> IF n = 0 THEN o ELSE <<>>]
<1>2. Len(<<c>>) = 1 /\ <<c>>[1] = c
  OBVIOUS
<1>3. rem \in [0 .. 1 -> Seq(Tokens)] /\ rem[0] = o /\ rem[1] = <<>>
  OBVIOUS
<1>4. o \o <<>> = o
  BY Joined
<1> HIDE DEF rem
<1>5. \A n \in 1 .. 1 : rem[n - 1] = Printed(<<c>>[n]) \o rem[n]
  <2>1. \A n \in 1 .. 1 : n = 1 /\ n - 1 = 0
    OBVIOUS
  <2>. QED BY <1>1, <1>2, <1>3, <1>4, <2>1
<1>. QED BY <1>1, <1>2, <1>3, <1>5 DEF Gives

(* What calls give is text, and nothing if there are none.                 *)
LEMMA GivesType ==
  ASSUME NEW s \in Seq(CallSet), NEW out, Gives(s, out)
  PROVE  out \in Seq(Tokens) /\ (s = <<>> => out = <<>>)
<1>1. PICK rem \in [0 .. Len(s) -> Seq(Tokens)] : rem[0] = out /\ rem[Len(s)] = <<>>
  BY DEF Gives
<1>2. 0 \in 0 .. Len(s) /\ (s = <<>> => Len(s) = 0)
  OBVIOUS
<1>. QED BY <1>1, <1>2

(* Without calls there is no other text they could give.                   *)
LEMMA GivesNothing == \A out : Gives(<<>>, out) => out = <<>>
<1> SUFFICES ASSUME NEW out, Gives(<<>>, out) PROVE out = <<>>
  OBVIOUS
<1>1. Len(<<>>) = 0
  OBVIOUS
<1>2. PICK rem : rem[0] = out /\ rem[Len(<<>>)] = <<>>
  BY DEF Gives
<1>. QED BY <1>1, <1>2, Zenon

(* Calls after calls give their texts one after the other.                 *)
LEMMA GivesBoth ==
  ASSUME NEW s \in Seq(CallSet), NEW t \in Seq(CallSet), NEW a, NEW b, Gives(s, a), Gives(t, b)
  PROVE  Gives(s \o t, a \o b)
<1>1. PICK l, m \in Nat : l = Len(s) /\ m = Len(t)
  OBVIOUS
<1>2. PICK r \in [0 .. l -> Seq(Tokens)] :
        /\ r[0] = a /\ r[l] = <<>> /\ \A n \in 1 .. l : r[n - 1] = Printed(s[n]) \o r[n]
  BY <1>1 DEF Gives
<1>3. PICK q \in [0 .. m -> Seq(Tokens)] :
        /\ q[0] = b /\ q[m] = <<>> /\ \A n \in 1 .. m : q[n - 1] = Printed(t[n]) \o q[n]
  BY <1>1 DEF Gives
<1>4. b \in Seq(Tokens)
  BY GivesType
<1> DEFINE rem == [n \in 0 .. l + m |-> IF n <= l THEN r[n] \o b ELSE q[n - l]]
<1>5. ASSUME NEW n \in 0 .. l + m
      PROVE  /\ rem[n] \in Seq(Tokens)
             /\ n <= l => n \in 0 .. l /\ rem[n] = r[n] \o b /\ r[n] \in Seq(Tokens)
             /\ n > l => n - l \in 0 .. m /\ rem[n] = q[n - l]
  <2>1. CASE n <= l
    <3>1. n \in 0 .. l /\ ~(n > l)
      BY <1>1, <2>1
    <3>2. r[n] \in Seq(Tokens)
      BY <1>2, <3>1
    <3>3. r[n] \o b \in Seq(Tokens)
      BY <1>4, <3>2
    <3>. QED BY <2>1, <3>1, <3>2, <3>3
  <2>2. CASE n > l
    <3>1. n - l \in 0 .. m /\ ~(n <= l)
      BY <1>1, <2>2
    <3>2. q[n - l] \in Seq(Tokens)
      BY <1>3, <3>1
    <3>. QED BY <2>2, <3>1, <3>2
  <2>3. n <= l \/ n > l
    BY <1>1
  <2>. QED BY <2>1, <2>2, <2>3
<1>6. rem \in [0 .. l + m -> Seq(Tokens)]
  BY <1>5
<1> HIDE DEF rem
<1>7. rem[0] = a \o b
  <2>1. 0 \in 0 .. l + m /\ 0 <= l
    BY <1>1
  <2>. QED BY <1>2, <1>5, <2>1
<1>8. rem[l + m] = <<>>
  <2>0. l + m \in 0 .. l + m
    BY <1>1
  <2>1. CASE m = 0
    <3>1. l + m = l /\ l \in 0 .. l + m /\ l <= l
      BY <1>1, <2>1
    <3>2. rem[l] = r[l] \o b
      BY <1>5, <3>1
    <3>3. b = <<>> /\ r[l] = <<>>
      BY <1>2, <1>3, <2>1
    <3>4. <<>> \o b = b
      BY <1>4, Joined
    <3>. QED BY <3>1, <3>2, <3>3, <3>4, Zenon
  <2>2. CASE m # 0
    <3>1. l + m > l /\ (l + m) - l = m
      BY <1>1, <2>2
    <3>. QED BY <1>3, <1>5, <2>0, <3>1
  <2>. QED BY <2>1, <2>2
<1>9. /\ s \o t \in Seq(CallSet) /\ Len(s \o t) = l + m
      /\ \A i \in 1 .. l : (s \o t)[i] = s[i]
      /\ \A i \in 1 .. m : (s \o t)[l + i] = t[i]
  BY <1>1, Joined
<1>10. ASSUME NEW n \in 1 .. l + m PROVE rem[n - 1] = Printed((s \o t)[n]) \o rem[n]
  <2>1. CASE n <= l
    <3>1. n \in 1 .. l /\ n - 1 \in 0 .. l + m /\ n - 1 <= l /\ n \in 0 .. l + m /\ n - 1 \in 0 .. l
      BY <1>1, <2>1
    <3>2. PICK p, x \in Seq(Tokens) : p = Printed(s[n]) /\ x = r[n]
      <4>1. s[n] \in CallSet
        BY <1>1, <3>1
      <4>. QED BY <1>2, <3>1, <4>1, PrintedType
    <3>3. r[n - 1] = p \o x
      BY <1>2, <3>1, <3>2
    <3>4. rem[n - 1] = (p \o x) \o b /\ rem[n] = x \o b
      BY <1>5, <2>1, <3>1, <3>2, <3>3
    <3>5. (p \o x) \o b = p \o (x \o b)
      <4>1. p \in Seq(Tokens) /\ x \in Seq(Tokens) /\ b \in Seq(Tokens)
        BY <1>4, <3>2
      <4>. QED BY <4>1, JoinedThree, Zenon
    <3>. QED BY <1>9, <3>1, <3>2, <3>4, <3>5
  <2>0. n <= l \/ n > l
    BY <1>1
  <2>2. CASE n > l
    <3>1. PICK i \in 1 .. m : n = l + i /\ n - l = i /\ n \in 0 .. l + m
      <4>1. n - l \in 1 .. m /\ n = l + (n - l) /\ n \in 0 .. l + m
        BY <1>1, <2>2
      <4>. QED BY <4>1
    <3>2. (s \o t)[n] = t[i] /\ rem[n] = q[i] /\ q[i - 1] = Printed(t[i]) \o q[i]
      BY <1>3, <1>5, <1>9, <2>2, <3>1
    <3>3. rem[n - 1] = q[i - 1]
      <4>1. CASE i = 1
        <5>1. n - 1 = l /\ l \in 0 .. l + m /\ l <= l /\ i - 1 = 0
          BY <1>1, <3>1, <4>1
        <5>2. rem[l] = <<>> \o b
          BY <1>2, <1>5, <5>1
        <5>. QED BY <1>3, <1>4, <5>1, <5>2, Joined
      <4>2. CASE i > 1
        <5>1. n - 1 > l /\ (n - 1) - l = i - 1 /\ n - 1 \in 0 .. l + m
          BY <1>1, <3>1, <4>2
        <5>. QED BY <1>5, <5>1
      <4>. QED BY <3>1, <4>1, <4>2
    <3>. QED BY <3>2, <3>3
  <2>. QED BY <2>0, <2>1, <2>2
<1>. QED BY <1>6, <1>7, <1>8, <1>9, <1>10 DEF Gives

(* The first call prints the first part.                                   *)
LEMMA GivesStep ==
  ASSUME NEW s \in Seq(CallSet), NEW out, Gives(s, out), s # <<>>
  PROVE  \E rest \in Seq(Tokens) : Gives(Tail(s), rest) /\ out = Printed(Head(s)) \o rest
<1>1. PICK l \in Nat : l = Len(s) /\ l # 0
  OBVIOUS
<1>2. PICK r \in [0 .. l -> Seq(Tokens)] :
        /\ r[0] = out /\ r[l] = <<>> /\ \A n \in 1 .. l : r[n - 1] = Printed(s[n]) \o r[n]
  BY <1>1 DEF Gives
<1>3. /\ Head(s) = s[1] /\ Len(Tail(s)) = l - 1 /\ \A n \in 1 .. l - 1 : Tail(s)[n] = s[n + 1]
  BY <1>1
<1> DEFINE rem == [n \in 0 .. l - 1 |-> r[n + 1]]
<1>4. ASSUME NEW n \in 0 .. l - 1 PROVE rem[n] = r[n + 1] /\ r[n + 1] \in Seq(Tokens)
  <2>1. n + 1 \in 0 .. l
    BY <1>1
  <2>. QED BY <1>2, <2>1
<1>5. rem \in [0 .. l - 1 -> Seq(Tokens)]
  BY <1>4
<1> HIDE DEF rem
<1>6. l - 1 \in 0 .. l - 1 /\ 0 \in 0 .. l - 1 /\ (l - 1) + 1 = l /\ 0 + 1 = 1 /\ 1 \in 1 .. l
  BY <1>1
<1>7. ASSUME NEW n \in 1 .. l - 1 PROVE rem[n - 1] = Printed(Tail(s)[n]) \o rem[n]
  <2>1. n \in 0 .. l - 1 /\ n - 1 \in 0 .. l - 1 /\ (n - 1) + 1 = n /\ n + 1 \in 1 .. l
        /\ (n + 1) - 1 = n
    BY <1>1
  <2>2. rem[n - 1] = r[n] /\ rem[n] = r[n + 1] /\ Tail(s)[n] = s[n + 1]
    BY <1>3, <1>4, <2>1
  <2>3. r[(n + 1) - 1] = Printed(s[n + 1]) \o r[n + 1]
    BY <1>2, <2>1
  <2>. QED BY <2>1, <2>2, <2>3
<1>8. rem[l - 1] = <<>> /\ rem[0] = r[1]
  BY <1>2, <1>4, <1>6
<1>9. Gives(Tail(s), rem[0])
  BY <1>3, <1>5, <1>7, <1>8 DEF Gives
<1>10. out = Printed(Head(s)) \o rem[0]
  <2>1. \A n \in 1 .. l : r[n - 1] = Printed(s[n]) \o r[n]
    BY <1>2
  <2>2. r[0] = Printed(s[1]) \o r[1]
    <3>1. \A n \in 1 .. l : n - 1 = 0 => r[0] = Printed(s[n]) \o r[n]
      BY <2>1
    <3>2. 1 \in 1 .. l /\ 1 - 1 = 0
      BY <1>1
    <3>. QED BY <3>1, <3>2, Zenon
  <2>. QED BY <1>2, <1>3, <1>8, <2>2
<1>. QED BY <1>4, <1>6, <1>8, <1>9, <1>10


-----------------------------------------------------------------------------
(* The calls of the programs are calls.                                    *)

(* Texts and numbers are tokens.                                           *)
LEMMA TokenTypes ==
  /\ Texts \subseteq Tokens /\ NL \in Tokens /\ Programs \subseteq Tokens
  /\ \A k \in Int : Num(k) \in Tokens
<1>1. \A k \in Int : Num(k) \in Tokens
  BY DEF Tokens
<1>2. Texts \subseteq Tokens /\ NL \in Tokens /\ Programs \subseteq Tokens
  BY DEF Tokens
<1>. QED BY <1>1, <1>2

(* Calls that take text, a number and a set of processes.                  *)
LEMMA CallTypes ==
  /\ \A s \in Seq(Tokens) : /\ Call("write", s) \in CallSet /\ Call("mark", s) \in CallSet
                            /\ Call("put", s) \in CallSet
  /\ \A n \in Int : /\ Call("fork", n) \in CallSet /\ Call("exit", n) \in CallSet
                    /\ Call("close", n) \in CallSet /\ Call("copy", n) \in CallSet
                    /\ Call("pipe", n) \in CallSet
  /\ \A w \in SUBSET Int : Call("wait", w) \in CallSet
BY DEF CallSet, Call

(* The operation and the argument of a call.                               *)
LEMMA CallFields == \A o, a : Call(o, a).op = o /\ Call(o, a).arg = a
BY DEF Call

(* The argument of a call has the type its operation takes.                *)
LEMMA CallArgs ==
  ASSUME NEW c \in CallSet
  PROVE  /\ c.op \in {"write", "mark", "put", "fork", "exit", "close", "copy", "pipe", "wait"}
         /\ c.op \in {"write", "mark", "put"} => c.arg \in Seq(Tokens)
         /\ c.op \in {"fork", "exit", "close", "copy", "pipe"} => c.arg \in Int
         /\ c.op = "wait" => c.arg \in SUBSET Int
BY DEF CallSet

(* Quiet calls stay quiet when they are put together, or the first is made.*)
LEMMA QuietOne ==
  ASSUME NEW c \in CallSet, c.op \in {"write", "put", "close"}
  PROVE  Quiet(<<c>>)
BY DEF Quiet

(* Quiet calls after quiet calls are quiet.                                *)
LEMMA QuietBoth ==
  ASSUME NEW s \in Seq(CallSet), NEW t \in Seq(CallSet), Quiet(s), Quiet(t)
  PROVE  Quiet(s \o t)
<1>1. PICK l, m \in Nat : l = Len(s) /\ m = Len(t)
  OBVIOUS
<1>2. /\ Len(s \o t) = l + m
      /\ \A i \in 1 .. l : (s \o t)[i] = s[i]
      /\ \A i \in 1 .. m : (s \o t)[l + i] = t[i]
  BY <1>1, Joined
<1>3. ASSUME NEW n \in 1 .. l + m PROVE (s \o t)[n].op \in {"write", "put", "close"}
  <2>1. CASE n <= l
    <3>1. n \in 1 .. l
      BY <1>1, <2>1
    <3>. QED BY <1>1, <1>2, <3>1 DEF Quiet
  <2>2. CASE n > l
    <3>1. n - l \in 1 .. m /\ l + (n - l) = n
      BY <1>1, <2>2
    <3>. QED BY <1>1, <1>2, <3>1 DEF Quiet
  <2>. QED BY <1>1, <2>1, <2>2
<1>. QED BY <1>2, <1>3 DEF Quiet

(* After the first of some quiet calls the others are quiet.               *)
LEMMA QuietTail ==
  ASSUME NEW s \in Seq(CallSet), s # <<>>, Quiet(s)
  PROVE  Quiet(Tail(s)) /\ Head(s).op \in {"write", "put", "close"}
<1>1. PICK l \in Nat : l = Len(s) /\ l # 0
  OBVIOUS
<1>2. /\ Head(s) = s[1] /\ Len(Tail(s)) = l - 1
      /\ \A n \in 1 .. l - 1 : Tail(s)[n] = s[n + 1] /\ n + 1 \in 1 .. l
      /\ 1 \in 1 .. l
  BY <1>1
<1>. QED BY <1>1, <1>2 DEF Quiet

(* write(s) and printf(s, n, t) are quiet and print what they are given.   *)
LEMMA WriteGives ==
  ASSUME NEW s \in Seq(Tokens)
  PROVE  write(s) \in Seq(CallSet) /\ Quiet(write(s)) /\ Gives(write(s), s)
<1>1. PICK c \in CallSet : c = Call("write", s)
  BY CallTypes
<1>2. c.op = "write" /\ Printed(c) = s
  BY <1>1, CallFields DEF Printed
<1>. QED BY <1>1, <1>2, QuietOne, GivesOne DEF write

(* printf() gives its three parts, in one write() or in three.             *)
LEMMA PrintfGives ==
  ASSUME NEW s \in Seq(Tokens), NEW n \in Seq(Tokens), NEW t \in Seq(Tokens)
  PROVE  /\ printf(s, n, t) \in Seq(CallSet) /\ Quiet(printf(s, n, t))
         /\ Gives(printf(s, n, t), s \o n \o t)
<1>1. CASE whole
  <2>1. s \o n \o t \in Seq(Tokens)
    OBVIOUS
  <2>. QED BY <1>1, <2>1, WriteGives DEF printf
<1>2. CASE ~whole
  <2>1. PICK a, b, c \in Seq(CallSet) :
          /\ a = write(s) /\ b = write(n) /\ c = write(t)
          /\ Quiet(a) /\ Quiet(b) /\ Quiet(c)
          /\ Gives(a, s) /\ Gives(b, n) /\ Gives(c, t)
    BY WriteGives
  <2>2. PICK d, x : d = a \o b /\ x = s \o n
    OBVIOUS
  <2>3. d \in Seq(CallSet) /\ Quiet(d) /\ Gives(d, x)
    BY <2>1, <2>2, QuietBoth, GivesBoth, Joined
  <2>4. d \o c \in Seq(CallSet) /\ Quiet(d \o c) /\ Gives(d \o c, x \o t)
    BY <2>1, <2>3, QuietBoth, GivesBoth, Joined
  <2>. QED BY <1>2, <2>1, <2>2, <2>4 DEF printf
<1>. QED BY <1>1, <1>2

(* exit() is a call.                                                       *)
LEMMA ExitType == \A x \in Int : exit(x) \in Seq(CallSet) /\ exit(x) # <<>>
BY CallTypes DEF exit

(* wait() any number of times is a sequence of calls.                      *)
LEMMA WaitType == \A n \in Nat : wait(n) \in Seq(CallSet)
<1>1. Call("wait", Pid) \in CallSet
  BY PidAssumption, CallTypes
<1>. QED BY <1>1 DEF wait

(* The texts of the marker and of a panic.                                 *)
LEMMA MarkerCalls ==
  ASSUME program \in Programs, NEW word \in Texts
  PROVE  /\ Marker(word) = <<Call("mark", <<word>>), Call("write", <<program>>),
                             Call("write", <<"=", NL>>), Call("exit", 0)>>
         /\ Marker(word) \in Seq(CallSet) /\ Marker(word) # <<>>
         /\ <<word>> \in Seq(Tokens) /\ <<program>> \in Seq(Tokens) /\ <<"=", NL>> \in Seq(Tokens)
<1>1. "=" \in Texts
  BY Zenon DEF Texts
<1>2. word \in Tokens /\ "=" \in Tokens /\ NL \in Tokens /\ program \in Tokens
  BY <1>1, TokenTypes
<1>3. /\ <<word>> \in Seq(Tokens) /\ <<program>> \in Seq(Tokens) /\ <<"=", NL>> \in Seq(Tokens)
  BY <1>2, TupleTypes, Zenon
<1>4. PICK a, b, c, d \in CallSet :
        /\ a = Call("mark", <<word>>) /\ b = Call("write", <<program>>)
        /\ c = Call("write", <<"=", NL>>) /\ d = Call("exit", 0)
  <2>1. 0 \in Int
    OBVIOUS
  <2>. QED BY <1>3, <2>1, CallTypes, Zenon
<1>5. <<a>> \o <<b>> \o <<c>> \o <<d>> = <<a, b, c, d>>
  <2>1. <<a>> \o <<b>> \o <<c>> = <<a, b, c>>
    BY TuplesOne, Zenon
  <2>2. <<a, b, c>> \o <<d>> = <<a, b, c, d>>
    BY Tuples
  <2>. QED BY <2>1, <2>2, Zenon
<1>6. Marker(word) = <<a>> \o <<b>> \o <<c>> \o <<d>>
  BY <1>4, Zenon DEF Marker, write, exit
<1>7. <<a, b, c, d>> \in Seq(CallSet) /\ <<a, b, c, d>> # <<>>
  OBVIOUS
<1>. QED BY <1>3, <1>4, <1>5, <1>6, <1>7, Zenon

(* panic() prints and exits.                                               *)
LEMMA PanicCalls ==
  /\ Panic = write(PanicText) \o exit(-100) /\ PanicText \in Seq(Tokens)
  /\ Panic \in Seq(CallSet)
<1>1. "Assert Fatal" \in Texts
  BY Zenon DEF Texts
<1>2. PanicText \in Seq(Tokens)
  BY <1>1, TokenTypes, TupleTypes, Zenon DEF PanicText
<1>3. Panic = write(PanicText) \o exit(-100)
  BY Zenon DEF Panic, PanicText
<1>4. -100 \in Int
  OBVIOUS
<1>. QED BY <1>2, <1>3, <1>4, WriteGives, ExitType, Joined

(* What the children of the simple programs call.                          *)
LEMMA ChildCalls ==
  ASSUME program \in Simple, NEW c
  PROVE  /\ Child(0, c) = write(ChildText) \o exit(ChildCode)
         /\ ChildText \in Seq(Tokens) /\ ChildCode \in {0, 3}
         /\ Child(0, c) \in Seq(CallSet)
<1>1. ChildText \in Seq(Tokens)
  <2>1. /\ "  child process." \in Texts /\ "This is child process" \in Texts
        /\ "  Child says successfully!" \in Texts
    BY Zenon DEF Texts
  <2>2. /\ <<"  child process.", NL>> \in Seq(Tokens)
        /\ <<"This is child process", NL>> \in Seq(Tokens)
        /\ <<"  Child says successfully!", NL>> \in Seq(Tokens)
    BY <2>1, TokenTypes, TupleTypes, Zenon
  <2>. QED BY <2>2, Zenon DEF ChildText
<1>2. Child(0, c) = write(ChildText) \o exit(ChildCode)
  <2>1. CASE program = "fork"
    BY <2>1, Zenon DEF Child, ChildText, ChildCode
  <2>2. CASE program = "wait"
    BY <2>2, Zenon DEF Child, ChildText, ChildCode
  <2>3. CASE program = "waitpid"
    BY <2>3, Zenon DEF Child, ChildText, ChildCode
  <2>4. CASE program = "clone"
    BY <2>4, Zenon DEF Child, ChildText, ChildCode
  <2>. QED BY <2>1, <2>2, <2>3, <2>4 DEF Simple
<1>3. ChildCode \in {0, 3}
  BY DEF ChildCode
<1>4. write(ChildText) \in Seq(CallSet) /\ exit(ChildCode) \in Seq(CallSet)
  <2>1. ChildCode \in Int
    BY <1>3
  <2>. QED BY <1>1, <2>1, WriteGives, ExitType, Zenon
<1>5. Child(0, c) \in Seq(CallSet)
  BY <1>2, <1>4, Joined, Zenon
<1>. QED BY <1>1, <1>2, <1>3, <1>5

(* Their main() after wait() or waitpid() has returned a child that ended  *)
(* as it does here.                                                        *)
LEMMA ParentCalls ==
  ASSUME program \in Simple, NEW r \in Int, r # -1, cpid = r, WEXITSTATUS(r) = ChildCode
  PROVE  \E q \in Seq(CallSet) :
           /\ Quiet(q) /\ Gives(q, ParentText(r)) /\ AfterWait(r) = q \o Marker("END")
           /\ ParentText(r) \in Seq(Tokens)
<1>1. Num(0) \in Tokens /\ Num(3) \in Tokens /\ Num(r) \in Tokens /\ NL \in Tokens
  BY TokenTypes
<1>2. 256 * 0 = 0
  OBVIOUS
<1>3. ASSUME NEW s \in Seq(Tokens), NEW n \in Seq(Tokens),
             AfterWait(r) = printf(s, n, <<NL>>) \o Marker("END"),
             s \o n \o <<NL>> = ParentText(r)
      PROVE  \E q \in Seq(CallSet) :
           /\ Quiet(q) /\ Gives(q, ParentText(r)) /\ AfterWait(r) = q \o Marker("END")
           /\ ParentText(r) \in Seq(Tokens)
  <2>1. <<NL>> \in Seq(Tokens)
    BY <1>1, TupleTypes, Zenon
  <2>2. PICK q \in Seq(CallSet) : q = printf(s, n, <<NL>>) /\ Quiet(q) /\ Gives(q, s \o n \o <<NL>>)
    BY <2>1, PrintfGives
  <2>3. Gives(q, ParentText(r)) /\ ParentText(r) \in Seq(Tokens)
    BY <1>3, <2>2, GivesType
  <2>. QED BY <1>3, <2>2, <2>3, Zenon
<1>4. CASE program = "fork"
  <2>1. PICK a \in Tokens : a = "  parent process. wstatus:"
    BY TokenTypes, Zenon DEF Texts
  <2>2. ChildCode = 0 /\ ParentText(r) = <<a, Num(0), NL>>
    BY <1>4, <2>1, Zenon DEF ParentText, ChildCode
  <2>3. AfterWait(r) = printf(<<a>>, <<Num(0)>>, <<NL>>) \o Marker("END")
    BY <1>2, <1>4, <2>1, <2>2, Zenon DEF AfterWait
  <2>4. <<a>> \o <<Num(0)>> \o <<NL>> = <<a, Num(0), NL>>
    BY TuplesOne, Zenon
  <2>5. <<a>> \in Seq(Tokens) /\ <<Num(0)>> \in Seq(Tokens)
    BY <1>1, TupleTypes, Zenon
  <2>. QED BY <1>3, <2>2, <2>3, <2>4, <2>5, Zenon
<1>5. CASE program = "wait"
  <2>1. PICK a, b \in Tokens : a = "wait child success." /\ b = "wstatus: "
    BY TokenTypes, Zenon DEF Texts
  <2>2. ChildCode = 0 /\ ParentText(r) = <<a, NL, b, Num(0), NL>>
    BY <1>5, <2>1, Zenon DEF ParentText, ChildCode
  <2>3. AfterWait(r) = printf(<<a, NL, b>>, <<Num(0)>>, <<NL>>) \o Marker("END")
    BY <1>2, <1>5, <2>1, <2>2, Zenon DEF AfterWait
  <2>4. <<a, NL, b>> \o <<Num(0)>> \o <<NL>> = <<a, NL, b, Num(0), NL>>
    BY TuplesThree, Zenon
  <2>5. <<a, NL, b>> \in Seq(Tokens) /\ <<Num(0)>> \in Seq(Tokens)
    BY <1>1, TupleTypes, Zenon
  <2>. QED BY <1>3, <2>2, <2>3, <2>4, <2>5, Zenon
<1>6. CASE program = "waitpid"
  <2>1. PICK a, b \in Tokens : a = "waitpid successfully." /\ b = "wstatus: "
    BY TokenTypes, Zenon DEF Texts
  <2>2. ChildCode = 3 /\ ParentText(r) = <<a, NL, b, Num(3), NL>>
    BY <1>6, <2>1, Zenon DEF ParentText, ChildCode
  <2>3. AfterWait(r) = printf(<<a, NL, b>>, <<Num(3)>>, <<NL>>) \o Marker("END")
    BY <1>6, <2>1, <2>2, Zenon DEF AfterWait
  <2>4. <<a, NL, b>> \o <<Num(3)>> \o <<NL>> = <<a, NL, b, Num(3), NL>>
    BY TuplesThree, Zenon
  <2>5. <<a, NL, b>> \in Seq(Tokens) /\ <<Num(3)>> \in Seq(Tokens)
    BY <1>1, TupleTypes, Zenon
  <2>. QED BY <1>3, <2>2, <2>3, <2>4, <2>5, Zenon
<1>7. CASE program = "clone"
  <2>1. PICK a, b \in Tokens : a = "clone process successfully." /\ b = "pid:"
    BY TokenTypes, Zenon DEF Texts
  <2>2. ParentText(r) = <<a, NL, b, Num(r), NL>>
    BY <1>7, <2>1, Zenon DEF ParentText
  <2>3. AfterWait(r) = printf(<<a, NL, b>>, <<Num(r)>>, <<NL>>) \o Marker("END")
    BY <1>7, <2>1, Zenon DEF AfterWait
  <2>4. <<a, NL, b>> \o <<Num(r)>> \o <<NL>> = <<a, NL, b, Num(r), NL>>
    BY TuplesThree, Zenon
  <2>5. <<a, NL, b>> \in Seq(Tokens) /\ <<Num(r)>> \in Seq(Tokens)
    BY <1>1, TupleTypes, Zenon
  <2>. QED BY <1>3, <2>2, <2>3, <2>4, <2>5, Zenon
<1>. QED BY <1>4, <1>5, <1>6, <1>7 DEF Simple

(* Calls after calls are calls.                                            *)
LEMMA JoinedCalls == \A s, t \in Seq(CallSet) : s \o t \in Seq(CallSet)
OBVIOUS

(* A single call.                                                          *)
LEMMA OneCall == \A c \in CallSet : <<c>> \in Seq(CallSet)
OBVIOUS

(* There are no other programs.                                            *)
LEMMA SixPrograms ==
  ASSUME program \in Programs
  PROVE  program \in {"fork", "wait", "waitpid", "clone", "yield", "pipe"}
BY ConsoleAssumption

(* What the processes of pipe.c call.                                      *)
LEMMA PipeTypes ==
  /\ \A k \in Int : printf(<<"cpid: ">>, <<Num(k)>>, <<NL>>) \in Seq(CallSet)
  /\ Data \in Seq(Tokens) /\ <<Call("put", Data)>> \in Seq(CallSet)
  /\ \A n \in Int : <<Call("close", n)>> \in Seq(CallSet) /\ <<Call("copy", n)>> \in Seq(CallSet)
<1>1. PICK a, b \in Tokens : a = "cpid: " /\ b = "  Write to pipe successfully."
  BY TokenTypes, Zenon DEF Texts
<1>2. Data \in Seq(Tokens)
  BY <1>1, TokenTypes, TupleTypes, Zenon DEF Data
<1>3. \A k \in Int : printf(<<a>>, <<Num(k)>>, <<NL>>) \in Seq(CallSet)
  <2>1. \A k \in Int : <<a>> \in Seq(Tokens) /\ <<Num(k)>> \in Seq(Tokens) /\ <<NL>> \in Seq(Tokens)
    BY <1>1, TokenTypes, TupleTypes, Zenon
  <2>. QED BY <2>1, PrintfGives
<1>4. Call("put", Data) \in CallSet
  BY <1>2, CallTypes
<1>. QED BY <1>1, <1>2, <1>3, <1>4, CallTypes, OneCall, Zenon

(* What a child calls.                                                     *)
LEMMA ChildType ==
  ASSUME program \in Programs, NEW i \in Int, NEW c \in Int
  PROVE  Child(i, c) \in Seq(CallSet)
<1>1. CASE program \in Simple
  <2>1. Child(i, c) = Child(0, c)
    <3>1. CASE program = "fork"
      BY <3>1, Zenon DEF Child
    <3>2. CASE program = "wait"
      BY <3>2, Zenon DEF Child
    <3>3. CASE program = "waitpid"
      BY <3>3, Zenon DEF Child
    <3>4. CASE program = "clone"
      BY <3>4, Zenon DEF Child
    <3>. QED BY <1>1, <3>1, <3>2, <3>3, <3>4 DEF Simple
  <2>. QED BY <1>1, <2>1, ChildCalls, Zenon
<1>2. CASE program = "yield"
  <2> DEFINE line == printf(<<Num(c)>>, <<Num(i)>>, <<".", NL>>)
             body == [k \in 1 .. Len(line) * ROUNDS |-> line[1 + ((k - 1) % Len(line))]]
  <2>1. <<Num(c)>> \in Seq(Tokens) /\ <<Num(i)>> \in Seq(Tokens) /\ <<".", NL>> \in Seq(Tokens)
    BY TokenTypes, TupleTypes, Zenon DEF Texts
  <2>2. line \in Seq(CallSet)
    BY <2>1, PrintfGives
  <2> HIDE DEF line
  <2>3. PICK l \in Nat : l = Len(line)
    BY <2>2
  <2>4. l * ROUNDS \in Nat
    BY ConsoleAssumption
  <2>5. ASSUME NEW k \in 1 .. l * ROUNDS PROVE line[1 + ((k - 1) % l)] \in CallSet
    <3>1. l > 0
      <4>1. l = 0 => l * ROUNDS = 0
        BY ConsoleAssumption
      <4>. QED BY <2>4, <4>1
    <3>2. 1 + ((k - 1) % l) \in 1 .. l
      BY <2>4, <3>1
    <3>. QED BY <2>2, <2>3, <3>2
  <2>6. body \in Seq(CallSet)
    <3>1. PICK n \in Nat : n = l * ROUNDS
      BY <2>4
    <3> DEFINE piece(k) == line[1 + ((k - 1) % l)]
    <3>2. body = [k \in 1 .. n |-> piece(k)]
      BY <2>3, <3>1
    <3>3. \A k \in 1 .. n : piece(k) \in CallSet
      BY <2>5, <3>1
    <3> HIDE DEF piece
    <3>4. [k \in 1 .. n |-> piece(k)] \in Seq(CallSet)
      BY <3>3
    <3>. QED BY <3>2, <3>4, Zenon
  <2>8. exit(0) \in Seq(CallSet)
    BY ExitType
  <2>7. Child(i, c) = body \o exit(0)
    BY <1>2, Zenon DEF Child, line
  <2> HIDE DEF body
  <2>. QED BY <2>6, <2>7, <2>8, JoinedCalls, Zenon
<1>3. CASE program = "pipe"
  <2>1. Child(i, c) = printf(<<"cpid: ">>, <<Num(0)>>, <<NL>>)
                      \o <<Call("put", Data), Call("close", c)>> \o exit(0)
    BY <1>3, Zenon DEF Child
  <2>2. <<Call("put", Data)>> \o <<Call("close", c)>> = <<Call("put", Data), Call("close", c)>>
    BY Tuples
  <2>3. exit(0) \in Seq(CallSet) /\ printf(<<"cpid: ">>, <<Num(0)>>, <<NL>>) \in Seq(CallSet)
    <3>1. 0 \in Int
      OBVIOUS
    <3>. QED BY <3>1, PipeTypes, ExitType, Zenon
  <2>4. <<Call("put", Data), Call("close", c)>> \in Seq(CallSet)
    BY <2>2, PipeTypes, JoinedCalls, Zenon
  <2>5. printf(<<"cpid: ">>, <<Num(0)>>, <<NL>>) \o <<Call("put", Data), Call("close", c)>>
          \in Seq(CallSet)
    BY <2>3, <2>4, JoinedCalls, Zenon
  <2>. QED BY <2>1, <2>3, <2>5, JoinedCalls, Zenon
<1>. QED BY <1>1, <1>2, <1>3, SixPrograms DEF Simple

(* What main() calls after fork().                                         *)
LEMMA AfterForkType ==
  ASSUME program \in Programs, NEW r \in Int
  PROVE  AfterFork(r) \in Seq(CallSet)
<1>1. Main \in Int /\ 1 \in Nat /\ 0 \in Int
  BY PidAssumption
<1>2. Call("wait", {r}) \in CallSet /\ <<Call("wait", {r})>> \in Seq(CallSet)
  <2>1. {r} \in SUBSET Int
    OBVIOUS
  <2>. QED BY <2>1, CallTypes, OneCall, Zenon
<1>3. wait(1) \in Seq(CallSet) /\ Panic \in Seq(CallSet) /\ Child(0, Main) \in Seq(CallSet)
  BY <1>1, WaitType, PanicCalls, ChildType, Zenon
<1>4. CASE program \in {"fork", "wait", "clone", "waitpid"}
  BY <1>2, <1>3, <1>4, Zenon DEF AfterFork
<1>5. CASE program = "yield"
  <2>1. AfterFork(r) = <<>>
    BY <1>5, Zenon DEF AfterFork
  <2>. QED BY <2>1
<1>6. CASE program = "pipe"
  <2> DEFINE reading == <<Call("close", Main), Call("copy", 0)>> \o write(<<NL>>) \o wait(1)
                        \o Marker("PASS")
             writing == <<Call("put", Data), Call("close", Main)>> \o exit(0)
  <2>1. /\ <<Call("put", Data)>> \o <<Call("close", Main)>>
              = <<Call("put", Data), Call("close", Main)>>
        /\ <<Call("close", Main)>> \o <<Call("copy", 0)>> = <<Call("close", Main), Call("copy", 0)>>
    BY Tuples
  <2>2. /\ <<Call("put", Data), Call("close", Main)>> \in Seq(CallSet)
        /\ <<Call("close", Main), Call("copy", 0)>> \in Seq(CallSet)
    BY <1>1, <2>1, PipeTypes, JoinedCalls, Zenon
  <2>3. /\ write(<<NL>>) \in Seq(CallSet) /\ Marker("PASS") \in Seq(CallSet)
        /\ exit(0) \in Seq(CallSet)
    <3>1. <<NL>> \in Seq(Tokens) /\ "PASS" \in Texts
      BY TokenTypes, TupleTypes, Zenon DEF Texts
    <3>. QED BY <1>1, <3>1, WriteGives, MarkerCalls, ExitType
  <2>4. reading \in Seq(CallSet) /\ writing \in Seq(CallSet)
    BY <1>3, <2>2, <2>3, JoinedCalls, Zenon
  <2>5. AfterFork(r) =
          printf(<<"cpid: ">>, <<Num(r)>>, <<NL>>) \o (IF r > 0 THEN reading ELSE writing)
    BY <1>6, Zenon DEF AfterFork
  <2> HIDE DEF reading, writing
  <2>6. (IF r > 0 THEN reading ELSE writing) \in Seq(CallSet)
    BY <2>4
  <2>. QED BY <2>5, <2>6, PipeTypes, JoinedCalls, Zenon
<1>. QED BY <1>4, <1>5, <1>6, SixPrograms

(* What it calls after wait().                                             *)
LEMMA AfterWaitType ==
  ASSUME TypesOK, NEW r \in Pid \cup {-1}, r \in Pid \/ program # "fork"
  PROVE  AfterWait(r) \in Seq(CallSet)
<1>0. program \in Programs
  BY DEF TypesOK
<1>1. Marker("END") \in Seq(CallSet)
  BY <1>0, MarkerCalls, Zenon DEF Texts
<1>2. ASSUME NEW a \in Texts PROVE write(<<a, NL>>) \o Marker("END") \in Seq(CallSet)
  <2>1. <<a, NL>> \in Seq(Tokens)
    BY TokenTypes, TupleTypes, Zenon
  <2>2. write(<<a, NL>>) \in Seq(CallSet)
    BY <2>1, WriteGives
  <2>. QED BY <1>1, <2>2, JoinedCalls, Zenon
<1>3. ASSUME NEW s \in Seq(Tokens), NEW k \in Int
      PROVE  printf(s, <<Num(k)>>, <<NL>>) \o Marker("END") \in Seq(CallSet)
  <2>1. <<Num(k)>> \in Seq(Tokens) /\ <<NL>> \in Seq(Tokens)
    BY TokenTypes, TupleTypes, Zenon
  <2>2. printf(s, <<Num(k)>>, <<NL>>) \in Seq(CallSet)
    BY <2>1, PrintfGives
  <2>. QED BY <1>1, <2>2, JoinedCalls, Zenon
<1>4. r = -1 \/ (WEXITSTATUS(r) \in Int /\ 256 * WEXITSTATUS(r) \in Int)
  BY DEF WEXITSTATUS, TypesOK, ProcTypeOK
<1>5. CASE program = "fork"
  <2>1. <<"  parent process. wstatus:">> \in Seq(Tokens)
    BY TokenTypes, TupleTypes, Zenon DEF Texts
  <2>2. 256 * WEXITSTATUS(r) \in Int
    <3>1. r # -1
      BY <1>5, PidAssumption
    <3>. QED BY <1>4, <3>1
  <2>. QED BY <1>3, <1>5, <2>1, <2>2, Zenon DEF AfterWait
<1>6. CASE program = "wait"
  <2>1. <<"wait child success.", NL, "wstatus: ">> \in Seq(Tokens) /\ "wait child error." \in Texts
    BY TokenTypes, TupleTypes, Zenon DEF Texts
  <2>. QED BY <1>2, <1>3, <1>4, <1>6, <2>1, PanicCalls, Zenon DEF AfterWait
<1>7. CASE program = "waitpid"
  <2>1. <<"waitpid successfully.", NL, "wstatus: ">> \in Seq(Tokens) /\ "waitpid error." \in Texts
    BY TokenTypes, TupleTypes, Zenon DEF Texts
  <2>. QED BY <1>2, <1>3, <1>4, <1>7, <2>1, PanicCalls, Zenon DEF AfterWait
<1>8. CASE program = "clone"
  <2>1. /\ <<"clone process successfully.", NL, "pid:">> \in Seq(Tokens)
        /\ "clone process error." \in Texts
    BY TokenTypes, TupleTypes, Zenon DEF Texts
  <2>2. cpid \in Int
    BY DEF TypesOK
  <2>. QED BY <1>2, <1>3, <1>8, <2>1, <2>2, Zenon DEF AfterWait
<1>9. CASE program \in {"yield", "pipe"}
  <2>1. AfterWait(r) = <<>>
    BY <1>9, Zenon DEF AfterWait
  <2>. QED BY <2>1
<1>. QED BY <1>0, <1>5, <1>6, <1>7, <1>8, <1>9, SixPrograms

-----------------------------------------------------------------------------
(* The steps.                                                              *)

(* The first of some calls, and the others.                                *)
LEMMA HeadType ==
  ASSUME NEW s \in Seq(CallSet), s # <<>>
  PROVE  Head(s) \in CallSet /\ Tail(s) \in Seq(CallSet)
OBVIOUS

(* The call a process makes next says which action it takes.               *)
LEMMA Steps ==
  ASSUME TypesOK, NEW p \in Pid, Step(p)
  PROVE  /\ todo[p] \in Seq(CallSet) /\ todo[p] # <<>> /\ Head(todo[p]) \in CallSet
         /\ Tail(todo[p]) \in Seq(CallSet)
         /\ \/ Head(todo[p]).op \in {"write", "mark"} /\ Write(p)
            \/ Head(todo[p]).op = "fork" /\ (ForkChild(p) \/ ForkError(p))
            \/ Head(todo[p]).op = "wait" /\ Wait(p)
            \/ Head(todo[p]).op = "exit" /\ ExitProcess(p)
            \/ Head(todo[p]).op = "pipe" /\ Pipe(p)
            \/ Head(todo[p]).op = "put" /\ Put(p)
            \/ Head(todo[p]).op = "close" /\ Close(p)
            \/ Head(todo[p]).op = "copy" /\ Copy(p)
<1>1. todo[p] \in Seq(CallSet)
  BY DEF TypesOK
<1>2. CASE Write(p)
  <2>1. todo[p] # <<>> /\ Head(todo[p]).op \in {"write", "mark"}
    BY <1>2 DEF Write, Calls
  <2>. QED BY <1>1, <1>2, <2>1, HeadType
<1>3. CASE ForkChild(p) \/ ForkError(p)
  <2>1. todo[p] # <<>> /\ Head(todo[p]).op = "fork"
    BY <1>3 DEF ForkChild, ForkError, Calls
  <2>. QED BY <1>1, <1>3, <2>1, HeadType
<1>4. CASE Wait(p)
  <2>1. todo[p] # <<>> /\ Head(todo[p]).op = "wait"
    BY <1>4 DEF Wait, Calls
  <2>. QED BY <1>1, <1>4, <2>1, HeadType
<1>5. CASE ExitProcess(p)
  <2>1. todo[p] # <<>> /\ Head(todo[p]).op = "exit"
    BY <1>5 DEF ExitProcess, Calls
  <2>. QED BY <1>1, <1>5, <2>1, HeadType
<1>6. CASE Pipe(p)
  <2>1. todo[p] # <<>> /\ Head(todo[p]).op = "pipe"
    BY <1>6 DEF Pipe, Calls
  <2>. QED BY <1>1, <1>6, <2>1, HeadType
<1>7. CASE Put(p)
  <2>1. todo[p] # <<>> /\ Head(todo[p]).op = "put"
    BY <1>7 DEF Put, Calls
  <2>. QED BY <1>1, <1>7, <2>1, HeadType
<1>8. CASE Close(p)
  <2>1. todo[p] # <<>> /\ Head(todo[p]).op = "close"
    BY <1>8 DEF Close, Calls
  <2>. QED BY <1>1, <1>8, <2>1, HeadType
<1>9. CASE Copy(p)
  <2>1. todo[p] # <<>> /\ Head(todo[p]).op = "copy"
    BY <1>9 DEF Copy, Calls
  <2>. QED BY <1>1, <1>9, <2>1, HeadType
<1>. QED BY <1>2, <1>3, <1>4, <1>5, <1>6, <1>7, <1>8, <1>9 DEF Step

(* A process that prints makes a quiet call, or has come to the calls after*)
(* those.                                                                  *)
LEMMA PrintsStep ==
  ASSUME TypesOK, NEW p \in Pid, Step(p), NEW text, NEW after \in Seq(CallSet),
         Prints(p, text, after)
  PROVE  \/ todo[p] = after /\ console = text
         \/ /\ UNCHANGED <<procVars, program, whole, cpid, failed, marked>>
            /\ \A o \in Pid \ {p} : todo'[o] = todo[o]
            /\ todo'[p] = Tail(todo[p])
            /\ Prints(p, text, after)'
<1>1. PICK q \in Seq(CallSet), rest \in Seq(Tokens) :
        /\ Quiet(q) /\ Gives(q, rest)
        /\ todo[p] = q \o after /\ console \o rest = text
  BY DEF Prints
<1>2. CASE q = <<>>
  <2>1. rest = <<>>
    <3>1. Gives(q, rest)
      BY <1>1, Zenon
    <3>. QED BY <1>2, <3>1, GivesNothing, Zenon
  <2>2. console \in Seq(Tokens)
    BY DEF TypesOK
  <2>3. todo[p] = <<>> \o after /\ console \o <<>> = text
    BY <1>1, <1>2, <2>1, Zenon
  <2>. QED BY <2>2, <2>3, Joined
<1>3. CASE q # <<>>
  <2>1. PICK c \in CallSet, t \in Seq(CallSet) :
          /\ c = Head(q) /\ t = Tail(q) /\ todo[p] # <<>>
          /\ Head(todo[p]) = c /\ Tail(todo[p]) = t \o after
    <3>1. PICK d : d = q \o after
      OBVIOUS
    <3>2. /\ d # <<>> /\ Head(d) = Head(q) /\ Tail(d) = Tail(q) \o after
          /\ Head(q) \in CallSet /\ Tail(q) \in Seq(CallSet)
      BY <1>3, <3>1, HeadJoined
    <3>3. todo[p] = d
      BY <1>1, <3>1, Zenon
    <3>. QED BY <3>2, <3>3, Zenon
  <2>2. c.op \in {"write", "put", "close"} /\ Quiet(t)
    BY <1>1, <1>3, <2>1, QuietTail
  <2>3. PICK r \in Seq(Tokens) : Gives(t, r) /\ rest = Printed(c) \o r
    <3>1. Gives(q, rest)
      BY <1>1, Zenon
    <3>2. \E r \in Seq(Tokens) : Gives(Tail(q), r) /\ rest = Printed(Head(q)) \o r
      BY <1>3, <3>1, GivesStep
    <3>. QED BY <2>1, <3>2, Zenon
  <2>4. /\ Printed(c) \in Seq(Tokens) /\ (c.op = "write" => Printed(c) = c.arg)
        /\ (c.op # "write" => Printed(c) = <<>>)
    BY <2>2, PrintedType DEF Printed
  <2>5. console \in Seq(Tokens) /\ todo \in [Pid -> Seq(CallSet)]
    BY DEF TypesOK
  <2>6. /\ UNCHANGED <<procVars, program, whole, cpid, failed, marked>>
        /\ console' = console \o Printed(c)
        /\ todo' = [todo EXCEPT ![p] = Tail(todo[p]) \o <<>>]
    <3>1. CASE c.op = "write"
      <4>1. Write(p) /\ ~Calls(p, "mark") /\ Arg(p) = c.arg
        BY <2>1, <3>1, Steps DEF Calls, Arg
      <4>. QED BY <2>4, <3>1, <4>1 DEF Write, Then
    <3>2. CASE c.op = "put"
      <4>1. Put(p)
        BY <2>1, <3>2, Steps
      <4>2. console \o <<>> = console
        BY <2>5, Joined
      <4>. QED BY <2>4, <3>2, <4>1, <4>2 DEF Put, Then
    <3>3. CASE c.op = "close"
      <4>1. Close(p)
        BY <2>1, <3>3, Steps
      <4>2. console \o <<>> = console
        BY <2>5, Joined
      <4>. QED BY <2>4, <3>3, <4>1, <4>2 DEF Close, Then
    <3>. QED BY <2>2, <3>1, <3>2, <3>3
  <2>7. Tail(todo[p]) \in Seq(CallSet) /\ Tail(todo[p]) \o <<>> = Tail(todo[p])
    <3>1. Tail(todo[p]) \in Seq(CallSet)
      BY <2>1, JoinedCalls
    <3>. QED BY <3>1, Joined
  <2>8. /\ todo'[p] = t \o after /\ todo'[p] = Tail(todo[p])
        /\ \A o \in Pid \ {p} : todo'[o] = todo[o]
    BY <2>1, <2>5, <2>6, <2>7
  <2>9. console' \o r = text
    <3>1. (console \o Printed(c)) \o r = console \o (Printed(c) \o r)
      BY <2>3, <2>4, <2>5, JoinedThree, Zenon
    <3>. QED BY <1>1, <2>3, <2>6, <3>1, Zenon
  <2>. QED BY <2>2, <2>3, <2>6, <2>8, <2>9 DEF Prints
<1>. QED BY <1>2, <1>3

(* Where nobody but main() calls anything, it takes the steps.             *)
LEMMA AloneSteps ==
  ASSUME TypesOK, Alone, NEW p \in Pid, Step(p)
  PROVE  p = Main
BY Steps DEF Alone, Unused

(* With one child, it is main() or the child.                              *)
LEMMA ChildSteps ==
  ASSUME TypesOK, NEW c \in Pid, OneChild(c), NEW p \in Pid, Step(p)
  PROVE  p \in {Main, c}
BY Steps DEF OneChild, Unused

(* Types hold on; the wait status of fork.c is that of a child.            *)
LEMMA TypesKept ==
  ASSUME TypesOK, NEW p \in Pid, Step(p),
         Wait(p) => program # "fork" \/ -1 \notin Wait4(p, Arg(p), FALSE)
  PROVE  TypesOK'
<1>1. /\ status \in [Pid -> {"free", "live", "zombie"}] /\ parent \in [Pid -> Pid \cup {NoPid}]
      /\ code \in [Pid -> Int] /\ program \in Programs /\ whole \in BOOLEAN
      /\ todo \in [Pid -> Seq(CallSet)] /\ console \in Seq(Tokens) /\ buffer \in Seq(Tokens)
      /\ writers \subseteq Pid /\ cpid \in Int /\ failed \in BOOLEAN /\ marked \in Nat
  BY DEF TypesOK, ProcTypeOK
<1>2. /\ todo[p] \in Seq(CallSet) /\ todo[p] # <<>> /\ Head(todo[p]) \in CallSet
      /\ Tail(todo[p]) \in Seq(CallSet)
  BY Steps
<1>3. \A more \in Seq(CallSet) : Then(p, more) => todo' \in [Pid -> Seq(CallSet)]
  <2> SUFFICES ASSUME NEW more \in Seq(CallSet), Then(p, more)
               PROVE  todo' \in [Pid -> Seq(CallSet)]
    OBVIOUS
  <2>1. PICK t \in Seq(CallSet) : t = Tail(todo[p]) \o more
    BY <1>2, JoinedCalls
  <2>2. todo' = [todo EXCEPT ![p] = t]
    BY <2>1, Zenon DEF Then
  <2>. QED BY <1>1, <2>2
<1>4. <<>> \in Seq(CallSet)
  OBVIOUS
<1>5. CASE Write(p)
  <2>1. Arg(p) \in Seq(Tokens)
    BY <1>2, <1>5, CallArgs DEF Write, Calls, Arg
  <2>2. console' = console \o Arg(p) /\ console' \in Seq(Tokens)
    BY <1>1, <1>5, <2>1 DEF Write
  <2>3. Len(console') \in Nat
    BY <2>2
  <2>4. marked' \in Nat
    BY <1>1, <1>5, <2>3 DEF Write
  <2>5. todo' \in [Pid -> Seq(CallSet)]
    BY <1>3, <1>4, <1>5 DEF Write
  <2>. QED BY <1>1, <1>5, <2>2, <2>4, <2>5 DEF Write, TypesOK, ProcTypeOK, procVars, pipe
<1>6. CASE ForkChild(p)
  <2>1. PICK c \in Pid :
          /\ Fork(p, c) /\ cpid' = c
          /\ todo' = [todo EXCEPT ![p] = Tail(@) \o AfterFork(c), ![c] = Child(Arg(p), c)]
          /\ writers' = IF p \in writers THEN writers \cup {c} ELSE writers
    BY <1>6 DEF ForkChild
  <2>2. Arg(p) \in Int /\ c \in Int
    BY <1>2, <1>6, CallArgs, PidAssumption DEF ForkChild, Calls, Arg
  <2>3. PICK a, b \in Seq(CallSet) : a = Tail(todo[p]) \o AfterFork(c) /\ b = Child(Arg(p), c)
    BY <1>1, <1>2, <2>2, AfterForkType, ChildType, JoinedCalls
  <2>4. todo' = [todo EXCEPT ![p] = a, ![c] = b]
    BY <2>1, <2>3, Zenon
  <2>5. todo' \in [Pid -> Seq(CallSet)]
    BY <1>1, <2>4
  <2>6. status' \in [Pid -> {"free", "live", "zombie"}] /\ parent' \in [Pid -> Pid \cup {NoPid}]
        /\ code' = code
    BY <1>1, <2>1 DEF Fork
  <2>7. cpid' \in Int /\ writers' \subseteq Pid
    BY <1>1, <2>1, <2>2
  <2>. QED BY <1>1, <1>6, <2>5, <2>6, <2>7 DEF ForkChild, TypesOK, ProcTypeOK
<1>7. CASE ForkError(p)
  <2>1. PICK error \in {-1, -11} : cpid' = error /\ Then(p, AfterFork(error))
    BY <1>7 DEF ForkError
  <2>2. todo' \in [Pid -> Seq(CallSet)]
    BY <1>1, <1>3, <2>1, AfterForkType
  <2>. QED BY <1>1, <1>7, <2>1, <2>2 DEF ForkError, TypesOK, ProcTypeOK, procVars, pipe
<1>8. CASE Wait(p)
  <2>1. PICK r \in Wait4(p, Arg(p), FALSE) : Reap(r) /\ Then(p, AfterWait(r))
    BY <1>8 DEF Wait
  <2>2. r \in Pid \cup {-1}
    BY <2>1 DEF Wait4, Children
  <2>3. r \in Pid \/ program # "fork"
    BY <1>8, <2>1, <2>2
  <2>4. todo' \in [Pid -> Seq(CallSet)]
    BY <1>3, <2>1, <2>2, <2>3, AfterWaitType
  <2>5. ProcTypeOK'
    <3>1. CASE r \in Pid
      BY <1>1, <2>1, <3>1 DEF Reap, ProcTypeOK
    <3>2. CASE r \notin Pid
      BY <1>1, <2>1, <3>2 DEF Reap, ProcTypeOK, procVars
    <3>. QED BY <3>1, <3>2
  <2>. QED BY <1>1, <1>8, <2>4, <2>5 DEF Wait, TypesOK, pipe
<1>9. CASE ExitProcess(p)
  <2>1. Arg(p) \in Int
    BY <1>2, <1>9, CallArgs DEF ExitProcess, Calls, Arg
  <2>2. ProcTypeOK'
    BY <1>1, <1>9, <2>1 DEF ExitProcess, Exit, ProcTypeOK
  <2>3. todo' \in [Pid -> Seq(CallSet)]
    BY <1>1, <1>4, <1>9 DEF ExitProcess
  <2>. QED BY <1>1, <1>9, <2>2, <2>3 DEF ExitProcess, TypesOK
<1>10. CASE Pipe(p)
  <2>1. CASE writers' = {p} /\ Then(p, <<>>) /\ UNCHANGED failed
    BY <1>1, <1>3, <1>4, <1>10, <2>1 DEF Pipe, TypesOK, ProcTypeOK, procVars
  <2>2. CASE /\ failed' = TRUE
             /\ todo' = [todo EXCEPT ![p] =
                  printf(<<"ERROR: pipe returned ">>, <<"-N">>, <<")", NL>>) \o Marker("FAIL")]
             /\ UNCHANGED writers
    <3>1. /\ <<"ERROR: pipe returned ">> \in Seq(Tokens) /\ <<"-N">> \in Seq(Tokens)
          /\ <<")", NL>> \in Seq(Tokens) /\ "FAIL" \in Texts
      BY TokenTypes, TupleTypes, Zenon DEF Texts
    <3>2. PICK a \in Seq(CallSet) :
            a = printf(<<"ERROR: pipe returned ">>, <<"-N">>, <<")", NL>>) \o Marker("FAIL")
      <4>1. printf(<<"ERROR: pipe returned ">>, <<"-N">>, <<")", NL>>) \in Seq(CallSet)
        BY <3>1, PrintfGives, Zenon
      <4>2. Marker("FAIL") \in Seq(CallSet)
        BY <1>1, <3>1, MarkerCalls, Zenon
      <4>. QED BY <4>1, <4>2, JoinedCalls, Zenon
    <3>3. todo' = [todo EXCEPT ![p] = a]
      BY <2>2, <3>2, Zenon
    <3>4. todo' \in [Pid -> Seq(CallSet)]
      BY <1>1, <3>3
    <3>5. failed' = TRUE /\ writers' = writers
      BY <2>2, Zenon
    <3>6. UNCHANGED <<procVars, program, whole, console, buffer, cpid, marked>>
      BY <1>10, Zenon DEF Pipe
    <3>. QED BY <1>1, <3>4, <3>5, <3>6 DEF TypesOK, ProcTypeOK, procVars
  <2>. QED BY <1>10, <2>1, <2>2, Zenon DEF Pipe
<1>11. CASE Put(p)
  <2>1. Arg(p) \in Seq(Tokens)
    BY <1>2, <1>11, CallArgs DEF Put, Calls, Arg
  <2>2. buffer' \in Seq(Tokens)
    BY <1>1, <1>11, <2>1 DEF Put
  <2>3. todo' \in [Pid -> Seq(CallSet)]
    BY <1>3, <1>4, <1>11 DEF Put
  <2>. QED BY <1>1, <1>11, <2>2, <2>3 DEF Put, TypesOK, ProcTypeOK, procVars
<1>12. CASE Close(p)
  <2>1. todo' \in [Pid -> Seq(CallSet)]
    BY <1>3, <1>4, <1>12 DEF Close
  <2>. QED BY <1>1, <1>12, <2>1 DEF Close, TypesOK, ProcTypeOK, procVars
<1>13. CASE Copy(p)
  <2>1. CASE /\ buffer # <<>>
             /\ console' = Append(console, Head(buffer))
             /\ buffer' = Tail(buffer)
             /\ UNCHANGED todo
    <3>1. console' \in Seq(Tokens) /\ buffer' \in Seq(Tokens)
      BY <1>1, <2>1
    <3>. QED BY <1>1, <1>13, <2>1, <3>1 DEF Copy, TypesOK, ProcTypeOK, procVars
  <2>2. CASE Then(p, <<>>) /\ UNCHANGED <<console, buffer>>
    <3>1. todo' \in [Pid -> Seq(CallSet)]
      BY <1>3, <1>4, <2>2
    <3>. QED BY <1>1, <1>13, <2>2, <3>1 DEF Copy, TypesOK, ProcTypeOK, procVars
  <2>. QED BY <1>13, <2>1, <2>2 DEF Copy
<1>. QED BY <1>5, <1>6, <1>7, <1>8, <1>9, <1>10, <1>11, <1>12, <1>13, Zenon DEF Step

-----------------------------------------------------------------------------
(* main() on its own.                                                      *)

Still == UNCHANGED <<program, whole, cpid, failed>>

(* Main goes on calling, and the processes are as they were.               *)
LEMMA MainGoesOn ==
  ASSUME TypesOK, Family, Alone, UNCHANGED procVars,
         \A o \in Pid \ {Main} : todo'[o] = todo[o],
         todo[Main] # <<>>, todo'[Main] # <<>>
  PROVE  Alone' /\ Family'
BY DEF TypesOK, ProcTypeOK, procVars, Alone, Unused, Family

(* When main() exits, it has called everything and nobody is left.         *)
LEMMA MainExits ==
  ASSUME TypesOK, Family, Alone, ExitProcess(Main)
  PROVE  /\ Alone' /\ Family' /\ todo'[Main] = <<>>
         /\ Still /\ UNCHANGED <<console, marked, buffer>>
<1>1. /\ status \in [Pid -> {"free", "live", "zombie"}] /\ parent \in [Pid -> Pid \cup {NoPid}]
      /\ todo \in [Pid -> Seq(CallSet)] /\ Main \in Pid /\ NoPid \notin Pid
  BY PidAssumption DEF TypesOK, ProcTypeOK, NoPid
<1>2. parent[Main] = NoPid /\ \A p \in Pid : parent[p] \in {NoPid, Main}
  BY DEF Family
<1>3. todo' = [todo EXCEPT ![Main] = <<>>]
  BY DEF ExitProcess
<1>4. /\ status' = [q \in Pid |->
                  IF q = Main THEN IF parent[Main] = NoPid THEN "free" ELSE "zombie"
                  ELSE IF parent[q] = Main /\ status[q] = "zombie" THEN "free"
                  ELSE status[q]]
      /\ parent' = [q \in Pid |-> IF parent[q] = Main THEN NoPid ELSE parent[q]]
  BY DEF ExitProcess, Exit
<1>5. todo'[Main] = <<>> /\ status'[Main] = "free" /\ parent'[Main] = NoPid
  BY <1>1, <1>2, <1>3, <1>4
<1>6. Alone'
  BY <1>1, <1>3, <1>4 DEF Alone, Unused
<1>7. \A p \in Pid : parent'[p] \in {NoPid, Main}
  BY <1>1, <1>2, <1>4
<1>. QED BY <1>5, <1>6, <1>7 DEF Family, ExitProcess, Still

(* A process that prints has something to call.                            *)
LEMMA PrintsSomething ==
  ASSUME TypesOK, NEW p \in Pid, NEW text, NEW after \in Seq(CallSet), after # <<>>,
         Prints(p, text, after)
  PROVE  todo[p] # <<>>
<1>1. PICK q \in Seq(CallSet) : todo[p] = q \o after
  BY DEF Prints
<1>2. q \o after # <<>>
  OBVIOUS
<1>. QED BY <1>1, <1>2, Zenon

(* From the marker on, main() prints the rest of its line and exits.       *)
LEMMA MarkSteps ==
  ASSUME TypesOK, Family, Alone, NEW text \in Seq(Tokens), NEW word \in Texts,
         AfterMark(text, word), Step(Main)
  PROVE  AfterMark(text, word)' /\ Alone' /\ Family' /\ Still
<1> DEFINE w == Call("write", <<program>>)
           e == Call("write", <<"=", NL>>)
           x == Call("exit", 0)
<1>1. /\ Main \in Pid /\ todo \in [Pid -> Seq(CallSet)] /\ console \in Seq(Tokens)
      /\ program \in Programs
  BY PidAssumption DEF TypesOK
<1>2. /\ <<program>> \in Seq(Tokens) /\ <<"=", NL>> \in Seq(Tokens) /\ <<word>> \in Seq(Tokens)
      /\ marked = Len(text) + 1
  BY <1>1, MarkerCalls DEF AfterMark
<1>3. PICK a, b, c \in CallSet : a = w /\ b = e /\ c = x
  <2>1. 0 \in Int
    OBVIOUS
  <2>. QED BY <1>2, <2>1, CallTypes, Zenon
<1>4. /\ a.op = "write" /\ a.arg = <<program>> /\ b.op = "write" /\ b.arg = <<"=", NL>>
      /\ c.op = "exit"
  BY <1>3, CallFields
<1>5. ASSUME NEW d \in CallSet, NEW t \in Seq(CallSet), t # <<>>, NEW u \in Seq(Tokens),
             todo[Main] # <<>>, Head(todo[Main]) = d, Tail(todo[Main]) = t,
             d.op = "write", d.arg = u
      PROVE  /\ todo'[Main] = t /\ console' = console \o u /\ marked' = marked
             /\ Alone' /\ Family' /\ Still
  <2>1. Write(Main) /\ ~Calls(Main, "mark") /\ Arg(Main) = u
    BY <1>1, <1>5, Steps DEF Calls, Arg
  <2>2. t \o <<>> = t
    BY Joined
  <2>3. todo' = [todo EXCEPT ![Main] = t]
    BY <1>5, <2>1, <2>2, Zenon DEF Write, Then
  <2>4. todo'[Main] = t /\ \A o \in Pid \ {Main} : todo'[o] = todo[o]
    BY <1>1, <2>3
  <2>5. UNCHANGED procVars /\ Still /\ console' = console \o u /\ marked' = marked
    BY <2>1 DEF Write, Still
  <2>. QED BY <1>5, <2>4, <2>5, MainGoesOn
<1>6. CASE /\ todo[Main] = <<w, e, x>>
           /\ console = text \o <<word>>
  <2>1. /\ todo[Main] # <<>> /\ Head(todo[Main]) = a /\ Tail(todo[Main]) = <<b, c>>
        /\ <<b, c>> \in Seq(CallSet) /\ <<b, c>> # <<>>
    BY <1>3, <1>6
  <2>2. /\ todo'[Main] = <<b, c>> /\ console' = console \o <<program>> /\ marked' = marked
        /\ Alone' /\ Family' /\ Still
    BY <1>2, <1>4, <1>5, <2>1
  <2>3. (text \o <<word>>) \o <<program>> = text \o (<<word>> \o <<program>>)
    BY <1>2, JoinedThree, Zenon
  <2>4. console' = text \o <<word, program>>
    BY <1>6, <2>2, <2>3, Tuples, Zenon
  <2>. QED BY <1>2, <1>3, <2>2, <2>4, Zenon DEF AfterMark, Still
<1>7. CASE /\ todo[Main] = <<e, x>>
           /\ console = text \o <<word, program>>
  <2>1. /\ todo[Main] # <<>> /\ Head(todo[Main]) = b /\ Tail(todo[Main]) = <<c>>
        /\ <<c>> \in Seq(CallSet) /\ <<c>> # <<>>
    BY <1>3, <1>7
  <2>2. /\ todo'[Main] = <<c>> /\ console' = console \o <<"=", NL>> /\ marked' = marked
        /\ Alone' /\ Family' /\ Still
    BY <1>2, <1>4, <1>5, <2>1
  <2>3. <<word, program>> \in Seq(Tokens)
    BY <1>1, TokenTypes, TupleTypes, Zenon
  <2>4. (text \o <<word, program>>) \o <<"=", NL>> = text \o (<<word, program>> \o <<"=", NL>>)
    BY <1>2, <2>3, JoinedThree, Zenon
  <2>5. <<word, program>> \o <<"=", NL>> = <<word, program, "=", NL>>
    BY Tuples
  <2>6. console' = text \o <<word, program, "=", NL>>
    BY <1>7, <2>2, <2>4, <2>5, Zenon
  <2>. QED BY <1>2, <1>3, <2>2, <2>6, Zenon DEF AfterMark, Still
<1>8. CASE /\ todo[Main] \in {<<x>>, <<>>}
           /\ console = text \o <<word, program, "=", NL>>
  <2>1. todo[Main] # <<>>
    BY <1>1, Steps
  <2>2. Head(todo[Main]) = c
    BY <1>3, <1>8, <2>1
  <2>3. ExitProcess(Main)
    BY <1>1, <1>4, <2>2, Steps
  <2>. QED BY <1>2, <1>8, <2>3, MainExits, Zenon DEF AfterMark, Still
<1>. QED BY <1>6, <1>7, <1>8, Zenon DEF AfterMark

(* A report stays one until the marker is printed and afterwards.          *)
LEMMA ReportSteps ==
  ASSUME TypesOK, Family, Alone, NEW text \in Seq(Tokens), NEW word \in Texts,
         Reports(text, word), Step(Main)
  PROVE  Reports(text, word)' /\ Alone' /\ Family' /\ Still
<1>1. Main \in Pid /\ todo \in [Pid -> Seq(CallSet)] /\ program \in Programs
  BY PidAssumption DEF TypesOK
<1>2. PICK m \in Seq(CallSet) : m = Marker(word) /\ m # <<>>
  BY <1>1, MarkerCalls
<1>3. program' = program => m = Marker(word)'
  BY <1>2 DEF Marker
<1>4. CASE marked = 0 /\ Prints(Main, text, m)
  <2>1. CASE /\ UNCHANGED <<procVars, program, whole, cpid, failed, marked>>
             /\ \A o \in Pid \ {Main} : todo'[o] = todo[o]
             /\ Prints(Main, text, m)'
    <3>1. todo[Main] # <<>>
      BY <1>1, Steps
    <3>2. \E q \in Seq(CallSet) : todo'[Main] = q \o m
      BY <2>1, Zenon DEF Prints
    <3>3. todo'[Main] # <<>>
      <4>1. PICK q \in Seq(CallSet) : todo'[Main] = q \o m
        BY <3>2
      <4>2. q \o m # <<>>
        BY <1>2
      <4>. QED BY <4>1, <4>2, Zenon
    <3>4. Alone' /\ Family' /\ marked' = 0 /\ program' = program /\ Still
      BY <1>4, <2>1, <3>1, <3>3, MainGoesOn DEF Still
    <3>. QED BY <1>3, <2>1, <3>4, Zenon DEF Reports
  <2>2. CASE todo[Main] = m /\ console = text
    <3> DEFINE w == Call("write", <<program>>)
               e == Call("write", <<"=", NL>>)
               x == Call("exit", 0)
    <3>1. PICK k, a, b, c \in CallSet :
            /\ k = Call("mark", <<word>>) /\ a = w /\ b = e /\ c = x
            /\ todo[Main] = <<k, a, b, c>> /\ <<word>> \in Seq(Tokens)
      <4>1. /\ Marker(word) = <<Call("mark", <<word>>), w, e, x>>
            /\ <<word>> \in Seq(Tokens) /\ <<program>> \in Seq(Tokens)
            /\ <<"=", NL>> \in Seq(Tokens)
        BY <1>1, MarkerCalls
      <4>2. /\ Call("mark", <<word>>) \in CallSet /\ w \in CallSet /\ e \in CallSet /\ x \in CallSet
        <5>1. 0 \in Int
          OBVIOUS
        <5>. QED BY <4>1, <5>1, CallTypes, Zenon
      <4>. QED BY <1>2, <2>2, <4>1, <4>2, Zenon
    <3>2. k.op = "mark" /\ k.arg = <<word>>
      BY <3>1, CallFields
    <3>3. /\ Head(todo[Main]) = k /\ Tail(todo[Main]) = <<a, b, c>>
          /\ todo[Main] # <<>> /\ <<a, b, c>> \o <<>> = <<a, b, c>> /\ <<a, b, c>> # <<>>
      BY <3>1
    <3>4. Write(Main) /\ Calls(Main, "mark") /\ Arg(Main) = <<word>>
      BY <1>1, <3>2, <3>3, Steps DEF Calls, Arg
    <3>5. /\ todo' = [todo EXCEPT ![Main] = <<a, b, c>>]
          /\ console' = text \o <<word>> /\ marked' = Len(console')
          /\ UNCHANGED procVars /\ Still
      BY <2>2, <3>3, <3>4, Zenon DEF Write, Then, Still
    <3>6. todo'[Main] = <<a, b, c>> /\ \A o \in Pid \ {Main} : todo'[o] = todo[o]
      BY <1>1, <3>5
    <3>7. Len(console') = Len(text) + 1
      <4>1. Len(text \o <<word>>) = Len(text) + 1
        BY <3>1
      <4>. QED BY <3>5, <4>1, Zenon
    <3>8. Alone' /\ Family'
      BY <3>3, <3>5, <3>6, MainGoesOn
    <3>9. AfterMark(text, word)'
      BY <3>1, <3>5, <3>6, <3>7, Zenon DEF AfterMark, Still
    <3>. QED BY <3>5, <3>8, <3>9 DEF Reports
  <2>. QED BY <1>1, <1>2, <1>4, <2>1, <2>2, PrintsStep
<1>5. CASE AfterMark(text, word)
  BY <1>5, MarkSteps DEF Reports
<1>. QED BY <1>2, <1>4, <1>5, Zenon DEF Reports

-----------------------------------------------------------------------------
(* fork, wait, waitpid and clone.                                          *)

(* The texts are those of the program, which stays the same.               *)
LEMMA SameTexts ==
  ASSUME program' = program
  PROVE  /\ ChildText' = ChildText /\ ChildCode' = ChildCode
         /\ \A r : ParentText(r)' = ParentText(r)
         /\ \A w : Marker(w)' = Marker(w)
BY Zenon DEF ChildText, ChildCode, ParentText, Marker

(* A process that prints does not wait.                                    *)
LEMMA PrintsNoWait ==
  ASSUME TypesOK, NEW p \in Pid, NEW text, NEW after \in Seq(CallSet),
         Prints(p, text, after), after # <<>>, Head(after).op # "wait"
  PROVE  ~Wait(p)
<1>1. PICK q \in Seq(CallSet) : Quiet(q) /\ todo[p] = q \o after
  BY DEF Prints
<1>2. CASE q = <<>>
  <2>1. todo[p] = <<>> \o after
    BY <1>1, <1>2, Zenon
  <2>2. todo[p] = after
    BY <2>1, Joined
  <2>. QED BY <2>2 DEF Wait, Calls
<1>3. CASE q # <<>>
  <2>1. Head(q \o after) = Head(q)
    BY <1>3, HeadJoined
  <2>2. Head(q).op # "wait"
    BY <1>1, <1>3, QuietTail
  <2>3. Head(todo[p]).op # "wait"
    BY <1>1, <2>1, <2>2, Zenon
  <2>. QED BY <2>3 DEF Wait, Calls
<1>. QED BY <1>2, <1>3

(* The call exit() makes.                                                  *)
LEMMA ExitHead == \A x \in Int : exit(x) # <<>> /\ Head(exit(x)).op = "exit"
<1> SUFFICES ASSUME NEW x \in Int PROVE exit(x) # <<>> /\ Head(exit(x)).op = "exit"
  OBVIOUS
<1>1. PICK c \in CallSet : c = Call("exit", x) /\ c.op = "exit"
  BY CallTypes, CallFields
<1>2. exit(x) = <<c>>
  BY <1>1, Zenon DEF exit
<1>3. <<c>> # <<>> /\ Head(<<c>>) = c
  OBVIOUS
<1>. QED BY <1>1, <1>2, <1>3, Zenon

(* The first call of a marker prints it.                                   *)
LEMMA MarkerHead ==
  ASSUME program \in Programs, NEW word \in Texts
  PROVE  Head(Marker(word)).op = "mark" /\ Marker(word) # <<>> /\ Marker(word) \in Seq(CallSet)
<1>1. /\ Marker(word) = <<Call("mark", <<word>>), Call("write", <<program>>),
                          Call("write", <<"=", NL>>), Call("exit", 0)>>
      /\ Marker(word) # <<>> /\ Marker(word) \in Seq(CallSet)
  BY MarkerCalls
<1>2. Head(Marker(word)) = Call("mark", <<word>>)
  BY <1>1
<1>. QED BY <1>1, <1>2, CallFields, Zenon

(* A process that reports does not wait.                                   *)
LEMMA ReportsNoWait ==
  ASSUME TypesOK, NEW text, NEW word \in Texts, Reports(text, word)
  PROVE  ~Wait(Main)
<1>1. program \in Programs /\ Main \in Pid
  BY PidAssumption DEF TypesOK
<1>2. PICK m \in Seq(CallSet) : m = Marker(word) /\ m # <<>> /\ Head(m).op = "mark"
  BY <1>1, MarkerHead
<1>3. CASE Prints(Main, text, m)
  BY <1>1, <1>2, <1>3, PrintsNoWait
<1>4. CASE AfterMark(text, word)
  <2>1. todo[Main] # <<>> => Head(todo[Main]) \in {Call("write", <<program>>),
                                                  Call("write", <<"=", NL>>), Call("exit", 0)}
    <3> DEFINE w == Call("write", <<program>>)
               e == Call("write", <<"=", NL>>)
               x == Call("exit", 0)
    <3>1. todo[Main] \in {<<w, e, x>>, <<e, x>>, <<x>>, <<>>}
      BY <1>4, Zenon DEF AfterMark
    <3> HIDE DEF w, e, x
    <3>2. todo[Main] # <<>> => Head(todo[Main]) \in {w, e, x}
      BY <3>1
    <3>. QED BY <3>2 DEF w, e, x
  <2>2. todo[Main] # <<>> => Head(todo[Main]).op # "wait"
    BY <2>1, CallFields
  <2>. QED BY <2>2 DEF Wait, Calls
<1>. QED BY <1>2, <1>3, <1>4, Zenon DEF Reports

(* A process that prints and exits goes on doing so.                       *)
LEMMA ExitsSteps ==
  ASSUME TypesOK, Family, Alone, NEW text, NEW x \in Int, PrintsAndExits(Main, text, x),
         Step(Main)
  PROVE  /\ PrintsAndExits(Main, text, x)' /\ Alone' /\ Family' /\ Still /\ marked' = marked
         /\ ~Wait(Main)
<1>1. Main \in Pid /\ todo \in [Pid -> Seq(CallSet)]
  BY PidAssumption DEF TypesOK
<1>2. todo[Main] # <<>>
  BY <1>1, Steps
<1>3. PICK m \in Seq(CallSet) : m = exit(x) /\ m # <<>> /\ Head(m).op = "exit"
  BY ExitType, ExitHead
<1>4. Prints(Main, text, m)
  BY <1>2, <1>3, Zenon DEF PrintsAndExits
<1>5. ~Wait(Main)
  BY <1>1, <1>3, <1>4, PrintsNoWait
<1>6. CASE /\ UNCHANGED <<procVars, program, whole, cpid, failed, marked>>
           /\ \A o \in Pid \ {Main} : todo'[o] = todo[o]
           /\ Prints(Main, text, m)'
  <2>1. todo'[Main] # <<>>
    <3>1. PICK q \in Seq(CallSet) : todo'[Main] = q \o m
      BY <1>6, Zenon DEF Prints
    <3>2. q \o m # <<>>
      BY <1>3
    <3>. QED BY <3>1, <3>2, Zenon
  <2>2. Alone' /\ Family' /\ Still /\ marked' = marked
    BY <1>2, <1>6, <2>1, MainGoesOn DEF Still
  <2>. QED BY <1>3, <1>5, <1>6, <2>2, Zenon DEF PrintsAndExits
<1>7. CASE todo[Main] = m /\ console = text
  <2>1. ExitProcess(Main)
    BY <1>1, <1>2, <1>3, <1>7, Steps
  <2>. QED BY <1>5, <1>7, <2>1, MainExits DEF PrintsAndExits, Still
<1>. QED BY <1>1, <1>4, <1>6, <1>7, PrintsStep

(* fork() gives main() its one child.                                      *)
LEMMA FirstChild ==
  ASSUME TypesOK, Family, Alone, todo[Main] = <<Call("fork", 0)>>, NEW p \in Pid, Step(p)
  PROVE  /\ p = Main /\ ~Wait(Main) /\ program' = program /\ whole' = whole
         /\ console' = console /\ marked' = marked /\ buffer' = buffer
         /\ \/ \E c \in Pid \ {Main} :
                 /\ OneChild(c)' /\ cpid' = c /\ status'[c] = "live"
                 /\ todo'[Main] = AfterFork(c) /\ todo'[c] = Child(0, c)
                 /\ failed' = failed
                 /\ AfterFork(c) # <<>> => Family'
                 /\ writers' = IF Main \in writers THEN writers \cup {c} ELSE writers
            \/ \E error \in {-1, -11} :
                 /\ Alone' /\ cpid' = error /\ failed' = TRUE
                 /\ todo'[Main] = AfterFork(error)
                 /\ AfterFork(error) # <<>> => Family'
                 /\ writers' = writers
<1>1. /\ Main \in Pid /\ todo \in [Pid -> Seq(CallSet)] /\ program \in Programs
      /\ status \in [Pid -> {"free", "live", "zombie"}] /\ parent \in [Pid -> Pid \cup {NoPid}]
      /\ NoPid \notin Pid
  BY PidAssumption DEF TypesOK, ProcTypeOK, NoPid
<1>2. p = Main
  BY AloneSteps
<1>3. PICK f \in CallSet : f = Call("fork", 0) /\ f.op = "fork" /\ f.arg = 0
  <2>1. Call("fork", 0) \in CallSet
    BY CallTypes
  <2>. QED BY <2>1, CallFields
<1>4. /\ todo[Main] = <<f>> /\ todo[Main] # <<>> /\ Head(todo[Main]) = f
      /\ Tail(todo[Main]) = <<>>
  BY <1>3
<1>5. ForkChild(Main) \/ ForkError(Main)
  BY <1>2, <1>3, <1>4, Steps
<1>6. ~Wait(Main)
  BY <1>3, <1>4 DEF Wait, Calls
<1>7. /\ status[Main] = "live" /\ parent[Main] = NoPid /\ \A q \in Pid : parent[q] \in {NoPid, Main}
      /\ \A q \in Pid \ {Main} : status[q] = "free" /\ todo[q] = <<>>
  BY <1>4 DEF Family, Alone, Unused
<1>8. CASE ForkChild(Main)
  <2>1. PICK c \in Pid :
          /\ Fork(Main, c) /\ cpid' = c
          /\ todo' = [todo EXCEPT ![Main] = Tail(@) \o AfterFork(c), ![c] = Child(Arg(Main), c)]
          /\ writers' = IF Main \in writers THEN writers \cup {c} ELSE writers
    BY <1>8 DEF ForkChild
  <2>2. c # Main /\ c \in Int
    BY <1>7, <2>1, PidAssumption DEF Fork
  <2>3. PICK a, b \in Seq(CallSet) : a = AfterFork(c) /\ b = Child(0, c)
    BY <1>1, <2>2, AfterForkType, ChildType
  <2>4. <<>> \o a = a /\ Arg(Main) = 0
    BY <1>3, <1>4, Joined DEF Arg
  <2>5. todo' = [todo EXCEPT ![Main] = a, ![c] = b]
    BY <1>4, <2>1, <2>3, <2>4, Zenon
  <2>6. /\ todo'[Main] = a /\ todo'[c] = b
        /\ \A q \in Pid \ {Main, c} : todo'[q] = <<>>
    BY <1>1, <1>7, <2>2, <2>5
  <2>7. /\ status' = [status EXCEPT ![c] = "live"] /\ parent' = [parent EXCEPT ![c] = Main]
    BY <2>1 DEF Fork
  <2>8. /\ status'[c] = "live" /\ parent'[c] = Main /\ status'[Main] = "live"
        /\ parent'[Main] = NoPid /\ \A q \in Pid : parent'[q] \in {NoPid, Main}
        /\ \A q \in Pid \ {Main, c} : status'[q] = "free"
    BY <1>1, <1>7, <2>2, <2>7
  <2>9. OneChild(c)'
    BY <2>2, <2>6, <2>8 DEF OneChild, Unused
  <2>10. a # <<>> => Family'
    BY <2>6, <2>8 DEF Family
  <2>11. UNCHANGED <<program, whole, console, buffer, failed, marked>>
    BY <1>8 DEF ForkChild
  <2>. QED BY <1>2, <1>6, <2>1, <2>2, <2>3, <2>6, <2>8, <2>9, <2>10, <2>11
<1>9. CASE ForkError(Main)
  <2>1. PICK error \in {-1, -11} : cpid' = error /\ Then(Main, AfterFork(error))
    BY <1>9 DEF ForkError
  <2>2. PICK a \in Seq(CallSet) : a = AfterFork(error)
    <3>1. error \in Int
      BY <2>1
    <3>. QED BY <1>1, <3>1, AfterForkType
  <2>3. <<>> \o a = a
    BY Joined
  <2>4. todo' = [todo EXCEPT ![Main] = a]
    BY <1>4, <2>1, <2>2, <2>3, Zenon DEF Then
  <2>5. todo'[Main] = a /\ \A q \in Pid \ {Main} : todo'[q] = todo[q]
    BY <1>1, <2>4
  <2>6. UNCHANGED <<procVars, program, whole, console, pipe, marked>> /\ failed' = TRUE
    BY <1>9 DEF ForkError
  <2>7. Alone'
    BY <2>5, <2>6 DEF Alone, Unused, procVars
  <2>8. a # <<>> => Family'
    BY <1>4, <2>5, <2>6, <2>7, MainGoesOn
  <2>. QED BY <1>2, <1>6, <2>1, <2>2, <2>5, <2>6, <2>7, <2>8 DEF pipe
<1>. QED BY <1>5, <1>8, <1>9

(* Waiting once.                                                           *)
LEMMA WaitOnce == wait(1) = <<Call("wait", Pid)>>
<1>1. wait(1) = [i \in 1 .. 1 |-> Call("wait", Pid)]
  BY DEF wait
<1>2. \A x : [i \in 1 .. 1 |-> x] = <<x>>
  OBVIOUS
<1>. QED BY <1>1, <1>2, Zenon

(* write(text) and then exit(x) prints text and exits.                     *)
LEMMA WriteAndExit ==
  ASSUME NEW p, NEW text \in Seq(Tokens), NEW x, console = <<>>,
         todo[p] = write(text) \o exit(x)
  PROVE  Prints(p, text, exit(x))
<1>1. write(text) \in Seq(CallSet) /\ Quiet(write(text)) /\ Gives(write(text), text)
  BY WriteGives
<1>2. <<>> \o text = text
  BY Joined
<1>. QED BY <1>1, <1>2, Zenon DEF Prints

(* After fork(): main() waits for the child, or goes wrong.                *)
LEMMA AfterForkCalls ==
  ASSUME program \in Simple, NEW r \in Int
  PROVE  /\ r > 0 => \/ AfterFork(r) = <<Call("wait", Pid)>>
                     \/ AfterFork(r) = <<Call("wait", {r})>>
         /\ r = -1 => \/ AfterFork(r) = Panic
                      \/ program = "wait" /\ AfterFork(r) = <<Call("wait", Pid)>>
         /\ r = -11 => \/ program = "fork" /\ AfterFork(r) = Child(0, Main)
                       \/ program # "fork" /\ AfterFork(r) = <<Call("wait", Pid)>>
                       \/ program = "waitpid" /\ AfterFork(r) = <<Call("wait", {r})>>
<1>1. (r > 0 => r # -1) /\ (r = -11 => r # -1 /\ ~(r > 0)) /\ (r = -1 => ~(r > 0))
  OBVIOUS
<1>2. CASE program = "fork"
  BY <1>1, <1>2, WaitOnce, Zenon DEF AfterFork
<1>3. CASE program = "wait"
  BY <1>1, <1>3, WaitOnce, Zenon DEF AfterFork
<1>4. CASE program = "waitpid"
  BY <1>1, <1>4, WaitOnce, Zenon DEF AfterFork
<1>5. CASE program = "clone"
  BY <1>1, <1>5, WaitOnce, Zenon DEF AfterFork
<1>. QED BY <1>2, <1>3, <1>4, <1>5 DEF Simple

(* From the beginning, fork() leads to waiting, or fails.                  *)
LEMMA BeginningSteps ==
  ASSUME TypesOK, Family, program \in Simple, Beginning, NEW p \in Pid, Step(p)
  PROVE  SimpleInv' /\ Family' /\ ~Wait(p)
<1>1. Alone /\ ~failed /\ marked = 0 /\ console = <<>> /\ todo[Main] = <<Call("fork", 0)>>
  BY DEF Beginning
<1>2. /\ p = Main /\ ~Wait(Main) /\ program' = program
      /\ console' = <<>> /\ marked' = 0
  BY <1>1, FirstChild
<1>3. /\ ChildText' = ChildText /\ ChildCode' = ChildCode /\ ChildText \in Seq(Tokens)
      /\ ChildCode \in Int /\ Panic # <<>>
      /\ \A c : Child(0, c) = write(ChildText) \o exit(ChildCode)
  <2>1. ChildText' = ChildText /\ ChildCode' = ChildCode
    BY <1>2, SameTexts
  <2>2. ChildText \in Seq(Tokens) /\ ChildCode \in {0, 3}
    BY ChildCalls
  <2>3. \A c : Child(0, c) = write(ChildText) \o exit(ChildCode)
    BY ChildCalls
  <2>4. Panic # <<>>
    <3>1. PICK a, b \in Seq(CallSet) : a = write(PanicText) /\ b = exit(-100) /\ b # <<>>
      <4>1. -100 \in Int
        OBVIOUS
      <4>. QED BY <4>1, PanicCalls, WriteGives, ExitType
    <3>2. a \o b # <<>>
      BY <3>1
    <3>. QED BY <3>1, <3>2, PanicCalls, Zenon
  <2>. QED BY <2>1, <2>2, <2>3, <2>4
<1>4. ASSUME NEW c \in Pid \ {Main},
             OneChild(c)', cpid' = c, status'[c] = "live",
             todo'[Main] = AfterFork(c), todo'[c] = Child(0, c),
             failed' = failed, AfterFork(c) # <<>> => Family'
      PROVE  SimpleInv' /\ Family'
  <2>1. c > 0 /\ c \in Int
    BY PidAssumption
  <2>2. \/ AfterFork(c) = <<Call("wait", Pid)>>
        \/ AfterFork(c) = <<Call("wait", {c})>>
    BY <2>1, AfterForkCalls
  <2>3. Waits(Pid)' \/ Waits({c})'
    BY <1>4, <2>2 DEF Waits
  <2>4. AfterFork(c) # <<>>
    <3>1. \A x : <<x>> # <<>>
      OBVIOUS
    <3>. QED BY <2>2, <3>1, Zenon
  <2>5. Prints(c, ChildText, exit(ChildCode))'
    <3>1. todo'[c] = write(ChildText) \o exit(ChildCode)
      BY <1>3, <1>4, Zenon
    <3>2. /\ write(ChildText) \in Seq(CallSet) /\ Quiet(write(ChildText))
          /\ Gives(write(ChildText), ChildText)
      BY <1>3, WriteGives
    <3>3. <<>> \o ChildText = ChildText
      BY <1>3, Joined
    <3>. QED BY <1>2, <1>3, <3>1, <3>2, <3>3, Zenon DEF Prints
  <2>6. Waiting'
    BY <1>1, <1>2, <1>4, <2>3, <2>5 DEF Waiting
  <2>. QED BY <1>4, <2>4, <2>6 DEF SimpleInv
<1>5. ASSUME NEW text \in Seq(Tokens), NEW x, todo'[Main] = write(text) \o exit(x)
      PROVE  Prints(Main, text, exit(x))'
  <2>1. write(text) \in Seq(CallSet) /\ Quiet(write(text)) /\ Gives(write(text), text)
    BY WriteGives
  <2>2. <<>> \o text = text
    BY Joined
  <2>. QED BY <1>2, <1>5, <2>1, <2>2, Zenon DEF Prints
<1>6. ASSUME NEW error \in {-1, -11}, Alone', cpid' = error, failed' = TRUE,
             todo'[Main] = AfterFork(error), AfterFork(error) # <<>> => Family'
      PROVE  SimpleInv' /\ Family'
  <2>1. error \in Int /\ {error} \in SUBSET Int /\ Pid \in SUBSET Int
    BY <1>6, PidAssumption
  <2>2. CASE AfterFork(error) = Panic
    <3>1. Prints(Main, PanicText, exit(-100))'
      BY <1>5, <1>6, <2>2, PanicCalls, Zenon
    <3>2. PrintsAndExits(Main, PanicText, -100)'
      BY <3>1 DEF PrintsAndExits, PanicText
    <3>. QED BY <1>2, <1>3, <1>6, <2>2, <3>2 DEF Failing, SimpleInv
  <2>3. CASE program = "fork" /\ AfterFork(error) = Child(0, Main)
    <3>1. ChildCode = 0
      BY <2>3 DEF ChildCode
    <3>2. PICK t \in Seq(Tokens) : t = ChildText
      BY <1>3
    <3>3. Prints(Main, t, exit(0))'
      BY <1>3, <1>5, <1>6, <2>3, <3>1, <3>2, Zenon
    <3>4. PrintsAndExits(Main, ChildText, 0)'
      BY <1>3, <3>2, <3>3, Zenon DEF PrintsAndExits
    <3>5. Family'
      <4>1. exit(0) \in Seq(CallSet) /\ exit(0) # <<>> /\ write(t) \in Seq(CallSet)
        BY <3>2, ExitType, WriteGives
      <4>2. write(t) \o exit(0) # <<>>
        BY <4>1
      <4>. QED BY <1>3, <1>6, <2>3, <3>1, <3>2, <4>2, Zenon
    <3>. QED BY <1>2, <1>6, <2>3, <3>4, <3>5 DEF Failing, SimpleInv
  <2>4. ASSUME NEW who \in SUBSET Int, AfterFork(error) = <<Call("wait", who)>>,
               program # "fork", program = "clone" => error = -11
        PROVE  SimpleInv' /\ Family'
    <3>1. Waits(who)' /\ Family'
      BY <1>6, <2>4 DEF Waits
    <3>. QED BY <1>2, <1>6, <2>4, <3>1 DEF Failing, SimpleInv
  <2>5. CASE error = -1
    <3>1. \/ AfterFork(error) = Panic
          \/ program = "wait" /\ AfterFork(error) = <<Call("wait", Pid)>>
      BY <2>1, <2>5, AfterForkCalls
    <3>. QED BY <2>1, <2>2, <2>4, <3>1
  <2>6. CASE error = -11
    <3>1. \/ program = "fork" /\ AfterFork(error) = Child(0, Main)
          \/ program # "fork" /\ AfterFork(error) = <<Call("wait", Pid)>>
          \/ program = "waitpid" /\ AfterFork(error) = <<Call("wait", {error})>>
      BY <2>1, <2>6, AfterForkCalls
    <3>. QED BY <2>1, <2>3, <2>4, <2>6, <3>1
  <2>. QED BY <2>5, <2>6
<1>7. \/ \E c \in Pid \ {Main} :
           /\ OneChild(c)' /\ cpid' = c /\ status'[c] = "live"
           /\ todo'[Main] = AfterFork(c) /\ todo'[c] = Child(0, c)
           /\ failed' = failed
           /\ AfterFork(c) # <<>> => Family'
      \/ \E error \in {-1, -11} :
           /\ Alone' /\ cpid' = error /\ failed' = TRUE
           /\ todo'[Main] = AfterFork(error)
           /\ AfterFork(error) # <<>> => Family'
  BY <1>1, FirstChild
<1>8. CASE \E c \in Pid \ {Main} :
             /\ OneChild(c)' /\ cpid' = c /\ status'[c] = "live"
             /\ todo'[Main] = AfterFork(c) /\ todo'[c] = Child(0, c)
             /\ failed' = failed
             /\ AfterFork(c) # <<>> => Family'
  BY <1>2, <1>4, <1>8, Zenon
<1>9. CASE \E error \in {-1, -11} :
             /\ Alone' /\ cpid' = error /\ failed' = TRUE
             /\ todo'[Main] = AfterFork(error)
             /\ AfterFork(error) # <<>> => Family'
  BY <1>2, <1>6, <1>9, Zenon
<1>. QED BY <1>7, <1>8, <1>9, Zenon

(* main() waits for its one child and reaps it.                            *)
LEMMA ChildReaped ==
  ASSUME TypesOK, Family, NEW c \in Pid, OneChild(c), NEW f \in CallSet, NEW m \in Seq(CallSet),
         todo[Main] # <<>>, Head(todo[Main]) = f, Tail(todo[Main]) = m, f.op = "wait", c \in f.arg,
         status[c] # "free", status[c] = "zombie" => todo[c] = <<>>, Step(Main)
  PROVE  /\ status[c] \notin {"live", "free"} /\ -1 \notin Wait4(Main, Arg(Main), FALSE)
         /\ todo'[Main] = m \o AfterWait(c) /\ Alone'
         /\ AfterWait(c) \in Seq(CallSet)
         /\ m \o AfterWait(c) # <<>> => Family'
         /\ Still /\ UNCHANGED <<console, marked, buffer, writers>>
<1>1. /\ Main \in Pid /\ todo \in [Pid -> Seq(CallSet)] /\ program \in Programs
      /\ status \in [Pid -> {"free", "live", "zombie"}] /\ parent \in [Pid -> Pid \cup {NoPid}]
      /\ NoPid \notin Pid /\ -1 \notin Pid
  BY PidAssumption DEF TypesOK, ProcTypeOK, NoPid
<1>2. /\ c # Main /\ parent[c] = Main /\ parent[Main] = NoPid /\ Main # NoPid
      /\ \A q \in Pid \ {Main, c} : status[q] = "free" /\ todo[q] = <<>>
      /\ \A q \in Pid : parent[q] \in {NoPid, Main}
  BY <1>1 DEF OneChild, Unused, Family
<1>6. Wait(Main) /\ Arg(Main) = f.arg
  BY <1>1, Steps DEF Arg
<1>7. PICK r \in Wait4(Main, f.arg, FALSE) : Reap(r) /\ Then(Main, AfterWait(r))
  BY <1>6 DEF Wait
<1>8. r = c /\ status[c] \notin {"live", "free"} /\ -1 \notin Wait4(Main, f.arg, FALSE)
  <2>1. Children(Main) \cap f.arg = {c}
    BY <1>2 DEF Children
  <2>. QED BY <1>1, <1>7, <2>1 DEF Wait4
<1>9. PICK a, d \in Seq(CallSet) : a = AfterWait(c) /\ d = m \o a
  BY AfterWaitType, JoinedCalls
<1>11. todo' = [todo EXCEPT ![Main] = d]
  BY <1>7, <1>8, <1>9, Zenon DEF Then
<1>12. /\ todo'[Main] = d /\ \A q \in Pid \ {Main} : todo'[q] = todo[q]
  BY <1>1, <1>11
<1>13. /\ status' = [status EXCEPT ![c] = "free"] /\ parent' = [parent EXCEPT ![c] = NoPid]
  BY <1>7, <1>8 DEF Reap
<1>14. status[c] = "zombie" /\ todo[c] = <<>> /\ status[Main] = "live"
  <2>1. status[c] \in {"free", "live", "zombie"}
    BY <1>1
  <2>. QED BY <1>8, <2>1 DEF Family
<1>15. Alone'
  BY <1>1, <1>2, <1>12, <1>13, <1>14 DEF Alone, Unused
<1>16. d # <<>> => Family'
  <2>1. status'[Main] = "live" /\ \A q \in Pid : parent'[q] \in {NoPid, Main}
    BY <1>1, <1>2, <1>13, <1>14
  <2>2. parent'[Main] = NoPid
    BY <1>1, <1>2, <1>13
  <2>. QED BY <1>12, <2>1, <2>2 DEF Family
<1>17. UNCHANGED <<program, whole, console, pipe, cpid, failed, marked>>
  BY <1>6 DEF Wait
<1>18. /\ status[c] \notin {"live", "free"} /\ -1 \notin Wait4(Main, Arg(Main), FALSE)
       /\ Alone' /\ Still /\ UNCHANGED <<console, marked, buffer, writers>>
  BY <1>6, <1>8, <1>15, <1>17 DEF Still, pipe
<1>. QED BY <1>9, <1>12, <1>16, <1>18, Zenon

(* main() reaps its only child and goes on.                                *)
LEMMA OneChildReaped ==
  ASSUME TypesOK, Family, NEW c \in Pid, OneChild(c), NEW who, c \in who, Waits(who),
         status[c] # "free", status[c] = "zombie" => todo[c] = <<>>, Step(Main)
  PROVE  /\ status[c] \notin {"live", "free"} /\ -1 \notin Wait4(Main, Arg(Main), FALSE)
         /\ todo'[Main] = AfterWait(c) /\ Alone'
         /\ AfterWait(c) \in Seq(CallSet)
         /\ AfterWait(c) # <<>> => Family'
         /\ Still /\ UNCHANGED <<console, marked, buffer, writers>>
<1>1. Main \in Pid
  BY PidAssumption
<1>2. todo[Main] = <<Call("wait", who)>>
  BY DEF Waits
<1>3. PICK f \in CallSet : f = Call("wait", who) /\ f.op = "wait" /\ f.arg = who
  <2>1. Head(todo[Main]) \in CallSet /\ Head(todo[Main]) = Call("wait", who)
    BY <1>1, <1>2, Steps
  <2>. QED BY <2>1, CallFields
<1>4. PICK m \in Seq(CallSet) : m = <<>> /\ Tail(todo[Main]) = m
  <2>1. todo[Main] = <<f>>
    BY <1>2, <1>3, Zenon
  <2>2. Tail(<<f>>) = <<>>
    OBVIOUS
  <2>3. <<>> \in Seq(CallSet)
    OBVIOUS
  <2>. QED BY <2>1, <2>2, <2>3, Zenon
<1>5. todo[Main] # <<>> /\ Head(todo[Main]) = f
  BY <1>2, <1>3
<1>6. /\ status[c] \notin {"live", "free"} /\ -1 \notin Wait4(Main, Arg(Main), FALSE)
      /\ todo'[Main] = m \o AfterWait(c) /\ Alone'
      /\ AfterWait(c) \in Seq(CallSet)
      /\ m \o AfterWait(c) # <<>> => Family'
      /\ Still /\ UNCHANGED <<console, marked, buffer, writers>>
  <2>1. f.op = "wait" /\ c \in f.arg
    BY <1>3
  <2>. QED BY <1>4, <1>5, <2>1, ChildReaped
<1>7. m \o AfterWait(c) = AfterWait(c)
  BY <1>4, <1>6, Joined
<1>. QED BY <1>6, <1>7, Zenon

(* The child prints its text and becomes a zombie.                         *)
LEMMA ChildExits ==
  ASSUME TypesOK, Family, NEW c \in Pid, OneChild(c), ExitProcess(c), todo[Main] # <<>>
  PROVE  /\ OneChild(c)' /\ Family' /\ status'[c] = "zombie" /\ todo'[c] = <<>>
         /\ code'[c] = Arg(c) /\ \A q \in Pid \ {c} : todo'[q] = todo[q]
         /\ Still /\ UNCHANGED <<console, marked, buffer>> /\ writers' = writers \ {c}
<1>1. /\ Main \in Pid /\ todo \in [Pid -> Seq(CallSet)] /\ code \in [Pid -> Int]
      /\ status \in [Pid -> {"free", "live", "zombie"}] /\ parent \in [Pid -> Pid \cup {NoPid}]
      /\ NoPid \notin Pid
  BY PidAssumption DEF TypesOK, ProcTypeOK, NoPid
<1>2. /\ c # Main /\ parent[c] = Main /\ parent[Main] = NoPid /\ Main # NoPid
      /\ \A q \in Pid \ {Main, c} : status[q] = "free" /\ todo[q] = <<>>
      /\ \A q \in Pid : parent[q] \in {NoPid, Main}
      /\ status[Main] = "live"
  BY <1>1 DEF OneChild, Unused, Family
<1>3. /\ todo' = [todo EXCEPT ![c] = <<>>] /\ code' = [code EXCEPT ![c] = Arg(c)]
      /\ writers' = writers \ {c}
      /\ UNCHANGED <<program, whole, console, buffer, cpid, failed, marked>>
  BY DEF ExitProcess, Exit
<1>4. \A q \in Pid : parent[q] # c
  BY <1>1, <1>2
<1>5. /\ status' = [q \in Pid |->
                  IF q = c THEN IF parent[c] = NoPid THEN "free" ELSE "zombie"
                  ELSE IF parent[q] = c /\ status[q] = "zombie" THEN "free"
                  ELSE status[q]]
      /\ parent' = [q \in Pid |-> IF parent[q] = c THEN NoPid ELSE parent[q]]
  BY DEF ExitProcess, Exit
<1>6. status'[c] = "zombie"
  BY <1>1, <1>2, <1>5
<1>7. \A q \in Pid \ {c} : status'[q] = status[q]
  BY <1>1, <1>4, <1>5
<1>8. \A q \in Pid : parent'[q] = parent[q]
  BY <1>1, <1>4, <1>5
<1>9. todo'[c] = <<>> /\ \A q \in Pid \ {c} : todo'[q] = todo[q]
  BY <1>1, <1>3
<1>10. OneChild(c)'
  BY <1>1, <1>2, <1>7, <1>8, <1>9 DEF OneChild, Unused
<1>11. Family'
  BY <1>1, <1>2, <1>7, <1>8, <1>9 DEF Family
<1>. QED BY <1>1, <1>3, <1>6, <1>9, <1>10, <1>11 DEF Still

(* A process makes quiet calls: no process changes otherwise.              *)
LEMMA ChildGoesOn ==
  ASSUME TypesOK, Family, NEW c \in Pid, OneChild(c), UNCHANGED procVars, NEW p \in {Main, c},
         \A o \in Pid \ {p} : todo'[o] = todo[o], todo[Main] # <<>>, todo'[Main] # <<>>
  PROVE  OneChild(c)' /\ Family'
BY DEF TypesOK, ProcTypeOK, procVars, OneChild, Unused, Family

(* While main() waits, its child prints and exits; then main() reports.    *)
LEMMA WaitingSteps ==
  ASSUME TypesOK, Family, program \in Simple, Waiting, NEW p \in Pid, Step(p)
  PROVE  SimpleInv' /\ Family' /\ (Wait(p) => -1 \notin Wait4(p, Arg(p), FALSE))
<1>1. PICK c \in Pid :
        /\ OneChild(c) /\ cpid = c
        /\ Waits(Pid) \/ Waits({c})
        /\ \/ status[c] = "live" /\ Prints(c, ChildText, exit(ChildCode))
           \/ /\ status[c] = "zombie" /\ code[c] = ChildCode
              /\ todo[c] = <<>> /\ console = ChildText
  BY DEF Waiting
<1>2. ~failed /\ marked = 0
  BY DEF Waiting
<1>3. PICK who : c \in who /\ Waits(who) /\ who \in {Pid, {c}}
  BY <1>1
<1>4. /\ todo[Main] = <<Call("wait", who)>> /\ todo[Main] # <<>>
      /\ Main \in Pid /\ todo \in [Pid -> Seq(CallSet)] /\ code \in [Pid -> Int]
      /\ program \in Programs /\ c \in Int /\ c # -1 /\ console \in Seq(Tokens)
  BY <1>3, PidAssumption DEF Waits, TypesOK, ProcTypeOK
<1>5. PICK text \in Seq(Tokens), x \in {0, 3} : text = ChildText /\ x = ChildCode
  BY ChildCalls
<1>6. p \in {Main, c} /\ c # Main
  BY <1>1, ChildSteps DEF OneChild
<1>7. \A q : Waits(q)' <=> todo'[Main] = <<Call("wait", q)>>
  BY DEF Waits
<1>8. CASE p = c
  <2>1. todo[c] # <<>>
    BY <1>8, Steps
  <2>2. status[c] = "live" /\ Prints(c, text, exit(x)) /\ exit(x) \in Seq(CallSet)
    <3>1. x \in Int
      OBVIOUS
    <3>. QED BY <1>1, <1>5, <2>1, <3>1, ExitType, Zenon
  <2>3. CASE /\ UNCHANGED <<procVars, program, whole, cpid, failed, marked>>
             /\ \A o \in Pid \ {c} : todo'[o] = todo[o]
             /\ Prints(c, text, exit(x))'
    <3>1. todo'[Main] = todo[Main]
      BY <1>4, <1>6, <2>3
    <3>2. OneChild(c)' /\ Family'
      BY <1>1, <1>4, <2>3, <3>1, ChildGoesOn
    <3>3. Waits(who)'
      BY <1>4, <1>7, <3>1
    <3>4. Prints(c, ChildText, exit(ChildCode))'
      BY <1>5, <2>3, SameTexts, Zenon
    <3>5. Waiting'
      BY <1>1, <1>2, <1>3, <2>2, <2>3, <3>2, <3>3, <3>4 DEF Waiting, procVars
    <3>6. ~Wait(c)
      <4>1. exit(x) # <<>> /\ Head(exit(x)).op # "wait"
        BY ExitHead
      <4>. QED BY <2>2, <4>1, PrintsNoWait
    <3>. QED BY <1>8, <3>2, <3>5, <3>6 DEF SimpleInv
  <2>4. CASE todo[c] = exit(x) /\ console = text
    <3>1. PICK f \in CallSet : f = Call("exit", x) /\ f.op = "exit" /\ f.arg = x
      <4>1. Call("exit", x) \in CallSet
        BY CallTypes
      <4>. QED BY <4>1, CallFields
    <3>2. todo[c] = <<f>>
      BY <2>4, <3>1, Zenon DEF exit
    <3>3. Head(todo[c]) = f
      BY <3>2
    <3>4. ExitProcess(c) /\ Arg(c) = x /\ ~Wait(c)
      BY <1>8, <3>1, <3>3, Steps DEF Arg, Wait, Calls
    <3>5. /\ OneChild(c)' /\ Family' /\ status'[c] = "zombie" /\ todo'[c] = <<>>
          /\ code'[c] = x /\ todo'[Main] = todo[Main]
          /\ Still /\ UNCHANGED <<console, marked>>
      BY <1>1, <1>4, <1>6, <3>4, ChildExits
    <3>6. Waits(who)'
      BY <1>4, <1>7, <3>5
    <3>7. code'[c] = ChildCode' /\ console' = ChildText'
      BY <1>5, <2>4, <3>5, SameTexts, Zenon DEF Still
    <3>8. Waiting'
      BY <1>1, <1>2, <1>3, <3>5, <3>6, <3>7 DEF Waiting, Still
    <3>. QED BY <1>8, <3>4, <3>5, <3>8 DEF SimpleInv
  <2>. QED BY <1>8, <2>2, <2>3, <2>4, PrintsStep
<1>9. CASE p = Main
  <2>1. status[c] # "free" /\ (status[c] = "zombie" => todo[c] = <<>>)
    BY <1>1
  <2>2. /\ status[c] \notin {"live", "free"} /\ -1 \notin Wait4(Main, Arg(Main), FALSE)
        /\ todo'[Main] = AfterWait(c) /\ Alone'
        /\ AfterWait(c) # <<>> => Family'
        /\ Still /\ UNCHANGED <<console, marked>>
    BY <1>1, <1>3, <1>9, <2>1, OneChildReaped
  <2>3. code[c] = x /\ console = text
    BY <1>1, <1>5, <2>2
  <2>4. WEXITSTATUS(c) = ChildCode
    BY <1>5, <2>3 DEF WEXITSTATUS
  <2>5. PICK q \in Seq(CallSet), t \in Seq(Tokens) :
          /\ Quiet(q) /\ Gives(q, t) /\ AfterWait(c) = q \o Marker("END") /\ t = ParentText(c)
    BY <1>1, <1>4, <2>4, ParentCalls
  <2>6. PICK m \in Seq(CallSet) : m = Marker("END") /\ m # <<>>
    BY <1>4, MarkerCalls, Zenon DEF Texts
  <2>7. Family'
    <3>1. q \o m # <<>>
      BY <2>6
    <3>. QED BY <2>2, <2>5, <2>6, <3>1, Zenon
  <2>8. console' \o t = text \o t
    BY <2>2, <2>3
  <2>9. Prints(Main, text \o t, m)'
    BY <2>2, <2>5, <2>6, <2>8, Zenon DEF Prints
  <2>10. /\ (ChildText \o ParentText(cpid))' = text \o t
         /\ Marker("END")' = m
    BY <1>1, <1>5, <2>2, <2>5, <2>6, SameTexts, Zenon DEF Still
  <2>11. Reports(ChildText \o ParentText(cpid), "END")'
    BY <1>2, <2>2, <2>9, <2>10, Zenon DEF Reports
  <2>12. Reporting'
    BY <1>1, <1>2, <2>2, <2>11 DEF Reporting, Still
  <2>. QED BY <1>9, <2>2, <2>7, <2>12 DEF SimpleInv
<1>. QED BY <1>6, <1>8, <1>9

(* What main() prints about its child is text.                             *)
LEMMA ParentTextType ==
  ASSUME program \in Simple, NEW r \in Int
  PROVE  ParentText(r) \in Seq(Tokens)
<1>1. Num(0) \in Tokens /\ Num(3) \in Tokens /\ Num(r) \in Tokens /\ NL \in Tokens
  BY TokenTypes
<1>2. CASE program = "fork"
  BY <1>1, <1>2, TokenTypes, TupleTypes, Zenon DEF ParentText, Texts
<1>3. CASE program = "wait"
  BY <1>1, <1>3, TokenTypes, TupleTypes, Zenon DEF ParentText, Texts
<1>4. CASE program = "waitpid"
  BY <1>1, <1>4, TokenTypes, TupleTypes, Zenon DEF ParentText, Texts
<1>5. CASE program = "clone"
  BY <1>1, <1>5, TokenTypes, TupleTypes, Zenon DEF ParentText, Texts
<1>. QED BY <1>2, <1>3, <1>4, <1>5 DEF Simple

(* A report is completed.                                                  *)
LEMMA ReportingSteps ==
  ASSUME TypesOK, Family, program \in Simple, Reporting, NEW p \in Pid, Step(p)
  PROVE  SimpleInv' /\ Family' /\ ~Wait(p)
<1>1. Alone /\ ~failed /\ cpid \in Pid
  BY DEF Reporting
<1>2. "END" \in Texts
  BY Zenon DEF Texts
<1>3. ParentText(cpid) \in Seq(Tokens)
  BY ParentTextType DEF TypesOK
<1>4. PICK text \in Seq(Tokens) : text = ChildText \o ParentText(cpid) /\ Reports(text, "END")
  <2>1. ChildText \in Seq(Tokens)
    BY ChildCalls
  <2>. QED BY <1>3, <2>1, Joined DEF Reporting
<1>5. p = Main
  BY <1>1, AloneSteps
<1>6. Reports(text, "END")' /\ Alone' /\ Family' /\ Still
  BY <1>1, <1>2, <1>4, <1>5, ReportSteps
<1>7. (ChildText \o ParentText(cpid))' = text
  BY <1>4, <1>6, SameTexts, Zenon DEF Still
<1>8. Reports(ChildText \o ParentText(cpid), "END")'
  BY <1>6, <1>7, Zenon DEF Reports, AfterMark
<1>9. Reporting'
  BY <1>1, <1>6, <1>8 DEF Reporting, Still
<1>. QED BY <1>2, <1>4, <1>5, <1>6, <1>9, ReportsNoWait DEF SimpleInv

(* What follows a failure of fork() stays what it is.                      *)
LEMMA FailingSteps ==
  ASSUME TypesOK, Family, program \in Simple, Failing, NEW p \in Pid, Step(p)
  PROVE  SimpleInv' /\ Family' /\ (Wait(p) => program # "fork")
<1>1. Alone /\ failed /\ p = Main /\ Main \in Pid /\ program \in Programs
  BY AloneSteps, PidAssumption DEF Failing, TypesOK
<1>2. CASE marked = 0 /\ PrintsAndExits(Main, PanicText, -100)
  <2>1. PICK t \in Seq(Tokens), x \in Int : t = PanicText /\ x = -100
    BY PanicCalls
  <2>2. PrintsAndExits(Main, t, x)' /\ Alone' /\ Family' /\ Still /\ marked' = marked /\ ~Wait(Main)
    BY <1>1, <1>2, <2>1, ExitsSteps
  <2>3. PrintsAndExits(Main, PanicText, -100)'
    BY <2>1, <2>2, Zenon DEF PanicText
  <2>. QED BY <1>1, <1>2, <2>2, <2>3 DEF Failing, SimpleInv, Still
<1>3. CASE marked = 0 /\ program = "fork" /\ PrintsAndExits(Main, ChildText, 0)
  <2>1. PICK t \in Seq(Tokens), x \in Int : t = ChildText /\ x = 0
    BY ChildCalls
  <2>2. PrintsAndExits(Main, t, x)' /\ Alone' /\ Family' /\ Still /\ marked' = marked /\ ~Wait(Main)
    BY <1>1, <1>3, <2>1, ExitsSteps
  <2>3. PrintsAndExits(Main, ChildText, 0)'
    BY <2>1, <2>2, SameTexts, Zenon DEF Still
  <2>. QED BY <1>1, <1>3, <2>2, <2>3 DEF Failing, SimpleInv, Still
<1>4. CASE /\ marked = 0 /\ program # "fork" /\ console = <<>>
           /\ program = "clone" => cpid = -11
           /\ \E who \in SUBSET Int : Waits(who)
  <2>1. PICK who \in SUBSET Int : todo[Main] = <<Call("wait", who)>>
    BY <1>4 DEF Waits
  <2>2. PICK f \in CallSet : f = Call("wait", who) /\ f.op = "wait" /\ f.arg = who
    <3>1. Call("wait", who) \in CallSet
      BY CallTypes
    <3>. QED BY <3>1, CallFields
  <2>3. todo[Main] = <<f>>
    BY <2>1, <2>2
  <2>4. todo[Main] # <<>> /\ Head(todo[Main]) = f /\ Tail(todo[Main]) = <<>>
    BY <2>3
  <2>5. Wait(Main) /\ Arg(Main) = who
    BY <1>1, <2>2, <2>4, Steps DEF Arg
  <2>6. Wait4(Main, who, FALSE) = {-1}
    <3>1. Children(Main) = {}
      BY <1>1, PidAssumption DEF Alone, Unused, Children, Family, NoPid
    <3>. QED BY <3>1 DEF Wait4
  <2>7. Reap(-1) /\ Then(Main, AfterWait(-1))
    BY <2>5, <2>6 DEF Wait
  <2>8. UNCHANGED procVars
    BY <2>7, PidAssumption DEF Reap
  <2>9. PICK a \in Seq(CallSet) : a = AfterWait(-1)
    BY <1>4, AfterWaitType
  <2>10. <<>> \o a = a /\ todo \in [Pid -> Seq(CallSet)]
    BY Joined DEF TypesOK
  <2>11. todo' = [todo EXCEPT ![Main] = a]
    BY <2>4, <2>7, <2>9, <2>10, Zenon DEF Then
  <2>12. todo'[Main] = a /\ \A o \in Pid \ {Main} : todo'[o] = todo[o]
    BY <1>1, <2>10, <2>11
  <2>13. UNCHANGED <<program, whole, console, pipe, cpid, failed, marked>>
    BY <2>5 DEF Wait
  <2>14. a # <<>> => Alone' /\ Family'
    BY <1>1, <2>4, <2>8, <2>12, MainGoesOn
  <2>15. <<>> \o <<>> = <<>>
    BY Joined
  <2>16. ASSUME NEW q \in Seq(CallSet), NEW b \in Seq(CallSet), b # <<>>, a = q \o b
         PROVE  Alone' /\ Family'
    <3>1. q \o b # <<>>
      BY <2>16
    <3>. QED BY <2>14, <2>16, <3>1, Zenon
  <2>17. CASE program \in {"wait", "waitpid"}
    <3>1. a = Panic
      BY <2>9, <2>17, Zenon DEF AfterWait
    <3>2. PICK t \in Seq(Tokens), b \in Seq(CallSet) :
            t = PanicText /\ b = exit(-100) /\ b # <<>> /\ Panic = write(t) \o b
      <4>1. -100 \in Int
        OBVIOUS
      <4>. QED BY <4>1, PanicCalls, ExitType, Zenon
    <3>3. write(t) \in Seq(CallSet) /\ Quiet(write(t)) /\ Gives(write(t), t) /\ <<>> \o t = t
      BY WriteGives, Joined
    <3>4. Prints(Main, PanicText, exit(-100))'
      BY <1>4, <2>12, <2>13, <3>1, <3>2, <3>3, Zenon DEF Prints, PanicText
    <3>5. Alone' /\ Family'
      BY <2>16, <3>1, <3>2, <3>3, Zenon
    <3>6. PrintsAndExits(Main, PanicText, -100)'
      BY <3>4, Zenon DEF PrintsAndExits, PanicText
    <3>. QED BY <1>1, <1>4, <2>13, <3>5, <3>6 DEF Failing, SimpleInv
  <2>18. CASE program = "clone"
    <3>1. PICK e \in Texts : e = "clone process error."
      BY Zenon DEF Texts
    <3>2. cpid # -1
      BY <1>4, <2>18
    <3>3. a = write(<<e, NL>>) \o Marker("END")
      BY <2>9, <2>18, <3>1, <3>2, Zenon DEF AfterWait
    <3>4. PICK t \in Seq(Tokens) : t = <<e, NL>>
      BY TokenTypes, TupleTypes, Zenon
    <3>5. write(t) \in Seq(CallSet) /\ Quiet(write(t)) /\ Gives(write(t), t) /\ <<>> \o t = t
      BY WriteGives, Joined
    <3>6. PICK m \in Seq(CallSet) : m = Marker("END") /\ m # <<>>
      BY <1>1, MarkerCalls, Zenon DEF Texts
    <3>7. Marker("END")' = m
      BY <2>13, <3>6, SameTexts
    <3>8. Prints(Main, t, m)'
      BY <1>4, <2>12, <2>13, <3>3, <3>4, <3>5, <3>6, Zenon DEF Prints
    <3>9. Alone' /\ Family'
      BY <2>16, <3>3, <3>4, <3>5, <3>6, Zenon
    <3>10. Reports(<<"clone process error.", NL>>, "END")'
      BY <1>4, <2>13, <3>1, <3>4, <3>7, <3>8, Zenon DEF Reports
    <3>. QED BY <1>1, <2>13, <2>18, <3>9, <3>10, Zenon DEF Failing, SimpleInv
  <2>. QED BY <1>4, <2>17, <2>18 DEF Simple
<1>5. CASE program = "clone" /\ Reports(<<"clone process error.", NL>>, "END")
  <2>1. PICK t \in Seq(Tokens) : t = <<"clone process error.", NL>>
    BY TokenTypes, TupleTypes, Zenon DEF Texts
  <2>2. "END" \in Texts
    BY Zenon DEF Texts
  <2>3. Reports(t, "END")
    BY <1>5, <2>1, Zenon
  <2>4. Reports(t, "END")' /\ Alone' /\ Family' /\ Still
    BY <1>1, <2>2, <2>3, ReportSteps
  <2>5. Reports(<<"clone process error.", NL>>, "END")'
    BY <2>1, <2>4, Zenon
  <2>6. ~Wait(Main)
    BY <2>2, <2>3, ReportsNoWait
  <2>. QED BY <1>1, <1>5, <2>4, <2>5, <2>6, Zenon DEF Failing, SimpleInv, Still
<1>. QED BY <1>2, <1>3, <1>4, <1>5, Zenon DEF Failing

(* The stages of these programs follow each other.                         *)
LEMMA SimpleSteps ==
  ASSUME TypesOK, Family, program \in Simple, SimpleInv, NEW p \in Pid, Step(p)
  PROVE  SimpleInv' /\ Family' /\ TypesOK'
<1>1. SimpleInv' /\ Family' /\ (Wait(p) => program # "fork" \/ -1 \notin Wait4(p, Arg(p), FALSE))
  <2>1. CASE Beginning
    <3>1. p = Main
      BY <2>1, AloneSteps DEF Beginning
    <3>. QED BY <2>1, BeginningSteps
  <2>2. CASE Waiting
    BY <2>2, WaitingSteps
  <2>3. CASE Reporting
    BY <2>3, ReportingSteps
  <2>4. CASE Failing
    BY <2>4, FailingSteps
  <2>. QED BY <2>1, <2>2, <2>3, <2>4 DEF SimpleInv
<1>. QED BY <1>1, TypesKept

-----------------------------------------------------------------------------
(* pipe.                                                                   *)

(* Joining calls is associative.                                           *)
LEMMA JoinedThreeCalls == \A s, t, u \in Seq(CallSet) : (s \o t) \o u = s \o (t \o u)
<1> SUFFICES ASSUME NEW s \in Seq(CallSet), NEW t \in Seq(CallSet), NEW u \in Seq(CallSet)
             PROVE  (s \o t) \o u = s \o (t \o u)
  OBVIOUS
<1>. QED OBVIOUS

(* The first of some calls, and those after it.                            *)
LEMMA AfterFirst ==
  ASSUME NEW f \in CallSet, NEW t \in Seq(CallSet)
  PROVE  /\ <<f>> \o t \in Seq(CallSet) /\ <<f>> \o t # <<>>
         /\ Head(<<f>> \o t) = f /\ Tail(<<f>> \o t) = t
<1>1. <<f>> \in Seq(CallSet) /\ <<f>> # <<>> /\ Head(<<f>>) = f /\ Tail(<<f>>) = <<>>
  OBVIOUS
<1>2. <<>> \o t = t
  BY Joined
<1>3. <<f>> \o t \in Seq(CallSet)
  BY <1>1, JoinedCalls
<1>4. <<f>> \o t # <<>> /\ Head(<<f>> \o t) = Head(<<f>>) /\ Tail(<<f>> \o t) = Tail(<<f>>) \o t
  BY <1>1, HeadJoined
<1>. QED BY <1>1, <1>2, <1>3, <1>4, Zenon

(* As PrintsStep, whatever is printed.                                     *)
LEMMA AwaitsStep ==
  ASSUME TypesOK, NEW p \in Pid, Step(p), NEW after \in Seq(CallSet), Awaits(p, after)
  PROVE  \/ todo[p] = after
         \/ /\ UNCHANGED <<procVars, program, whole, cpid, failed, marked>>
            /\ \A o \in Pid \ {p} : todo'[o] = todo[o]
            /\ Awaits(p, after)' /\ Head(todo[p]).op \in {"write", "put", "close"}
<1>1. PICK q \in Seq(CallSet) : Quiet(q) /\ todo[p] = q \o after
  BY DEF Awaits
<1>2. CASE q = <<>>
  <2>1. todo[p] = <<>> \o after
    BY <1>1, <1>2, Zenon
  <2>. QED BY <2>1, Joined
<1>3. CASE q # <<>>
  <2>1. PICK c \in CallSet, t \in Seq(CallSet) :
          /\ c = Head(q) /\ t = Tail(q) /\ todo[p] # <<>>
          /\ Head(todo[p]) = c /\ Tail(todo[p]) = t \o after
    <3>1. PICK d : d = q \o after
      OBVIOUS
    <3>2. /\ d # <<>> /\ Head(d) = Head(q) /\ Tail(d) = Tail(q) \o after
          /\ Head(q) \in CallSet /\ Tail(q) \in Seq(CallSet)
      BY <1>3, <3>1, HeadJoined
    <3>3. todo[p] = d
      BY <1>1, <3>1, Zenon
    <3>. QED BY <3>2, <3>3, Zenon
  <2>2. c.op \in {"write", "put", "close"} /\ Quiet(t)
    BY <1>1, <1>3, <2>1, QuietTail
  <2>3. todo \in [Pid -> Seq(CallSet)]
    BY DEF TypesOK
  <2>4. /\ UNCHANGED <<procVars, program, whole, cpid, failed, marked>>
        /\ todo' = [todo EXCEPT ![p] = Tail(todo[p]) \o <<>>]
    <3>1. CASE c.op = "write"
      <4>1. Write(p) /\ ~Calls(p, "mark")
        BY <2>1, <3>1, Steps DEF Calls
      <4>. QED BY <4>1 DEF Write, Then
    <3>2. CASE c.op = "put"
      BY <2>1, <3>2, Steps DEF Put, Then
    <3>3. CASE c.op = "close"
      BY <2>1, <3>3, Steps DEF Close, Then
    <3>. QED BY <2>2, <3>1, <3>2, <3>3
  <2>5. Tail(todo[p]) \in Seq(CallSet) /\ Tail(todo[p]) \o <<>> = Tail(todo[p])
    <3>1. Tail(todo[p]) \in Seq(CallSet)
      BY <2>1, JoinedCalls
    <3>. QED BY <3>1, Joined
  <2>6. /\ todo'[p] = t \o after
        /\ \A o \in Pid \ {p} : todo'[o] = todo[o]
    BY <2>1, <2>3, <2>4, <2>5
  <2>. QED BY <2>1, <2>2, <2>4, <2>6 DEF Awaits
<1>. QED BY <1>2, <1>3

(* A process that comes to some calls has calls to make.                   *)
LEMMA AwaitsSomething ==
  ASSUME NEW p, NEW after \in Seq(CallSet), after # <<>>
  PROVE  /\ Awaits(p, after) => todo[p] # <<>>
         /\ Awaits(p, after)' => todo'[p] # <<>>
<1>1. \A q \in Seq(CallSet) : q \o after # <<>>
  OBVIOUS
<1>. QED BY <1>1, Zenon DEF Awaits

(* What follows the copying.                                               *)
LEMMA PassCalls ==
  ASSUME program \in Programs
  PROVE  \E m, t \in Seq(CallSet), f, g, h \in CallSet :
           /\ m = Marker("PASS") /\ m # <<>>
           /\ f = Call("copy", 0) /\ g = Call("write", <<NL>>) /\ h = Call("wait", Pid)
           /\ t = <<g>> /\ write(<<NL>>) = t
           /\ WaitAndPass = <<h>> \o m /\ WaitAndPass \in Seq(CallSet) /\ WaitAndPass # <<>>
           /\ Head(WaitAndPass) = h /\ Tail(WaitAndPass) = m
           /\ CopyAndPass = <<f>> \o (t \o WaitAndPass)
           /\ CopyAndPass \in Seq(CallSet) /\ CopyAndPass # <<>>
           /\ Head(CopyAndPass) = f /\ Tail(CopyAndPass) = t \o WaitAndPass
<1>1. PICK m \in Seq(CallSet) : m = Marker("PASS") /\ m # <<>>
  BY MarkerCalls, Zenon DEF Texts
<1>2. PICK f, g, h \in CallSet :
        f = Call("copy", 0) /\ g = Call("write", <<NL>>) /\ h = Call("wait", Pid)
  <2>1. <<NL>> \in Seq(Tokens) /\ 0 \in Int /\ Pid \in SUBSET Int
    BY TokenTypes, TupleTypes, PidAssumption
  <2>. QED BY <2>1, CallTypes, Zenon
<1>3. PICK t \in Seq(CallSet) : t = <<g>> /\ write(<<NL>>) = t
  BY <1>2, OneCall, Zenon DEF write
<1>4. /\ WaitAndPass = <<h>> \o m /\ WaitAndPass \in Seq(CallSet) /\ WaitAndPass # <<>>
      /\ Head(WaitAndPass) = h /\ Tail(WaitAndPass) = m
  <2>1. WaitAndPass = <<h>> \o m
    BY <1>1, <1>2, WaitOnce, Zenon DEF WaitAndPass
  <2>. QED BY <2>1, AfterFirst, Zenon
<1>5. /\ CopyAndPass = <<f>> \o (t \o WaitAndPass)
      /\ CopyAndPass \in Seq(CallSet) /\ CopyAndPass # <<>>
      /\ Head(CopyAndPass) = f /\ Tail(CopyAndPass) = t \o WaitAndPass
  <2>1. CopyAndPass = <<f>> \o (t \o WaitAndPass)
    BY <1>2, <1>3, Zenon DEF CopyAndPass
  <2>2. t \o WaitAndPass \in Seq(CallSet)
    BY <1>4, JoinedCalls
  <2>. QED BY <2>1, <2>2, AfterFirst, Zenon
<1>. QED BY <1>1, <1>2, <1>3, <1>4, <1>5, Zenon

(* How pipe.c ends depends on the program only.                            *)
LEMMA SamePass == program' = program => WaitAndPass' = WaitAndPass /\ CopyAndPass' = CopyAndPass
BY SameTexts, Zenon DEF WaitAndPass, CopyAndPass

(* What is left after a call is what follows it.                           *)
LEMMA Rests ==
  ASSUME NEW c
  PROVE  /\ ChildRest(c, 1) = write(CpidText(0)) \o ChildRest(c, 2)
         /\ ChildRest(c, 2) = <<Call("put", Data)>> \o ChildRest(c, 3)
         /\ ChildRest(c, 3) = <<Call("close", c)>> \o ChildRest(c, 4)
         /\ ChildRest(c, 4) = exit(0) /\ ChildRest(c, 5) = <<>>
         /\ MainRest(c, 1) = write(CpidText(c)) \o MainRest(c, 2)
         /\ MainRest(c, 2) = <<Call("close", Main)>> \o MainRest(c, 3)
         /\ MainRest(c, 3) = CopyAndPass
         /\ MainRest(c, 4) = write(<<NL>>) \o MainRest(c, 5)
         /\ MainRest(c, 5) = WaitAndPass
BY DEF ChildRest, MainRest

(* Two quiet calls before others.                                          *)
LEMMA TwoCalls ==
  ASSUME NEW a \in CallSet, NEW b \in CallSet, NEW t \in Seq(CallSet),
         a.op \in {"write", "put", "close"}, b.op \in {"write", "put", "close"}
  PROVE  /\ <<a, b>> \in Seq(CallSet) /\ Quiet(<<a, b>>)
         /\ <<a, b>> \o t = <<a>> \o (<<b>> \o t)
<1>1. <<a>> \in Seq(CallSet) /\ <<b>> \in Seq(CallSet) /\ Quiet(<<a>>) /\ Quiet(<<b>>)
  BY OneCall, QuietOne
<1>2. <<a, b>> = <<a>> \o <<b>>
  BY Tuples
<1>3. (<<a>> \o <<b>>) \o t = <<a>> \o (<<b>> \o t)
  BY <1>1, JoinedThreeCalls, Zenon
<1>. QED BY <1>1, <1>2, <1>3, QuietBoth, JoinedCalls, Zenon

(* "cpid: " and a number.                                                  *)
LEMMA CpidCalls ==
  ASSUME NEW k \in Int
  PROVE  \E q \in Seq(CallSet) :
           /\ q = printf(<<"cpid: ">>, <<Num(k)>>, <<NL>>) /\ Quiet(q) /\ Gives(q, CpidText(k))
           /\ CpidText(k) \in Seq(Tokens) /\ (whole => q = write(CpidText(k)))
<1>1. PICK a \in Tokens : a = "cpid: "
  BY TokenTypes, Zenon DEF Texts
<1>2. <<a>> \in Seq(Tokens) /\ <<Num(k)>> \in Seq(Tokens) /\ <<NL>> \in Seq(Tokens)
  BY TokenTypes, TupleTypes, Zenon
<1>3. <<a>> \o <<Num(k)>> \o <<NL>> = CpidText(k)
  BY <1>1, TuplesOne, Zenon DEF CpidText
<1>4. PICK q \in Seq(CallSet) :
        /\ q = printf(<<a>>, <<Num(k)>>, <<NL>>) /\ Quiet(q)
        /\ Gives(q, <<a>> \o <<Num(k)>> \o <<NL>>)
  BY <1>2, PrintfGives
<1>5. whole => q = write(CpidText(k))
  BY <1>3, <1>4, Zenon DEF printf
<1>6. CpidText(k) \in Seq(Tokens)
  BY <1>1, TokenTypes, TupleTypes, Zenon DEF CpidText
<1>. QED BY <1>1, <1>3, <1>4, <1>5, <1>6, Zenon

(* The child of pipe.c writes to the pipe and closes it.                   *)
LEMMA PutAndClose ==
  ASSUME NEW c \in Int
  PROVE  \E a, b \in CallSet : /\ a = Call("put", Data) /\ b = Call("close", c)
                               /\ a.op = "put" /\ a.arg = Data /\ b.op = "close" /\ b.arg = c
<1>1. Data \in Seq(Tokens)
  BY PipeTypes
<1>. QED BY <1>1, CallTypes, CallFields

(* The calls of the child of pipe.c.                                       *)
LEMMA PipeChildCalls ==
  ASSUME program = "pipe", NEW c \in Int
  PROVE  /\ \E q \in Seq(CallSet) : Quiet(q) /\ Child(0, c) = q \o exit(0)
         /\ whole => Child(0, c) = ChildRest(c, 1)
<1>1. PICK q \in Seq(CallSet) :
        /\ q = printf(<<"cpid: ">>, <<Num(0)>>, <<NL>>) /\ Quiet(q)
        /\ (whole => q = write(CpidText(0)))
  <2>1. 0 \in Int
    OBVIOUS
  <2>. QED BY <2>1, CpidCalls, Zenon
<1>2. PICK a, b \in CallSet : /\ a = Call("put", Data) /\ b = Call("close", c)
                              /\ a.op = "put" /\ b.op = "close"
  BY PutAndClose
<1>3. PICK x \in Seq(CallSet) : x = exit(0)
  BY ExitType
<1>4. <<a, b>> \in Seq(CallSet) /\ Quiet(<<a, b>>) /\ <<a, b>> \o x = <<a>> \o (<<b>> \o x)
  BY <1>2, TwoCalls
<1>5. Child(0, c) = (q \o <<a, b>>) \o x
  BY <1>1, <1>2, <1>3, Zenon DEF Child
<1>6. q \o <<a, b>> \in Seq(CallSet) /\ Quiet(q \o <<a, b>>)
  BY <1>1, <1>4, JoinedCalls, QuietBoth
<1>7. (q \o <<a, b>>) \o x = q \o (<<a, b>> \o x)
  BY <1>4, JoinedThreeCalls, Zenon
<1>8. whole => Child(0, c) = ChildRest(c, 1)
  <2>1. ChildRest(c, 1) = write(CpidText(0)) \o (<<a>> \o (<<b>> \o x))
    BY <1>2, <1>3, Rests, Zenon
  <2>. QED BY <1>1, <1>4, <1>5, <1>7, <2>1, Zenon
<1>. QED BY <1>3, <1>5, <1>6, <1>8, Zenon

(* The calls of main() of pipe.c after fork().                             *)
LEMMA PipeParentCalls ==
  ASSUME program = "pipe", program \in Programs, NEW r \in Int
  PROVE  /\ r > 0 => /\ \E q \in Seq(CallSet) : Quiet(q) /\ AfterFork(r) = q \o CopyAndPass
                     /\ whole => AfterFork(r) = MainRest(r, 1)
         /\ r < 0 => \E q \in Seq(CallSet) :
                       /\ Quiet(q) /\ Gives(q, ForklessText) /\ AfterFork(r) = q \o exit(0)
                       /\ ForklessText \in Seq(Tokens)
<1>0. Main \in Int
  BY PidAssumption
<1>1. PICK q \in Seq(CallSet) :
        /\ q = printf(<<"cpid: ">>, <<Num(r)>>, <<NL>>) /\ Quiet(q) /\ Gives(q, CpidText(r))
        /\ CpidText(r) \in Seq(Tokens) /\ (whole => q = write(CpidText(r)))
  BY CpidCalls, Zenon
<1>2. PICK a, b \in CallSet : /\ a = Call("put", Data) /\ b = Call("close", Main)
                              /\ a.op = "put" /\ b.op = "close"
  BY <1>0, PutAndClose
<1>3. PICK x \in Seq(CallSet) : x = exit(0)
  BY ExitType
<1>4. CASE r > 0
  <2>1. PICK m, t \in Seq(CallSet), f, g, h \in CallSet :
           /\ m = Marker("PASS") /\ f = Call("copy", 0) /\ h = Call("wait", Pid)
           /\ write(<<NL>>) = t
           /\ WaitAndPass = <<h>> \o m /\ WaitAndPass \in Seq(CallSet)
           /\ CopyAndPass = <<f>> \o (t \o WaitAndPass)
           /\ CopyAndPass \in Seq(CallSet)
    BY PassCalls, Zenon
  <2>2. wait(1) = <<h>>
    BY <2>1, WaitOnce, Zenon
  <2>3. AfterFork(r) = q \o (<<b, f>> \o t \o <<h>> \o m)
    BY <1>1, <1>2, <1>4, <2>1, <2>2, Zenon DEF AfterFork
  <2>4. <<b>> \in Seq(CallSet) /\ <<f>> \in Seq(CallSet) /\ <<h>> \in Seq(CallSet) /\ Quiet(<<b>>)
    BY <1>2, OneCall, QuietOne
  <2>5. <<b, f>> \o t \o <<h>> \o m = <<b>> \o CopyAndPass
    <3>1. PICK u, y, z \in Seq(CallSet) : u = <<b>> /\ y = <<f>> /\ z = <<h>>
      BY <2>4
    <3>2. <<b, f>> = u \o y
      BY <3>1, Tuples
    <3>3. (((u \o y) \o t) \o z) \o m = u \o (y \o (t \o (z \o m)))
      <4>1. PICK i, j, k, l \in Seq(CallSet) :
              i = (u \o y) \o t /\ j = z \o m /\ k = t \o j /\ l = u \o y
        BY JoinedCalls
      <4>2. (i \o z) \o m = i \o (z \o m)
        BY SMTT(30)
      <4>3. (l \o t) \o j = l \o (t \o j)
        BY SMTT(30)
      <4>4. (u \o y) \o k = u \o (y \o k)
        BY SMTT(30)
      <4>. QED BY <4>1, <4>2, <4>3, <4>4, Zenon
    <3>. QED BY <2>1, <3>1, <3>2, <3>3, Zenon
  <2>6. q \o (<<b>> \o CopyAndPass) = (q \o <<b>>) \o CopyAndPass
    <3>1. PICK u, v \in Seq(CallSet) : u = <<b>> /\ v = CopyAndPass
      BY <2>1, <2>4
    <3>2. (q \o u) \o v = q \o (u \o v)
      BY SMTT(30)
    <3>. QED BY <3>1, <3>2, Zenon
  <2>7. q \o <<b>> \in Seq(CallSet) /\ Quiet(q \o <<b>>)
    BY <1>1, <2>4, JoinedCalls, QuietBoth
  <2>8. whole => AfterFork(r) = MainRest(r, 1)
    <3>1. MainRest(r, 1) = write(CpidText(r)) \o (<<b>> \o CopyAndPass)
      BY <1>2, Rests, Zenon
    <3>. QED BY <1>1, <2>3, <2>5, <3>1, Zenon
  <2>9. AfterFork(r) = (q \o <<b>>) \o CopyAndPass
    BY <2>3, <2>5, <2>6, Zenon
  <2>10. ~(r < 0)
    BY <1>4
  <2>. QED BY <2>7, <2>8, <2>9, <2>10, Zenon
<1>5. CASE r < 0
  <2>1. ~(r > 0)
    BY <1>5
  <2>2. AfterFork(r) = q \o (<<a, b>> \o x)
    BY <1>1, <1>2, <1>3, <2>1, Zenon DEF AfterFork
  <2>3. <<a, b>> \in Seq(CallSet) /\ Quiet(<<a, b>>) /\ <<a, b>> = <<a>> \o <<b>>
    <3>1. <<a, b>> = <<a>> \o <<b>>
      BY Tuples, Zenon
    <3>. QED BY <1>2, <3>1, TwoCalls
  <2>4. Gives(<<a, b>>, <<>>)
    <3>1. Gives(<<a>>, <<>>) /\ Gives(<<b>>, <<>>)
      <4>1. Printed(a) = <<>> /\ Printed(b) = <<>>
        BY <1>2 DEF Printed
      <4>. QED BY <4>1, GivesOne, Zenon
    <3>2. <<>> \o <<>> = <<>>
      BY Joined
    <3>. QED BY <2>3, <3>1, <3>2, GivesBoth, OneCall, Zenon
  <2>5. CpidText(r) \o <<>> = CpidText(r)
    BY <1>1, Joined
  <2>6. q \o <<a, b>> \in Seq(CallSet) /\ Quiet(q \o <<a, b>>) /\ Gives(q \o <<a, b>>, CpidText(r))
    <3>1. q \o <<a, b>> \in Seq(CallSet)
      BY <2>3, JoinedCalls
    <3>2. Quiet(q \o <<a, b>>)
      BY <1>1, <2>3, QuietBoth
    <3>3. Gives(q \o <<a, b>>, CpidText(r) \o <<>>)
      BY <1>1, <2>3, <2>4, GivesBoth, Zenon
    <3>. QED BY <2>5, <3>1, <3>2, <3>3, Zenon
  <2>7. q \o (<<a, b>> \o x) = (q \o <<a, b>>) \o x
    BY <2>3, JoinedThreeCalls, Zenon
  <2>8. CpidText(r) = ForklessText
    BY <1>5, Zenon DEF CpidText, ForklessText, Num
  <2>. QED BY <1>1, <1>3, <2>1, <2>2, <2>6, <2>7, <2>8, Zenon
<1>6. r > 0 \/ r < 0 \/ (~(r > 0) /\ ~(r < 0))
  OBVIOUS
<1>. QED BY <1>4, <1>5, <1>6, Zenon

(* They depend on the program and on how it prints only.                   *)
LEMMA SameRests ==
  ASSUME program' = program
  PROVE  \A c, n : MainRest(c, n)' = MainRest(c, n) /\ ChildRest(c, n)' = ChildRest(c, n)
<1>1. WaitAndPass' = WaitAndPass /\ CopyAndPass' = CopyAndPass
  BY SamePass
<1>. QED BY <1>1 DEF MainRest, ChildRest

(* The first lines of main() and of its child, in the four cases.          *)
LEMMA IntrosOf ==
  ASSUME NEW c, NEW n \in 1 .. 5, NEW m \in 1 .. 5
  PROVE  /\ n = 1 /\ m = 1 => Intros(c, n, m) = {<<>>}
         /\ n = 1 /\ m > 1 => Intros(c, n, m) = {CpidText(c)}
         /\ n > 1 /\ m = 1 => Intros(c, n, m) = {CpidText(0)}
         /\ n > 1 /\ m > 1 =>
              Intros(c, n, m) = {CpidText(0) \o CpidText(c), CpidText(c) \o CpidText(0)}
<1>1. \A k \in 1 .. 5 : (k > 1 => k # 1) /\ (k # 1 => k > 1)
  OBVIOUS
<1>. QED BY <1>1, Zenon DEF Intros

(* main() has opened the pipe, or found that it cannot.                    *)
LEMMA PipeOpened ==
  ASSUME TypesOK, Family, program = "pipe", Alone, ~failed, marked = 0, console = <<>>,
         buffer = <<>>, todo[Main] = <<Call("pipe", 0), Call("fork", 0)>>, Step(Main)
  PROVE  PipeInv' /\ Family' /\ ~Wait(Main)
<1>1. /\ Main \in Pid /\ todo \in [Pid -> Seq(CallSet)] /\ program \in Programs
  BY PidAssumption DEF TypesOK
<1>2. PICK f, g \in CallSet : f = Call("pipe", 0) /\ f.op = "pipe" /\ g = Call("fork", 0)
  <2>1. Call("pipe", 0) \in CallSet /\ Call("fork", 0) \in CallSet
    BY CallTypes
  <2>. QED BY <2>1, CallFields
<1>3. /\ todo[Main] = <<f, g>> /\ todo[Main] # <<>> /\ Head(todo[Main]) = f
      /\ Tail(todo[Main]) = <<g>> /\ <<g>> # <<>> /\ <<g>> \o <<>> = <<g>>
  BY <1>2
<1>4. Pipe(Main) /\ ~Wait(Main)
  BY <1>1, <1>2, <1>3, Steps DEF Wait, Calls
<1>5. UNCHANGED <<procVars, program, whole, console, buffer, cpid, marked>>
  BY <1>4, Zenon DEF Pipe
<1>6. CASE writers' = {Main} /\ Then(Main, <<>>) /\ UNCHANGED failed
  <2>1. todo' = [todo EXCEPT ![Main] = <<g>>]
    BY <1>3, <1>6 DEF Then
  <2>2. todo'[Main] = <<g>> /\ \A o \in Pid \ {Main} : todo'[o] = todo[o]
    BY <1>1, <2>1
  <2>3. Alone' /\ Family'
    BY <1>3, <1>5, <2>2, MainGoesOn
  <2>4. Opening'
    BY <1>2, <1>5, <1>6, <2>2, <2>3 DEF Opening
  <2>. QED BY <1>4, <2>3, <2>4 DEF PipeInv
<1>7. CASE /\ failed' = TRUE
           /\ todo' = [todo EXCEPT ![Main] =
                printf(<<"ERROR: pipe returned ">>, <<"-N">>, <<")", NL>>) \o Marker("FAIL")]
           /\ UNCHANGED writers
  <2>1. PICK a, b, d \in Tokens : a = "ERROR: pipe returned " /\ b = "-N" /\ d = ")"
    BY TokenTypes, Zenon DEF Texts
  <2>2. <<a>> \in Seq(Tokens) /\ <<b>> \in Seq(Tokens) /\ <<d, NL>> \in Seq(Tokens)
    BY <2>1, TokenTypes, TupleTypes, Zenon
  <2>3. <<a>> \o <<b>> \o <<d, NL>> = <<a, b, d, NL>>
    <3>1. <<a>> \o <<b>> = <<a, b>>
      BY Tuples
    <3>2. <<a, b>> \o <<d, NL>> = <<a, b, d, NL>>
      BY Tuples
    <3>. QED BY <3>1, <3>2, Zenon
  <2>4. <<a, b, d, NL>> = ErrorText
    BY <2>1, Zenon DEF ErrorText
  <2>5. PICK t \in Seq(Tokens) : t = ErrorText
    BY <2>1, <2>4, TokenTypes, TupleTypes, Zenon
  <2>6. PICK q \in Seq(CallSet) :
          q = printf(<<a>>, <<b>>, <<d, NL>>) /\ Quiet(q) /\ Gives(q, t)
    BY <2>2, <2>3, <2>4, <2>5, PrintfGives, Zenon
  <2>7. PICK m \in Seq(CallSet) : m = Marker("FAIL") /\ m # <<>>
    BY <1>1, MarkerCalls, Zenon DEF Texts
  <2>8. todo' = [todo EXCEPT ![Main] = q \o m]
    BY <1>7, <2>1, <2>6, <2>7, Zenon
  <2>9. todo'[Main] = q \o m /\ \A o \in Pid \ {Main} : todo'[o] = todo[o]
    BY <1>1, <2>8
  <2>10. todo'[Main] # <<>>
    <3>1. q \o m # <<>>
      BY <2>7
    <3>. QED BY <2>9, <3>1, Zenon
  <2>11. UNCHANGED procVars /\ program' = program /\ console' = <<>> /\ marked' = 0
         /\ failed' = TRUE
    BY <1>5, <1>7, Zenon
  <2>12. Alone' /\ Family'
    BY <1>3, <2>9, <2>10, <2>11, MainGoesOn
  <2>13. <<>> \o t = t
    BY Joined
  <2>14. Prints(Main, t, m)'
    BY <2>6, <2>9, <2>11, <2>13, Zenon DEF Prints
  <2>15. Marker("FAIL")' = m
    BY <2>7, <2>11, SameTexts, Zenon
  <2>16. Reports(ErrorText, "FAIL")'
    BY <2>5, <2>11, <2>14, <2>15, Zenon DEF Reports
  <2>. QED BY <1>4, <2>11, <2>12, <2>16, Zenon DEF PipeFailing, PipeInv
<1>. QED BY <1>4, <1>6, <1>7, Zenon DEF Pipe

(* It has forked its child.                                                *)
LEMMA PipeForked ==
  ASSUME TypesOK, program = "pipe", program' = program, whole' = whole, ~failed, failed' = failed,
         marked' = 0, console' = <<>>, buffer' = <<>>,
         NEW c \in Pid \ {Main}, OneChild(c)', cpid' = c, status'[c] = "live",
         todo'[Main] = AfterFork(c), todo'[c] = Child(0, c),
         AfterFork(c) # <<>> => Family', c \in writers'
  PROVE  PipeInv' /\ Family'
<1>1. c > 0 /\ c \in Int /\ program \in Programs
  <2>1. c > 0 /\ c \in Int
    BY PidAssumption
  <2>2. program \in Programs
    BY DEF TypesOK
  <2>. QED BY <2>1, <2>2
<1>2. /\ \E q \in Seq(CallSet) : Quiet(q) /\ Child(0, c) = q \o exit(0)
      /\ whole => Child(0, c) = ChildRest(c, 1)
  BY <1>1, PipeChildCalls
<1>3. /\ \E q \in Seq(CallSet) : Quiet(q) /\ AfterFork(c) = q \o CopyAndPass
      /\ whole => AfterFork(c) = MainRest(c, 1)
  BY <1>1, PipeParentCalls
<1>4. CopyAndPass \in Seq(CallSet) /\ CopyAndPass # <<>> /\ CopyAndPass' = CopyAndPass
  BY <1>1, PassCalls, SamePass
<1>5. Awaits(c, exit(0))'
  BY <1>2, Zenon DEF Awaits
<1>6. Awaits(Main, CopyAndPass)'
  BY <1>3, <1>4, Zenon DEF Awaits
<1>7. Family'
  <2>1. \A q \in Seq(CallSet) : q \o CopyAndPass # <<>>
    BY <1>4
  <2>. QED BY <1>3, <2>1, Zenon
<1>8. whole => InOrder(c)'
  <2> SUFFICES ASSUME whole PROVE InOrder(c)'
    OBVIOUS
  <2>1. todo'[c] = ChildRest(c, 1)' /\ todo'[Main] = MainRest(c, 1)'
    BY <1>2, <1>3, SameRests, Zenon
  <2>2. 1 \in 1 .. 5 /\ ~(1 >= 4) /\ 1 <= 3 /\ 1 # 5 /\ ~(1 >= 3)
    OBVIOUS
  <2>3. <<>> \in Intros(c, 1, 1) /\ <<>> \in Seq(Tokens) /\ <<>> \o <<>> = <<>>
    BY <2>2, IntrosOf
  <2>. QED BY <2>1, <2>2, <2>3, Zenon DEF InOrder
<1>9. Sharing'
  BY <1>5, <1>6, <1>8, Zenon DEF Sharing
<1>. QED BY <1>7, <1>9 DEF PipeInv

(* pipe() and fork() succeed, or the program fails.                        *)
LEMMA OpeningSteps ==
  ASSUME TypesOK, Family, program = "pipe", Opening, NEW p \in Pid, Step(p)
  PROVE  PipeInv' /\ Family'
<1>1. Alone /\ ~failed /\ marked = 0 /\ console = <<>> /\ buffer = <<>>
  BY DEF Opening
<1>2. p = Main /\ program \in Programs
  BY <1>1, AloneSteps DEF TypesOK
<1>3. CASE todo[Main] = <<Call("pipe", 0), Call("fork", 0)>>
  BY <1>1, <1>2, <1>3, PipeOpened
<1>4. CASE writers = {Main} /\ todo[Main] = <<Call("fork", 0)>>
  <2>1. /\ program' = program /\ whole' = whole /\ console' = <<>> /\ marked' = 0
        /\ buffer' = <<>>
    BY <1>1, <1>4, FirstChild
  <2>2. \/ \E c \in Pid \ {Main} :
             /\ OneChild(c)' /\ cpid' = c /\ status'[c] = "live"
             /\ todo'[Main] = AfterFork(c) /\ todo'[c] = Child(0, c)
             /\ failed' = failed
             /\ AfterFork(c) # <<>> => Family'
             /\ writers' = IF Main \in writers THEN writers \cup {c} ELSE writers
        \/ \E error \in {-1, -11} :
             /\ Alone' /\ cpid' = error /\ failed' = TRUE
             /\ todo'[Main] = AfterFork(error)
             /\ AfterFork(error) # <<>> => Family'
    BY <1>1, <1>4, FirstChild
  <2>3. ASSUME NEW c \in Pid \ {Main},
               OneChild(c)', cpid' = c, status'[c] = "live",
               todo'[Main] = AfterFork(c), todo'[c] = Child(0, c),
               failed' = failed,
               AfterFork(c) # <<>> => Family',
               writers' = IF Main \in writers THEN writers \cup {c} ELSE writers
        PROVE  PipeInv' /\ Family'
    <3>1. c \in writers'
      BY <1>4, <2>3
    <3>. QED BY <1>1, <2>1, <2>3, <3>1, PipeForked
  <2>4. ASSUME NEW error \in {-1, -11}, Alone', cpid' = error, failed' = TRUE,
               todo'[Main] = AfterFork(error),
               AfterFork(error) # <<>> => Family'
        PROVE  PipeInv' /\ Family'
    <3>1. error \in Int /\ error < 0
      OBVIOUS
    <3>2. PICK q \in Seq(CallSet), t \in Seq(Tokens), x \in Seq(CallSet) :
            /\ Quiet(q) /\ Gives(q, t) /\ AfterFork(error) = q \o x
            /\ t = ForklessText /\ x = exit(0) /\ x # <<>>
      <4>1. 0 \in Int
        OBVIOUS
      <4>2. exit(0) \in Seq(CallSet) /\ exit(0) # <<>>
        BY <4>1, ExitType
      <4>3. PICK q \in Seq(CallSet) :
              /\ Quiet(q) /\ Gives(q, ForklessText) /\ AfterFork(error) = q \o exit(0)
              /\ ForklessText \in Seq(Tokens)
        BY <1>2, <3>1, PipeParentCalls
      <4>. QED BY <4>2, <4>3, Zenon
    <3>3. <<>> \o t = t
      BY Joined
    <3>4. Prints(Main, t, x)'
      BY <2>1, <2>4, <3>2, <3>3, Zenon DEF Prints
    <3>5. PrintsAndExits(Main, ForklessText, 0)'
      BY <3>2, <3>4, Zenon DEF PrintsAndExits
    <3>6. Family'
      <4>1. q \o x # <<>>
        BY <3>2
      <4>. QED BY <2>4, <3>2, <4>1, Zenon
    <3>. QED BY <2>1, <2>4, <3>5, <3>6, Zenon DEF PipeFailing, PipeInv
  <2>. QED BY <2>2, <2>3, <2>4, Zenon
<1>. QED BY <1>3, <1>4 DEF Opening

(* What follows a failure of pipe() or fork() stays what it is.            *)
LEMMA PipeFailingSteps ==
  ASSUME TypesOK, Family, program = "pipe", PipeFailing, NEW p \in Pid, Step(p)
  PROVE  PipeInv' /\ Family'
<1>1. p = Main /\ Alone /\ failed
  BY AloneSteps DEF PipeFailing
<1>2. CASE Reports(ErrorText, "FAIL")
  <2>1. PICK t \in Seq(Tokens), w \in Texts : t = ErrorText /\ w = "FAIL"
    <3>1. PICK a, b, d \in Tokens : a = "ERROR: pipe returned " /\ b = "-N" /\ d = ")"
      BY TokenTypes, Zenon DEF Texts
    <3>. QED BY <3>1, TokenTypes, TupleTypes, Zenon DEF ErrorText, Texts
  <2>2. Reports(t, w)
    BY <1>2, <2>1, Zenon
  <2>3. Reports(t, w)' /\ Alone' /\ Family' /\ Still
    BY <1>1, <2>2, ReportSteps
  <2>4. Reports(ErrorText, "FAIL")'
    BY <2>1, <2>3, Zenon
  <2>. QED BY <1>1, <2>3, <2>4, Zenon DEF PipeFailing, PipeInv, Still
<1>3. CASE marked = 0 /\ PrintsAndExits(Main, ForklessText, 0)
  <2>1. PICK t : t = ForklessText
    OBVIOUS
  <2>2. PrintsAndExits(Main, t, 0)
    BY <1>3, <2>1, Zenon
  <2>3. PrintsAndExits(Main, t, 0)' /\ Alone' /\ Family' /\ Still /\ marked' = marked
    BY <1>1, <2>2, ExitsSteps
  <2>4. PrintsAndExits(Main, ForklessText, 0)'
    BY <2>1, <2>3, Zenon
  <2>. QED BY <1>1, <1>3, <2>3, <2>4, Zenon DEF PipeFailing, PipeInv, Still
<1>. QED BY <1>2, <1>3, Zenon DEF PipeFailing

(* A pass is completed.                                                    *)
LEMMA PassingSteps ==
  ASSUME TypesOK, Family, program = "pipe", Passing, NEW p \in Pid, Step(p)
  PROVE  PipeInv' /\ Family'
<1>1. p = Main /\ Alone /\ ~failed /\ cpid \in Pid
  BY AloneSteps DEF Passing
<1>2. PICK t \in Seq(Tokens), w \in Texts :
        w = "PASS" /\ Reports(t, w) /\ (whole => t \in PipeTexts(cpid))
  BY Zenon DEF Passing, Texts
<1>3. Reports(t, w)' /\ Alone' /\ Family' /\ Still
  BY <1>1, <1>2, ReportSteps
<1>4. Passing'
  BY <1>1, <1>2, <1>3, Zenon DEF Passing, Still
<1>. QED BY <1>3, <1>4 DEF PipeInv

(* What the first call does.                                               *)
LEMMA CallSteps ==
  ASSUME TypesOK, NEW p \in Pid, Step(p),
         NEW f \in CallSet, NEW t \in Seq(CallSet), Head(todo[p]) = f, Tail(todo[p]) = t
  PROVE  /\ f.op \in {"write", "put", "close"} =>
              /\ UNCHANGED <<procVars, program, whole, cpid, failed, marked>>
              /\ todo'[p] = t /\ \A o \in Pid \ {p} : todo'[o] = todo[o]
         /\ f.op = "write" => console' = console \o f.arg /\ UNCHANGED <<buffer, writers>>
         /\ f.op = "put" => buffer' = buffer \o f.arg /\ UNCHANGED <<console, writers>>
         /\ f.op = "close" => writers' = writers \ {p} /\ UNCHANGED <<console, buffer>>
         /\ f.op = "exit" => ExitProcess(p) /\ Arg(p) = f.arg
         /\ f.op = "copy" => Copy(p)
         /\ f.op = "wait" => Wait(p) /\ Arg(p) = f.arg
<1>1. t \o <<>> = t
  BY Joined
<1>2. todo \in [Pid -> Seq(CallSet)]
  BY DEF TypesOK
<1>3. Then(p, <<>>) => todo'[p] = t /\ \A o \in Pid \ {p} : todo'[o] = todo[o]
  <2>1. Then(p, <<>>) => todo' = [todo EXCEPT ![p] = t]
    BY <1>1, Zenon DEF Then
  <2>. QED BY <1>2, <2>1
<1>4. CASE f.op = "write"
  <2>1. Write(p) /\ ~Calls(p, "mark") /\ Arg(p) = f.arg
    BY <1>1, <1>4, Steps DEF Calls, Arg
  <2>. QED BY <1>1, <1>3, <1>4, <2>1 DEF Write, pipe
<1>5. CASE f.op = "put"
  <2>1. Put(p) /\ Arg(p) = f.arg
    BY <1>1, <1>5, Steps DEF Arg
  <2>. QED BY <1>1, <1>3, <1>5, <2>1 DEF Put
<1>6. CASE f.op = "close"
  <2>1. Close(p)
    BY <1>1, <1>6, Steps
  <2>. QED BY <1>1, <1>3, <1>6, <2>1 DEF Close
<1>7. CASE f.op \notin {"write", "put", "close"}
  <2>1. /\ f.op = "exit" => ExitProcess(p) /\ Arg(p) = f.arg
        /\ f.op = "copy" => Copy(p)
        /\ f.op = "wait" => Wait(p) /\ Arg(p) = f.arg
    BY <1>1, <1>7, Steps DEF Arg
  <2>. QED BY <1>1, <1>7, <2>1
<1>. QED BY <1>4, <1>5, <1>6, <1>7

(* What the child of pipe.c does with its next call.                       *)
LEMMA ChildRests ==
  ASSUME TypesOK, NEW c \in Pid \ {Main}, NEW n \in 1 .. 5, todo[c] = ChildRest(c, n), Step(c)
  PROVE  /\ n # 5 /\ todo'[c] = ChildRest(c, n + 1) /\ \A o \in Pid \ {c} : todo'[o] = todo[o]
         /\ program' = program /\ whole' = whole
         /\ n = 1 => console' = console \o CpidText(0) /\ UNCHANGED <<buffer, writers>>
         /\ n = 2 => buffer' = buffer \o Data /\ UNCHANGED <<console, writers>>
         /\ n = 3 => UNCHANGED <<console, buffer>>
         /\ n = 4 => UNCHANGED <<console, buffer>>
<1>1. todo \in [Pid -> Seq(CallSet)] /\ c \in Int /\ 0 \in Int
  BY PidAssumption DEF TypesOK
<1>2. PICK f, g, h, i \in CallSet :
        /\ f = Call("write", CpidText(0)) /\ g = Call("put", Data) /\ h = Call("close", c)
        /\ i = Call("exit", 0)
        /\ f.op = "write" /\ f.arg = CpidText(0) /\ g.op = "put" /\ g.arg = Data
        /\ h.op = "close" /\ i.op = "exit"
  <2>1. CpidText(0) \in Seq(Tokens)
    BY <1>1, CpidCalls
  <2>2. /\ Call("write", CpidText(0)) \in CallSet /\ Call("put", Data) \in CallSet
        /\ Call("close", c) \in CallSet /\ Call("exit", 0) \in CallSet
    BY <1>1, <2>1, PipeTypes, CallTypes
  <2>. QED BY <2>2, CallFields
<1>3. PICK t4, t3, t2, t1 \in Seq(CallSet) :
        /\ t4 = ChildRest(c, 4) /\ Head(t4) = i /\ Tail(t4) = <<>>
        /\ t3 = ChildRest(c, 3) /\ Head(t3) = h /\ Tail(t3) = t4
        /\ t2 = ChildRest(c, 2) /\ Head(t2) = g /\ Tail(t2) = t3
        /\ t1 = ChildRest(c, 1) /\ Head(t1) = f /\ Tail(t1) = t2
        /\ ChildRest(c, 5) = <<>>
  <2>1. PICK t4 \in Seq(CallSet) : t4 = <<i>> /\ Head(t4) = i /\ Tail(t4) = <<>>
    <3>1. <<i>> \in Seq(CallSet) /\ Head(<<i>>) = i /\ Tail(<<i>>) = <<>>
      OBVIOUS
    <3>. QED BY <3>1, Zenon
  <2>2. PICK t3 \in Seq(CallSet) : t3 = <<h>> \o t4 /\ Head(t3) = h /\ Tail(t3) = t4
    BY AfterFirst
  <2>3. PICK t2 \in Seq(CallSet) : t2 = <<g>> \o t3 /\ Head(t2) = g /\ Tail(t2) = t3
    BY AfterFirst
  <2>4. PICK t1 \in Seq(CallSet) : t1 = <<f>> \o t2 /\ Head(t1) = f /\ Tail(t1) = t2
    BY AfterFirst
  <2>5. /\ t4 = ChildRest(c, 4) /\ t3 = ChildRest(c, 3) /\ t2 = ChildRest(c, 2)
        /\ t1 = ChildRest(c, 1) /\ ChildRest(c, 5) = <<>>
    <3>1. t4 = ChildRest(c, 4) /\ ChildRest(c, 5) = <<>>
      BY <1>2, <2>1, Rests, Zenon DEF exit
    <3>2. t3 = ChildRest(c, 3)
      BY <1>2, <2>2, <3>1, Rests, Zenon
    <3>3. t2 = ChildRest(c, 2)
      BY <1>2, <2>3, <3>2, Rests, Zenon
    <3>4. t1 = ChildRest(c, 1)
      BY <1>2, <2>4, <3>3, Rests, Zenon DEF write
    <3>. QED BY <3>1, <3>2, <3>3, <3>4
  <2> WITNESS t4 \in Seq(CallSet), t3 \in Seq(CallSet), t2 \in Seq(CallSet), t1 \in Seq(CallSet)
  <2>. QED BY <2>1, <2>2, <2>3, <2>4, <2>5, Zenon
<1>4. CASE n = 1
  <2>1. Head(todo[c]) = f /\ Tail(todo[c]) = t2
    BY <1>3, <1>4, Zenon
  <2>2. todo'[c] = ChildRest(c, 2)
    <3>1. todo'[c] = t2
      BY <1>2, <2>1, CallSteps
    <3>. QED BY <1>3, <3>1, Zenon
  <2>3. console' = console \o f.arg
    BY <1>2, <2>1, CallSteps
  <2>4. console' = console \o CpidText(0)
    BY <1>2, <2>3, Zenon
  <2>5. /\ \A o \in Pid \ {c} : todo'[o] = todo[o]
        /\ program' = program /\ whole' = whole /\ UNCHANGED <<buffer, writers>>
    BY <1>2, <2>1, CallSteps
  <2>. QED BY <1>4, <2>2, <2>4, <2>5
<1>5. CASE n = 2
  <2>1. Head(todo[c]) = g /\ Tail(todo[c]) = t3
    BY <1>3, <1>5, Zenon
  <2>2. todo'[c] = ChildRest(c, 3)
    <3>1. todo'[c] = t3
      BY <1>2, <2>1, CallSteps
    <3>. QED BY <1>3, <3>1, Zenon
  <2>3. buffer' = buffer \o g.arg
    BY <1>2, <2>1, CallSteps
  <2>4. buffer' = buffer \o Data
    BY <1>2, <2>3, Zenon
  <2>5. /\ \A o \in Pid \ {c} : todo'[o] = todo[o]
        /\ program' = program /\ whole' = whole /\ UNCHANGED <<console, writers>>
    BY <1>2, <2>1, CallSteps
  <2>. QED BY <1>5, <2>2, <2>4, <2>5
<1>6. CASE n = 3
  <2>1. Head(todo[c]) = h /\ Tail(todo[c]) = t4
    BY <1>3, <1>6, Zenon
  <2>2. todo'[c] = ChildRest(c, 4)
    <3>1. todo'[c] = t4
      BY <1>2, <2>1, CallSteps
    <3>. QED BY <1>3, <3>1, Zenon
  <2>3. /\ \A o \in Pid \ {c} : todo'[o] = todo[o]
        /\ program' = program /\ whole' = whole
    BY <1>2, <2>1, CallSteps
  <2>4. writers' = writers \ {c} /\ UNCHANGED <<console, buffer>>
    BY <1>2, <2>1, CallSteps
  <2>. QED BY <1>6, <2>2, <2>3, <2>4
<1>7. CASE n = 4
  <2>1. PICK e \in Seq(CallSet) : e = <<>>
    <3>1. <<>> \in Seq(CallSet)
      OBVIOUS
    <3>. QED BY <3>1
  <2>2. Head(todo[c]) = i /\ Tail(todo[c]) = e
    BY <1>3, <1>7, <2>1, Zenon
  <2>3. ExitProcess(c)
    BY <1>2, <2>2, CallSteps
  <2>4. todo'[c] = ChildRest(c, 5)
    <3>1. todo'[c] = <<>>
      BY <1>1, <2>3 DEF ExitProcess
    <3>. QED BY <1>3, <3>1, Zenon
  <2>. QED BY <1>1, <1>7, <2>3, <2>4 DEF ExitProcess
<1>8. n # 5
  BY <1>3, Steps
<1>. QED BY <1>4, <1>5, <1>6, <1>7, <1>8

(* What main() does with its next call, before it waits.                   *)
LEMMA MainRests ==
  ASSUME TypesOK, NEW c \in Pid \ {Main}, NEW m \in 1 .. 5, todo[Main] = MainRest(c, m), Step(Main)
  PROVE  /\ m = 5 => Wait(Main)
         /\ m = 3 => Copy(Main)
         /\ \A o \in Pid \ {Main} : m # 5 => todo'[o] = todo[o]
         /\ m # 5 => program' = program /\ whole' = whole
         /\ m \in {1, 2, 4} => todo'[Main] = MainRest(c, m + 1)
         /\ m = 3 => \/ /\ buffer # <<>> /\ console' = Append(console, Head(buffer))
                        /\ buffer' = Tail(buffer) /\ UNCHANGED <<todo, writers>>
                     \/ /\ buffer = <<>> /\ writers = {} /\ todo'[Main] = MainRest(c, 4)
                        /\ UNCHANGED <<console, buffer, writers>>
         /\ m = 1 => console' = console \o CpidText(c) /\ UNCHANGED <<buffer, writers>>
         /\ m = 2 => writers' = writers \ {Main} /\ UNCHANGED <<console, buffer>>
         /\ m = 4 => console' = console \o <<NL>> /\ UNCHANGED <<buffer, writers>>
<1>1. /\ todo \in [Pid -> Seq(CallSet)] /\ c \in Int /\ 0 \in Int /\ Main \in Pid /\ Main \in Int
      /\ program \in Programs
  BY PidAssumption DEF TypesOK
<1>2. PICK a, b, f, g, h \in CallSet, z \in Seq(CallSet), t1, t2, t3, t4, t5 \in Seq(CallSet) :
        /\ a.op = "write" /\ a.arg = CpidText(c)
        /\ b.op = "close" /\ f.op = "copy" /\ g.op = "write" /\ g.arg = <<NL>> /\ h.op = "wait"
        /\ t5 = MainRest(c, 5) /\ Head(t5) = h /\ Tail(t5) = z
        /\ t4 = MainRest(c, 4) /\ Head(t4) = g /\ Tail(t4) = t5
        /\ t3 = MainRest(c, 3) /\ Head(t3) = f /\ Tail(t3) = t4
        /\ t2 = MainRest(c, 2) /\ Head(t2) = b /\ Tail(t2) = t3
        /\ t1 = MainRest(c, 1) /\ Head(t1) = a /\ Tail(t1) = t2
  <2>1. PICK z, t \in Seq(CallSet), f, g, h \in CallSet :
           /\ f = Call("copy", 0) /\ g = Call("write", <<NL>>) /\ h = Call("wait", Pid)
           /\ t = <<g>> /\ write(<<NL>>) = t
           /\ WaitAndPass = <<h>> \o z /\ WaitAndPass \in Seq(CallSet)
           /\ CopyAndPass = <<f>> \o (t \o WaitAndPass) /\ CopyAndPass \in Seq(CallSet)
    BY <1>1, PassCalls, Zenon
  <2>2. PICK a, b \in CallSet : a = Call("write", CpidText(c)) /\ b = Call("close", Main)
    <3>1. CpidText(c) \in Seq(Tokens)
      BY <1>1, CpidCalls
    <3>. QED BY <1>1, <3>1, CallTypes
  <2>3. /\ a.op = "write" /\ a.arg = CpidText(c)
        /\ b.op = "close" /\ f.op = "copy" /\ g.op = "write" /\ g.arg = <<NL>> /\ h.op = "wait"
    BY <2>1, <2>2, CallFields, Zenon
  <2>4. PICK t5 \in Seq(CallSet) : t5 = <<h>> \o z /\ Head(t5) = h /\ Tail(t5) = z
    BY AfterFirst
  <2>5. PICK t4 \in Seq(CallSet) : t4 = <<g>> \o t5 /\ Head(t4) = g /\ Tail(t4) = t5
    BY AfterFirst
  <2>6. PICK t3 \in Seq(CallSet) : t3 = <<f>> \o t4 /\ Head(t3) = f /\ Tail(t3) = t4
    BY AfterFirst
  <2>7. PICK t2 \in Seq(CallSet) : t2 = <<b>> \o t3 /\ Head(t2) = b /\ Tail(t2) = t3
    BY AfterFirst
  <2>8. PICK t1 \in Seq(CallSet) : t1 = <<a>> \o t2 /\ Head(t1) = a /\ Tail(t1) = t2
    BY AfterFirst
  <2>9. t5 = MainRest(c, 5) /\ t5 = WaitAndPass
    BY <2>1, <2>4, Rests, Zenon
  <2>10. t4 = MainRest(c, 4) /\ t4 = t \o WaitAndPass
    BY <2>1, <2>5, <2>9, Rests, Zenon
  <2>11. t3 = MainRest(c, 3)
    BY <2>1, <2>6, <2>10, Rests, Zenon
  <2>12. t2 = MainRest(c, 2)
    BY <2>2, <2>7, <2>11, Rests, Zenon
  <2>13. t1 = MainRest(c, 1)
    BY <2>2, <2>8, <2>12, Rests, Zenon DEF write
  <2> WITNESS a \in CallSet, b \in CallSet, f \in CallSet, g \in CallSet, h \in CallSet,
              z \in Seq(CallSet), t1 \in Seq(CallSet), t2 \in Seq(CallSet), t3 \in Seq(CallSet),
              t4 \in Seq(CallSet), t5 \in Seq(CallSet)
  <2>. QED BY <2>3, <2>4, <2>5, <2>6, <2>7, <2>8, <2>9, <2>10, <2>11, <2>12, <2>13, Zenon
<1>3. /\ a.op = "write" /\ a.arg = CpidText(c)
      /\ b.op = "close" /\ f.op = "copy" /\ g.op = "write" /\ g.arg = <<NL>> /\ h.op = "wait"
  BY <1>2, Zenon
<1>4. CASE m = 1
  <2>1. Head(todo[Main]) = a /\ Tail(todo[Main]) = t2
    BY <1>2, <1>4, Zenon
  <2>2. todo'[Main] = MainRest(c, 2)
    <3>1. todo'[Main] = t2
      BY <1>1, <1>3, <2>1, CallSteps
    <3>. QED BY <1>2, <3>1, Zenon
  <2>3. console' = console \o a.arg
    BY <1>1, <1>3, <2>1, CallSteps
  <2>4. console' = console \o CpidText(c)
    BY <1>3, <2>3, Zenon
  <2>5. /\ \A o \in Pid \ {Main} : todo'[o] = todo[o]
        /\ program' = program /\ whole' = whole /\ UNCHANGED <<buffer, writers>>
    BY <1>1, <1>3, <2>1, CallSteps
  <2>. QED BY <1>4, <2>2, <2>4, <2>5
<1>5. CASE m = 2
  <2>1. Head(todo[Main]) = b /\ Tail(todo[Main]) = t3
    BY <1>2, <1>5, Zenon
  <2>2. todo'[Main] = MainRest(c, 3)
    <3>1. todo'[Main] = t3
      BY <1>1, <1>3, <2>1, CallSteps
    <3>. QED BY <1>2, <3>1, Zenon
  <2>. QED BY <1>1, <1>3, <1>5, <2>1, <2>2, CallSteps
<1>6. CASE m = 4
  <2>1. Head(todo[Main]) = g /\ Tail(todo[Main]) = t5
    BY <1>2, <1>6, Zenon
  <2>2. todo'[Main] = MainRest(c, 5)
    <3>1. todo'[Main] = t5
      BY <1>1, <1>3, <2>1, CallSteps
    <3>. QED BY <1>2, <3>1, Zenon
  <2>3. console' = console \o g.arg
    BY <1>1, <1>3, <2>1, CallSteps
  <2>4. console' = console \o <<NL>>
    BY <1>3, <2>3, Zenon
  <2>5. /\ \A o \in Pid \ {Main} : todo'[o] = todo[o]
        /\ program' = program /\ whole' = whole /\ UNCHANGED <<buffer, writers>>
    BY <1>1, <1>3, <2>1, CallSteps
  <2>. QED BY <1>6, <2>2, <2>4, <2>5
<1>7. CASE m = 5
  <2>1. Head(todo[Main]) = h /\ Tail(todo[Main]) = z
    BY <1>2, <1>7, Zenon
  <2>. QED BY <1>1, <1>3, <1>7, <2>1, CallSteps
<1>8. CASE m = 3
  <2>0. Head(todo[Main]) = f /\ Tail(todo[Main]) = t4
    BY <1>2, <1>8, Zenon
  <2>1. Copy(Main) /\ Tail(todo[Main]) = t4
    BY <1>1, <1>3, <2>0, CallSteps
  <2>2. t4 \o <<>> = t4
    BY Joined
  <2>3. Then(Main, <<>>) => todo'[Main] = t4 /\ \A o \in Pid \ {Main} : todo'[o] = todo[o]
    <3>1. Then(Main, <<>>) => todo' = [todo EXCEPT ![Main] = t4]
      BY <2>1, <2>2, Zenon DEF Then
    <3>. QED BY <1>1, <3>1
  <2>4. t4 = MainRest(c, 4)
    BY <1>2, Zenon
  <2>. QED BY <1>8, <2>1, <2>3, <2>4 DEF Copy
<1>. QED BY <1>4, <1>5, <1>6, <1>7, <1>8

(* Only whether the two have printed matters.                              *)
LEMMA SameIntros ==
  ASSUME NEW c, NEW n \in 1 .. 5, NEW m \in 1 .. 5, NEW k \in 1 .. 5, NEW l \in 1 .. 5,
         n = 1 <=> k = 1, m = 1 <=> l = 1
  PROVE  Intros(c, n, m) = Intros(c, k, l)
<1>1. (n > 1 <=> n # 1) /\ (m > 1 <=> m # 1) /\ (k > 1 <=> k # 1) /\ (l > 1 <=> l # 1)
  OBVIOUS
<1>2. CASE n = 1 /\ m = 1
  BY <1>2, Zenon
<1>3. CASE n = 1 /\ m # 1
  BY <1>1, <1>3, Zenon DEF Intros
<1>4. CASE n # 1 /\ m = 1
  BY <1>1, <1>4, Zenon DEF Intros
<1>5. CASE n # 1 /\ m # 1
  BY <1>1, <1>5, Zenon DEF Intros
<1>. QED BY <1>2, <1>3, <1>4, <1>5

(* The first lines are text.                                               *)
LEMMA IntroTypes ==
  ASSUME NEW c \in Int, NEW n \in 1 .. 5, NEW m \in 1 .. 5, NEW intro \in Intros(c, n, m)
  PROVE  intro \in Seq(Tokens)
<1>1. 0 \in Int /\ <<>> \in Seq(Tokens)
  OBVIOUS
<1>2. PICK a, b \in Seq(Tokens) : a = CpidText(0) /\ b = CpidText(c)
  BY <1>1, CpidCalls
<1>3. a \o b \in Seq(Tokens) /\ b \o a \in Seq(Tokens)
  BY Joined
<1>4. PICK d, e \in Seq(Tokens) : d = a \o b /\ e = b \o a
  BY <1>3
<1>5. intro \in {<<>>, a, b, d, e}
  <2>1. CASE n = 1 /\ m = 1
    BY <2>1, IntrosOf
  <2>2. CASE n = 1 /\ m > 1
    <3>1. Intros(c, n, m) = {CpidText(c)}
      BY <2>2, IntrosOf
    <3>. QED BY <1>2, <3>1, Zenon
  <2>3. CASE n > 1 /\ m = 1
    <3>1. Intros(c, n, m) = {CpidText(0)}
      BY <2>3, IntrosOf
    <3>. QED BY <1>2, <3>1, Zenon
  <2>4. CASE n > 1 /\ m > 1
    <3>1. Intros(c, n, m) = {CpidText(0) \o CpidText(c), CpidText(c) \o CpidText(0)}
      BY <2>4, IntrosOf, Zenon
    <3>. QED BY <1>2, <1>4, <3>1, Zenon
  <2>. QED BY <2>1, <2>2, <2>3, <2>4
<1>. QED BY <1>1, <1>4, <1>5

(* Nothing is left of two texts that make none.                            *)
LEMMA Nothing == \A a, b \in Seq(Tokens) : a \o b = <<>> => a = <<>> /\ b = <<>>
<1> SUFFICES ASSUME NEW a \in Seq(Tokens), NEW b \in Seq(Tokens), a \o b = <<>>
             PROVE  a = <<>> /\ b = <<>>
  OBVIOUS
<1>1. Len(a \o b) = Len(a) + Len(b) /\ Len(a) \in Nat /\ Len(b) \in Nat
  OBVIOUS
<1>2. Len(a \o b) = 0
  OBVIOUS
<1>. QED BY <1>1, <1>2

(* The writes of a line stay together: what the child prints and puts.     *)
LEMMA InOrderChild ==
  ASSUME TypesOK, NEW c \in Pid \ {Main}, InOrder(c), Step(c)
  PROVE  InOrder(c)'
<1>1. PICK n, m \in 1 .. 5 :
        /\ todo[c] = ChildRest(c, n) /\ todo[Main] = MainRest(c, m)
        /\ n <= 3 => c \in writers
        /\ m >= 4 => n >= 4 /\ buffer = <<>>
        /\ \E intro \in Intros(c, n, m), part \in Seq(Tokens) :
             /\ part \o buffer = IF n >= 3 THEN Data ELSE <<>>
             /\ m = 1 => part = <<>>
             /\ console = IF m = 5 THEN (intro \o part) \o <<NL>> ELSE intro \o part
  BY DEF InOrder
<1>2. PICK intro \in Intros(c, n, m), part \in Seq(Tokens) :
        /\ part \o buffer = IF n >= 3 THEN Data ELSE <<>>
        /\ m = 1 => part = <<>>
        /\ console = IF m = 5 THEN (intro \o part) \o <<NL>> ELSE intro \o part
  BY <1>1, Zenon
<1>3. /\ n # 5 /\ todo'[c] = ChildRest(c, n + 1) /\ \A o \in Pid \ {c} : todo'[o] = todo[o]
      /\ program' = program
      /\ n = 1 => console' = console \o CpidText(0) /\ UNCHANGED <<buffer, writers>>
      /\ n = 2 => buffer' = buffer \o Data /\ UNCHANGED <<console, writers>>
      /\ n = 3 => UNCHANGED <<console, buffer>>
      /\ n = 4 => UNCHANGED <<console, buffer>>
  <2>1. todo[c] = ChildRest(c, n)
    BY <1>1, Zenon
  <2>. QED BY <2>1, ChildRests
<1>4. /\ buffer \in Seq(Tokens) /\ console \in Seq(Tokens) /\ c \in Int /\ Main \in Pid \ {c}
      /\ intro \in Seq(Tokens) /\ part \in Seq(Tokens)
  <2>1. c \in Int
    BY PidAssumption
  <2>2. intro \in Seq(Tokens)
    BY <2>1, IntroTypes
  <2>. QED BY <2>1, <2>2, PidAssumption DEF TypesOK
<1>5. todo'[Main] = MainRest(c, m)
  BY <1>1, <1>3, <1>4
<1>6. ASSUME NEW k \in 1 .. 5, NEW i \in Intros(c, k, m), todo'[c] = ChildRest(c, k),
             k <= 3 => c \in writers', m >= 4 => k >= 4 /\ buffer' = <<>>,
             part \o buffer' = IF k >= 3 THEN Data ELSE <<>>,
             console' = IF m = 5 THEN (i \o part) \o <<NL>> ELSE i \o part
      PROVE  InOrder(c)'
  <2>1. todo'[c] = ChildRest(c, k)' /\ todo'[Main] = MainRest(c, m)'
    BY <1>3, <1>5, <1>6, SameRests, Zenon
  <2>. QED BY <1>2, <1>6, <2>1, Zenon DEF InOrder
<1>7. CASE n = 1
  <2>1. n + 1 = 2 /\ 2 \in 1 .. 5 /\ 2 <= 3 /\ ~(2 >= 3) /\ ~(n >= 3) /\ ~(n >= 4) /\ ~(2 >= 4)
        /\ n <= 3
    BY <1>7
  <2>2. part = <<>> /\ buffer = <<>> /\ m # 5 /\ ~(m >= 4)
    <3>1. part \o buffer = <<>>
      BY <1>2, <2>1, Zenon
    <3>2. ~(m >= 4)
      BY <1>1, <2>1, Zenon
    <3>3. m # 5
      BY <3>2
    <3>. QED BY <1>4, <3>1, <3>2, <3>3, Nothing, Zenon
  <2>3. console = intro
    <3>1. console = intro \o <<>>
      BY <1>2, <2>2, Zenon
    <3>. QED BY <1>4, <3>1, Joined
  <2>4. intro \o CpidText(0) \in Intros(c, 2, m)
    <3>1. CASE m = 1
      <4>1. intro = <<>> /\ Intros(c, 2, m) = {CpidText(0)}
        BY <1>7, <3>1, IntrosOf
      <4>2. CpidText(0) \in Seq(Tokens)
        <5>1. 0 \in Int
          OBVIOUS
        <5>. QED BY <5>1, CpidCalls
      <4>3. <<>> \o CpidText(0) = CpidText(0)
        BY <4>2, Joined
      <4>. QED BY <4>1, <4>3, Zenon
    <3>2. CASE m > 1
      <4>1. Intros(c, 1, m) = {CpidText(c)}
        BY <3>2, IntrosOf
      <4>2. Intros(c, 2, m) = {CpidText(0) \o CpidText(c), CpidText(c) \o CpidText(0)}
        <5>1. 2 > 1 /\ 2 \in 1 .. 5
          OBVIOUS
        <5>. QED BY <3>2, <5>1, IntrosOf, Zenon
      <4>. QED BY <1>2, <1>7, <4>1, <4>2, Zenon
    <3>. QED BY <3>1, <3>2
  <2>5. PICK i \in Intros(c, 2, m) : i = intro \o CpidText(0)
    BY <2>4
  <2>6. i \o part = i
    <3>1. i \in Seq(Tokens)
      BY <1>4, <2>1, IntroTypes
    <3>2. i \o <<>> = i
      BY <3>1, Joined
    <3>. QED BY <2>2, <3>2, Zenon
  <2>7. console' = i \o part
    BY <1>3, <1>7, <2>3, <2>5, <2>6, Zenon
  <2>8. part \o buffer' = <<>> /\ writers' = writers /\ c \in writers
    <3>1. buffer' = buffer /\ writers' = writers
      BY <1>3, <1>7
    <3>2. part \o buffer = <<>>
      BY <1>2, <2>1, Zenon
    <3>3. c \in writers
      BY <1>1, <2>1, Zenon
    <3>. QED BY <3>1, <3>2, <3>3, Zenon
  <2>9. todo'[c] = ChildRest(c, 2)
    BY <1>3, <2>1, Zenon
  <2>. QED BY <1>6, <2>1, <2>2, <2>7, <2>8, <2>9, Zenon
<1>8. CASE n = 2
  <2>1. n + 1 = 3 /\ 3 \in 1 .. 5 /\ 3 <= 3 /\ 3 >= 3 /\ ~(n >= 3) /\ ~(n >= 4) /\ n <= 3
    BY <1>8
  <2>2. part = <<>> /\ buffer = <<>> /\ m # 5 /\ ~(m >= 4)
    <3>1. part \o buffer = <<>>
      BY <1>2, <2>1, Zenon
    <3>2. ~(m >= 4)
      BY <1>1, <2>1, Zenon
    <3>3. m # 5
      BY <3>2
    <3>. QED BY <1>4, <3>1, <3>2, <3>3, Nothing, Zenon
  <2>3. intro \in Intros(c, 3, m)
    <3>1. Intros(c, 2, m) = Intros(c, 3, m)
      BY SameIntros
    <3>. QED BY <1>2, <1>8, <3>1, Zenon
  <2>4. part \o buffer' = Data
    <3>1. buffer' = <<>> \o Data
      BY <1>3, <1>8, <2>2, Zenon
    <3>2. <<>> \o Data = Data /\ Data \in Seq(Tokens)
      BY PipeTypes, Joined
    <3>. QED BY <2>2, <3>1, <3>2, Zenon
  <2>5. console' = console /\ writers' = writers
    BY <1>3, <1>8
  <2>6. console' = intro \o part
    BY <1>2, <2>2, <2>5, Zenon
  <2>7. todo'[c] = ChildRest(c, 3) /\ c \in writers'
    BY <1>1, <1>3, <2>1, <2>5, Zenon
  <2>. QED BY <1>6, <2>1, <2>2, <2>3, <2>4, <2>6, <2>7, Zenon
<1>9. CASE n = 3
  <2>1. n + 1 = 4 /\ 4 \in 1 .. 5 /\ ~(4 <= 3) /\ 4 >= 3 /\ n >= 3 /\ 4 >= 4
    BY <1>9
  <2>2. intro \in Intros(c, 4, m)
    <3>1. Intros(c, 3, m) = Intros(c, 4, m)
      BY SameIntros
    <3>. QED BY <1>2, <1>9, <3>1, Zenon
  <2>3. console' = console /\ buffer' = buffer
    BY <1>3, <1>9
  <2>4. todo'[c] = ChildRest(c, 4)
    BY <1>3, <2>1, Zenon
  <2>. QED BY <1>1, <1>2, <1>6, <2>1, <2>2, <2>3, <2>4, Zenon
<1>10. CASE n = 4
  <2>1. n + 1 = 5 /\ 5 \in 1 .. 5 /\ ~(5 <= 3) /\ 5 >= 3 /\ n >= 3 /\ 5 >= 4
    BY <1>10
  <2>2. intro \in Intros(c, 5, m)
    <3>1. Intros(c, 4, m) = Intros(c, 5, m)
      BY SameIntros
    <3>. QED BY <1>2, <1>10, <3>1, Zenon
  <2>3. console' = console /\ buffer' = buffer
    BY <1>3, <1>10
  <2>4. todo'[c] = ChildRest(c, 5)
    BY <1>3, <2>1, Zenon
  <2>. QED BY <1>1, <1>2, <1>6, <2>1, <2>2, <2>3, <2>4, Zenon
<1>. QED BY <1>3, <1>7, <1>8, <1>9, <1>10

(* What main() prints and copies.                                          *)
LEMMA InOrderMain ==
  ASSUME TypesOK, NEW c \in Pid \ {Main}, InOrder(c), Step(Main), ~Wait(Main)
  PROVE  InOrder(c)'
<1>1. PICK n, m \in 1 .. 5 :
        /\ todo[c] = ChildRest(c, n) /\ todo[Main] = MainRest(c, m)
        /\ n <= 3 => c \in writers
        /\ m >= 4 => n >= 4 /\ buffer = <<>>
        /\ \E intro \in Intros(c, n, m), part \in Seq(Tokens) :
             /\ part \o buffer = IF n >= 3 THEN Data ELSE <<>>
             /\ m = 1 => part = <<>>
             /\ console = IF m = 5 THEN (intro \o part) \o <<NL>> ELSE intro \o part
  BY DEF InOrder
<1>2. PICK intro \in Intros(c, n, m), part \in Seq(Tokens) :
        /\ part \o buffer = IF n >= 3 THEN Data ELSE <<>>
        /\ m = 1 => part = <<>>
        /\ console = IF m = 5 THEN (intro \o part) \o <<NL>> ELSE intro \o part
  BY <1>1, Zenon
<1>3. /\ m # 5
      /\ \A o \in Pid \ {Main} : todo'[o] = todo[o]
      /\ program' = program
      /\ m \in {1, 2, 4} => todo'[Main] = MainRest(c, m + 1)
      /\ m = 3 => \/ /\ buffer # <<>> /\ console' = Append(console, Head(buffer))
                     /\ buffer' = Tail(buffer) /\ UNCHANGED <<todo, writers>>
                  \/ /\ buffer = <<>> /\ writers = {} /\ todo'[Main] = MainRest(c, 4)
                     /\ UNCHANGED <<console, buffer, writers>>
      /\ m = 1 => console' = console \o CpidText(c) /\ UNCHANGED <<buffer, writers>>
      /\ m = 2 => writers' = writers \ {Main} /\ UNCHANGED <<console, buffer>>
      /\ m = 4 => console' = console \o <<NL>> /\ UNCHANGED <<buffer, writers>>
  <2>1. todo[Main] = MainRest(c, m)
    BY <1>1, Zenon
  <2>. QED BY <2>1, MainRests
<1>4. /\ buffer \in Seq(Tokens) /\ console \in Seq(Tokens) /\ c \in Int
      /\ intro \in Seq(Tokens) /\ part \in Seq(Tokens)
  <2>1. c \in Int
    BY PidAssumption
  <2>2. intro \in Seq(Tokens)
    BY <2>1, IntroTypes
  <2>. QED BY <2>1, <2>2 DEF TypesOK
<1>5. todo'[c] = ChildRest(c, n)
  BY <1>1, <1>3
<1>6. ASSUME NEW k \in 1 .. 5, NEW i \in Intros(c, n, k), NEW q \in Seq(Tokens),
             todo'[Main] = MainRest(c, k),
             n <= 3 => c \in writers', k >= 4 => n >= 4 /\ buffer' = <<>>,
             q \o buffer' = IF n >= 3 THEN Data ELSE <<>>, k # 1,
             console' = IF k = 5 THEN (i \o q) \o <<NL>> ELSE i \o q
      PROVE  InOrder(c)'
  <2>1. todo'[c] = ChildRest(c, n)' /\ todo'[Main] = MainRest(c, k)'
    BY <1>3, <1>5, <1>6, SameRests, Zenon
  <2>. QED BY <1>6, <2>1, Zenon DEF InOrder
<1>7. CASE m = 1
  <2>1. m + 1 = 2 /\ 2 \in 1 .. 5 /\ ~(2 >= 4) /\ 2 # 1 /\ 2 # 5 /\ 1 # 5
    BY <1>7
  <2>2. part = <<>> /\ console = intro
    <3>1. part = <<>> /\ console = intro \o <<>>
      BY <1>2, <1>7, <2>1, Zenon
    <3>. QED BY <1>4, <3>1, Joined
  <2>3. intro \o CpidText(c) \in Intros(c, n, 2)
    <3>1. CASE n = 1
      <4>1. intro = <<>> /\ Intros(c, n, 2) = {CpidText(c)}
        BY <1>7, <3>1, IntrosOf
      <4>2. <<>> \o CpidText(c) = CpidText(c)
        <5>1. CpidText(c) \in Seq(Tokens)
          BY <1>4, CpidCalls
        <5>. QED BY <5>1, Joined
      <4>. QED BY <4>1, <4>2, Zenon
    <3>2. CASE n > 1
      <4>1. Intros(c, n, 1) = {CpidText(0)}
        BY <3>2, IntrosOf
      <4>2. Intros(c, n, 2) = {CpidText(0) \o CpidText(c), CpidText(c) \o CpidText(0)}
        <5>1. 2 > 1 /\ 2 \in 1 .. 5
          OBVIOUS
        <5>. QED BY <3>2, <5>1, IntrosOf, Zenon
      <4>. QED BY <1>2, <1>7, <4>1, <4>2, Zenon
    <3>. QED BY <3>1, <3>2
  <2>4. PICK i \in Intros(c, n, 2) : i = intro \o CpidText(c)
    BY <2>3
  <2>5. i \o part = i
    <3>1. i \in Seq(Tokens)
      BY <1>4, <2>1, IntroTypes
    <3>2. i \o <<>> = i
      BY <3>1, Joined
    <3>. QED BY <2>2, <3>2, Zenon
  <2>6. console' = i \o part
    BY <1>3, <1>7, <2>2, <2>4, <2>5, Zenon
  <2>7. buffer' = buffer /\ writers' = writers
    BY <1>3, <1>7
  <2>8. todo'[Main] = MainRest(c, 2)
    BY <1>3, <1>7, <2>1
  <2>. QED BY <1>1, <1>2, <1>6, <2>1, <2>6, <2>7, <2>8, Zenon
<1>8. CASE m = 2
  <2>1. m + 1 = 3 /\ 3 \in 1 .. 5 /\ ~(3 >= 4) /\ 3 # 1 /\ 3 # 5 /\ 2 # 5
    BY <1>8
  <2>2. intro \in Intros(c, n, 3)
    <3>1. Intros(c, n, 2) = Intros(c, n, 3)
      BY SameIntros
    <3>. QED BY <1>2, <1>8, <3>1, Zenon
  <2>3. console' = console /\ buffer' = buffer /\ writers' = writers \ {Main}
    BY <1>3, <1>8
  <2>4. n <= 3 => c \in writers'
    BY <1>1, <2>3
  <2>5. todo'[Main] = MainRest(c, 3)
    BY <1>3, <1>8, <2>1
  <2>6. console' = intro \o part /\ part \o buffer' = IF n >= 3 THEN Data ELSE <<>>
    BY <1>2, <1>8, <2>1, <2>3, Zenon
  <2>. QED BY <1>4, <1>6, <2>1, <2>2, <2>4, <2>5, <2>6, Zenon
<1>9. CASE m = 3
  <2>1. 3 \in 1 .. 5 /\ 4 \in 1 .. 5 /\ ~(3 >= 4) /\ 3 # 1 /\ 3 # 5 /\ 4 # 1 /\ 4 # 5
    OBVIOUS
  <2>2. console = intro \o part /\ part \o buffer = IF n >= 3 THEN Data ELSE <<>>
    BY <1>2, <1>9, <2>1, Zenon
  <2>3. CASE /\ buffer # <<>> /\ console' = Append(console, Head(buffer))
             /\ buffer' = Tail(buffer) /\ UNCHANGED <<todo, writers>>
    <3>1. PICK b, r : b = Head(buffer) /\ r = Tail(buffer)
      OBVIOUS
    <3>2. b \in Tokens /\ r \in Seq(Tokens)
      BY <1>4, <2>3, <3>1
    <3>3. PICK s \in Seq(Tokens) : s = <<b>>
      <4>1. <<b>> \in Seq(Tokens)
        BY <3>2, TupleTypes, Zenon
      <4>. QED BY <4>1, Zenon
    <3>4. buffer = s \o r
      <4>1. <<b>> \o r \in Seq(Tokens) /\ Len(<<b>> \o r) = 1 + Len(r) /\ Len(buffer) = 1 + Len(r)
        BY <1>4, <2>3, <3>1, <3>2
      <4>2. \A j \in 1 .. Len(buffer) : buffer[j] = (<<b>> \o r)[j]
        BY <1>4, <2>3, <3>1, <3>2, <4>1
      <4>3. buffer = <<b>> \o r
        BY <1>4, <4>1, <4>2, SeqEqual
      <4>. QED BY <3>3, <4>3, Zenon
    <3>5. PICK q \in Seq(Tokens) : q = part \o s
      BY <1>4, Joined
    <3>6. (part \o s) \o r = part \o (s \o r) /\ (intro \o part) \o s = intro \o (part \o s)
      <4>1. intro \in Seq(Tokens)
        BY <1>4
      <4>2. (part \o s) \o r = part \o (s \o r)
        BY <3>2, JoinedThree, Zenon
      <4>3. (intro \o part) \o s = intro \o (part \o s)
        BY <4>1, JoinedThree, Zenon
      <4>. QED BY <4>2, <4>3, Zenon
    <3>9. q \o buffer' = IF n >= 3 THEN Data ELSE <<>>
      BY <2>2, <2>3, <3>1, <3>4, <3>5, <3>6, Zenon
    <3>10. console' = intro \o q
      <4>1. Append(console, b) = console \o s
        BY <1>4, <3>2, <3>3
      <4>2. console' = console \o s
        BY <2>3, <3>1, <4>1, Zenon
      <4>. QED BY <2>2, <3>5, <3>6, <4>2, Zenon
    <3>7. todo' = todo /\ writers' = writers
      BY <2>3
    <3>8. todo'[Main] = MainRest(c, 3)
      BY <1>1, <1>9, <3>7, Zenon
    <3>. QED BY <1>1, <1>2, <1>6, <1>9, <2>1, <3>7, <3>8, <3>9, <3>10, Zenon
  <2>4. CASE /\ buffer = <<>> /\ writers = {} /\ todo'[Main] = MainRest(c, 4)
             /\ UNCHANGED <<console, buffer, writers>>
    <3>1. ~(n <= 3) /\ n >= 4
      BY <1>1, <2>4
    <3>2. intro \in Intros(c, n, 4)
      <4>1. Intros(c, n, 3) = Intros(c, n, 4)
        BY SameIntros
      <4>. QED BY <1>2, <1>9, <4>1, Zenon
    <3>3. buffer' = <<>> /\ buffer' = buffer /\ console' = console
      BY <2>4
    <3>4. part \o buffer' = IF n >= 3 THEN Data ELSE <<>>
      BY <2>2, <3>3, Zenon
    <3>5. console' = intro \o part
      BY <2>2, <3>3, Zenon
    <3>6. todo'[Main] = MainRest(c, 4)
      BY <2>4
    <3>. QED BY <1>4, <1>6, <2>1, <3>1, <3>2, <3>3, <3>4, <3>5, <3>6, Zenon
  <2>. QED BY <1>3, <1>9, <2>3, <2>4, Zenon
<1>10. CASE m = 4
  <2>1. m + 1 = 5 /\ 5 \in 1 .. 5 /\ 5 >= 4 /\ 5 # 1 /\ m >= 4 /\ 4 # 5
    BY <1>10
  <2>2. n >= 4 /\ buffer = <<>>
    BY <1>1, <2>1, Zenon
  <2>3. intro \in Intros(c, n, 5)
    <3>1. Intros(c, n, 4) = Intros(c, n, 5)
      BY SameIntros
    <3>. QED BY <1>2, <1>10, <3>1, Zenon
  <2>4. console' = console \o <<NL>> /\ buffer' = buffer /\ writers' = writers
    BY <1>3, <1>10
  <2>5. console' = (intro \o part) \o <<NL>>
    BY <1>2, <1>10, <2>1, <2>4, Zenon
  <2>6. todo'[Main] = MainRest(c, 5)
    BY <1>3, <1>10, <2>1
  <2>7. part \o buffer' = IF n >= 3 THEN Data ELSE <<>>
    BY <1>2, <2>4, Zenon
  <2>. QED BY <1>1, <1>4, <1>6, <2>1, <2>2, <2>3, <2>4, <2>5, <2>6, <2>7, Zenon
<1>. QED BY <1>3, <1>7, <1>8, <1>9, <1>10

(* Who does not step comes to the same calls.                              *)
LEMMA SameAwaits ==
  ASSUME NEW p, NEW after \in Seq(CallSet), Awaits(p, after), todo'[p] = todo[p]
  PROVE  Awaits(p, after)'
BY Zenon DEF Awaits

(* Who waits has one call less to make, or pipe.c would wait for ever.     *)
LEMMA WaitChanges ==
  ASSUME TypesOK, program = "pipe", todo'[Main] = todo[Main]
  PROVE  ~Wait(Main)
<1> SUFFICES ASSUME Wait(Main) PROVE FALSE
  OBVIOUS
<1>1. Main \in Pid /\ todo \in [Pid -> Seq(CallSet)]
  BY PidAssumption DEF TypesOK
<1>2. PICK s \in Seq(CallSet) : s = todo[Main] /\ s # <<>>
  BY <1>1 DEF Wait, Calls
<1>3. \A r : AfterWait(r) = <<>>
  BY Zenon DEF AfterWait
<1>4. Tail(s) \in Seq(CallSet) /\ Len(Tail(s)) = Len(s) - 1 /\ Len(s) \in Nat
  BY <1>2
<1>5. Tail(s) \o <<>> = Tail(s)
  BY <1>4, Joined
<1>6. Then(Main, <<>>)
  BY <1>3, Zenon DEF Wait
<1>7. todo' = [todo EXCEPT ![Main] = Tail(s)]
  BY <1>2, <1>5, <1>6, Zenon DEF Then
<1>8. Tail(s) = s
  BY <1>1, <1>2, <1>7
<1>. QED BY <1>4, <1>8

(* Both have printed and put all they have to.                             *)
LEMMA AllInOrder ==
  ASSUME TypesOK, NEW c \in Pid \ {Main}, InOrder(c), todo[c] = <<>>, todo[Main] = WaitAndPass
  PROVE  console \in PipeTexts(c)
<1>1. PICK n, m \in 1 .. 5 :
        /\ todo[c] = ChildRest(c, n) /\ todo[Main] = MainRest(c, m)
        /\ m >= 4 => n >= 4 /\ buffer = <<>>
        /\ \E intro \in Intros(c, n, m), part \in Seq(Tokens) :
             /\ part \o buffer = IF n >= 3 THEN Data ELSE <<>>
             /\ console = IF m = 5 THEN (intro \o part) \o <<NL>> ELSE intro \o part
  BY Zenon DEF InOrder
<1>2. PICK intro \in Intros(c, n, m), part \in Seq(Tokens) :
        /\ part \o buffer = IF n >= 3 THEN Data ELSE <<>>
        /\ console = IF m = 5 THEN (intro \o part) \o <<NL>> ELSE intro \o part
  BY <1>1, Zenon
<1>3. m = 5
  <2>1. PICK z \in Seq(CallSet), f, g, h, b, a \in CallSet :
          /\ f = Call("copy", 0) /\ g = Call("write", <<NL>>) /\ h = Call("wait", Pid)
          /\ b = Call("close", Main) /\ a = Call("write", CpidText(c))
          /\ Head(WaitAndPass) = h /\ Head(CopyAndPass) = f
          /\ WaitAndPass \in Seq(CallSet) /\ CopyAndPass \in Seq(CallSet)
    <3>1. program \in Programs /\ c \in Int /\ Main \in Int
      BY PidAssumption DEF TypesOK
    <3>2. Call("close", Main) \in CallSet /\ Call("write", CpidText(c)) \in CallSet
      BY <3>1, CpidCalls, CallTypes
    <3>. QED BY <3>1, <3>2, PassCalls, Zenon
  <2>2. h.op = "wait" /\ f.op = "copy" /\ g.op = "write" /\ b.op = "close" /\ a.op = "write"
    BY <2>1, CallFields, Zenon
  <2>3. Head(todo[Main]).op = "wait"
    BY <2>1, <2>2, Zenon
  <2>4. Head(MainRest(c, m)).op = "wait"
    BY <1>1, <2>3, Zenon
  <2>5. Head(MainRest(c, 3)).op = "copy"
    BY <2>1, <2>2, Rests, Zenon
  <2>6. PICK t \in Seq(CallSet) : t = WaitAndPass
    BY <2>1
  <2>7. Head(<<g>> \o t).op = "write"
    BY <2>2, AfterFirst
  <2>8. Head(MainRest(c, 4)).op = "write"
    BY <2>1, <2>6, <2>7, Rests, Zenon DEF write
  <2>9. PICK u, v \in Seq(CallSet) : u = CopyAndPass /\ v = <<b>> \o u
    BY <2>1, AfterFirst
  <2>10. Head(<<b>> \o u).op = "close" /\ Head(<<a>> \o v).op = "write"
    BY <2>2, AfterFirst
  <2>11. Head(MainRest(c, 2)).op = "close"
    BY <2>1, <2>9, <2>10, Rests, Zenon
  <2>12. MainRest(c, 1) = <<a>> \o v
    BY <2>1, <2>9, Rests, Zenon DEF write
  <2>13. Head(MainRest(c, 1)).op = "write"
    BY <2>10, <2>12, Zenon
  <2>14. m = 1 \/ m = 2 \/ m = 3 \/ m = 4 \/ m = 5
    OBVIOUS
  <2>. QED BY <2>4, <2>5, <2>8, <2>11, <2>13, <2>14
<1>4. n >= 4 /\ n >= 3 /\ buffer = <<>>
  BY <1>1, <1>3
<1>5. part = Data
  <2>1. part \o <<>> = Data
    BY <1>2, <1>4, Zenon
  <2>. QED BY <2>1, Joined
<1>6. Intros(c, n, m) = Intros(c, 5, 5)
  BY <1>3, <1>4, SameIntros
<1>. QED BY <1>2, <1>3, <1>5, <1>6, Zenon DEF PipeTexts

(* While both share the pipe, each goes on; then main() passes.            *)
LEMMA SharingSteps ==
  ASSUME TypesOK, Family, program = "pipe", Sharing, NEW p \in Pid, Step(p)
  PROVE  PipeInv' /\ Family'
<1>1. PICK c \in Pid :
        /\ OneChild(c) /\ cpid = c
        /\ \/ status[c] = "live" /\ Awaits(c, exit(0))
           \/ status[c] = "zombie" /\ todo[c] = <<>>
        /\ Awaits(Main, CopyAndPass) \/ Awaits(Main, WaitAndPass)
        /\ whole => InOrder(c)
  BY DEF Sharing
<1>2. /\ ~failed /\ marked = 0 /\ Main \in Pid /\ todo \in [Pid -> Seq(CallSet)]
      /\ program \in Programs /\ c # Main /\ p \in {Main, c} /\ console \in Seq(Tokens)
  BY <1>1, PidAssumption, ChildSteps DEF Sharing, TypesOK, OneChild
<1>3. PICK m, t \in Seq(CallSet), f, g, h \in CallSet :
           /\ m = Marker("PASS") /\ m # <<>>
           /\ f = Call("copy", 0) /\ g = Call("write", <<NL>>) /\ h = Call("wait", Pid)
           /\ t = <<g>> /\ write(<<NL>>) = t
           /\ WaitAndPass \in Seq(CallSet) /\ WaitAndPass # <<>>
           /\ Head(WaitAndPass) = h /\ Tail(WaitAndPass) = m
           /\ CopyAndPass \in Seq(CallSet) /\ CopyAndPass # <<>>
           /\ Head(CopyAndPass) = f /\ Tail(CopyAndPass) = t \o WaitAndPass
  BY <1>2, PassCalls, Zenon
<1>4. todo[Main] # <<>>
  BY <1>1, <1>3, AwaitsSomething
<1>5. ASSUME program' = program, whole' = whole, OneChild(c)', cpid' = cpid, failed' = failed,
             marked' = marked, Family',
             \/ status'[c] = "live" /\ Awaits(c, exit(0))'
             \/ status'[c] = "zombie" /\ todo'[c] = <<>>,
             Awaits(Main, CopyAndPass)' \/ Awaits(Main, WaitAndPass)',
             ~Wait(Main)
      PROVE  PipeInv' /\ Family'
  <2>1. InOrder(c) => InOrder(c)'
    <3>1. CASE p = c
      BY <1>2, <3>1, InOrderChild
    <3>2. CASE p = Main
      BY <1>2, <1>5, <3>2, InOrderMain
    <3>. QED BY <1>2, <3>1, <3>2
  <2>2. Sharing'
    BY <1>1, <1>2, <1>5, <2>1, Zenon DEF Sharing
  <2>. QED BY <1>5, <2>2 DEF PipeInv
<1>6. exit(0) \in Seq(CallSet) /\ exit(0) # <<>> /\ Head(exit(0)).op = "exit"
  BY ExitType, ExitHead
<1>7. PICK w, d, x \in Seq(CallSet) : w = WaitAndPass /\ d = CopyAndPass /\ x = exit(0)
  BY <1>3, <1>6
<1>8. program' = program => WaitAndPass' = w /\ CopyAndPass' = d
  BY <1>7, SamePass, Zenon
<1>9. CASE p = c
  <2>1. status[c] = "live" /\ Awaits(c, x)
    BY <1>1, <1>2, <1>7, <1>9, Steps
  <2>2. todo'[Main] = todo[Main] => Awaits(Main, d)' \/ Awaits(Main, w)'
    BY <1>1, <1>7, SameAwaits
  <2>3. CASE /\ UNCHANGED <<procVars, program, whole, cpid, failed, marked>>
             /\ \A o \in Pid \ {c} : todo'[o] = todo[o]
             /\ Awaits(c, x)' /\ Head(todo[c]).op \in {"write", "put", "close"}
    <3>1. todo'[Main] = todo[Main]
      BY <1>2, <2>3
    <3>2. OneChild(c)' /\ Family'
      BY <1>1, <1>2, <1>4, <2>3, <3>1, ChildGoesOn
    <3>3. status'[c] = "live"
      BY <2>1, <2>3 DEF procVars
    <3>4. ~Wait(Main)
      BY <1>2, <2>3, <3>1, WaitChanges
    <3>5. Awaits(Main, CopyAndPass)' \/ Awaits(Main, WaitAndPass)'
      BY <1>8, <2>2, <2>3, <3>1, Zenon
    <3>6. Awaits(c, exit(0))'
      BY <1>7, <2>3, Zenon
    <3>. QED BY <1>5, <2>3, <3>2, <3>3, <3>4, <3>5, <3>6
  <2>4. CASE todo[c] = x
    <3>1. ExitProcess(c)
      <4>1. Head(todo[c]).op = "exit"
        BY <1>6, <1>7, <2>4, Zenon
      <4>. QED BY <1>9, <4>1, Steps
    <3>2. /\ OneChild(c)' /\ Family' /\ status'[c] = "zombie" /\ todo'[c] = <<>>
          /\ todo'[Main] = todo[Main] /\ Still /\ UNCHANGED marked
      BY <1>1, <1>2, <1>4, <3>1, ChildExits
    <3>3. ~Wait(Main)
      BY <1>2, <3>2, WaitChanges
    <3>4. Awaits(Main, CopyAndPass)' \/ Awaits(Main, WaitAndPass)'
      BY <1>8, <2>2, <3>2, Zenon DEF Still
    <3>. QED BY <1>5, <3>2, <3>3, <3>4 DEF Still
  <2>. QED BY <1>9, <2>1, <2>3, <2>4, AwaitsStep
<1>10. CASE p = Main
  <2>1. ASSUME NEW after \in Seq(CallSet), after \in {d, w}, Awaits(Main, after), after # <<>>,
               UNCHANGED <<procVars, program, whole, cpid, failed, marked>>,
               \A o \in Pid \ {Main} : todo'[o] = todo[o],
               Awaits(Main, after)', Head(todo[Main]).op \in {"write", "put", "close"}
        PROVE  PipeInv' /\ Family'
    <3>1. todo'[Main] # <<>> /\ todo'[c] = todo[c]
      BY <1>2, <2>1, AwaitsSomething
    <3>2. OneChild(c)' /\ Family'
      BY <1>1, <1>2, <1>4, <2>1, <3>1, ChildGoesOn
    <3>3. ~Wait(Main)
      BY <2>1 DEF Wait, Calls
    <3>4. Awaits(Main, CopyAndPass)' \/ Awaits(Main, WaitAndPass)'
      BY <1>8, <2>1, Zenon
    <3>5. \/ status'[c] = "live" /\ Awaits(c, exit(0))'
          \/ status'[c] = "zombie" /\ todo'[c] = <<>>
      <4>1. status' = status
        BY <2>1 DEF procVars
      <4>2. Awaits(c, exit(0)) => Awaits(c, exit(0))'
        BY <1>6, <3>1, SameAwaits
      <4>. QED BY <1>1, <3>1, <4>1, <4>2, Zenon
    <3>. QED BY <1>5, <2>1, <3>2, <3>3, <3>4, <3>5
  <2>2. CASE Awaits(Main, d) /\ todo[Main] # d
    <3>1. d # <<>>
      BY <1>3, <1>7
    <3>. QED BY <1>10, <2>1, <2>2, <3>1, AwaitsStep
  <2>3. CASE Awaits(Main, w) /\ todo[Main] # w
    <3>1. w # <<>>
      BY <1>3, <1>7
    <3>. QED BY <1>10, <2>1, <2>3, <3>1, AwaitsStep
  <2>4. CASE todo[Main] = d
    <3>1. Copy(Main) /\ ~Wait(Main)
      <4>1. Head(todo[Main]).op = "copy"
        <5>1. Head(todo[Main]) = f
          BY <1>3, <1>7, <2>4, Zenon
        <5>2. f.op = "copy"
          BY <1>3, CallFields
        <5>. QED BY <5>1, <5>2, Zenon
      <4>. QED BY <1>10, <4>1, Steps DEF Wait, Calls
    <3>2. /\ UNCHANGED <<procVars, program, whole, writers, cpid, failed, marked>>
          /\ UNCHANGED todo \/ Then(Main, <<>>)
      BY <3>1 DEF Copy
    <3>3. PICK u \in Seq(CallSet) : u = t \o w
      BY JoinedCalls
    <3>4. u \o <<>> = u
      BY Joined
    <3>5. Then(Main, <<>>) => todo' = [todo EXCEPT ![Main] = u]
      BY <1>3, <1>7, <2>4, <3>3, <3>4, Zenon DEF Then
    <3>6. Quiet(t)
      <4>1. g.op = "write"
        BY <1>3, CallFields, Zenon
      <4>. QED BY <1>3, <4>1, QuietOne, Zenon
    <3>7. /\ Awaits(Main, d)' \/ Awaits(Main, w)'
          /\ \A o \in Pid \ {Main} : todo'[o] = todo[o]
      <4>1. CASE UNCHANGED todo
        <5>1. Awaits(Main, d)
          <6>1. Quiet(<<>>) /\ <<>> \in Seq(CallSet) /\ <<>> \o d = d
            BY Joined DEF Quiet
          <6>. QED BY <2>4, <6>1, Zenon DEF Awaits
        <5>2. todo'[Main] = todo[Main] /\ \A o \in Pid \ {Main} : todo'[o] = todo[o]
          BY <4>1
        <5>. QED BY <5>1, <5>2, SameAwaits
      <4>2. CASE Then(Main, <<>>)
        <5>1. todo'[Main] = u /\ \A o \in Pid \ {Main} : todo'[o] = todo[o]
          BY <1>2, <3>5, <4>2
        <5>. QED BY <3>3, <3>6, <5>1, Zenon DEF Awaits
      <4>. QED BY <3>2, <4>1, <4>2
    <3>8. todo'[Main] # <<>> /\ todo'[c] = todo[c]
      BY <1>2, <1>3, <1>7, <3>7, AwaitsSomething
    <3>9. OneChild(c)' /\ Family'
      BY <1>1, <1>2, <1>4, <3>2, <3>7, <3>8, ChildGoesOn
    <3>10. Awaits(Main, CopyAndPass)' \/ Awaits(Main, WaitAndPass)'
      BY <1>8, <3>2, <3>7, Zenon
    <3>11. \/ status'[c] = "live" /\ Awaits(c, exit(0))'
           \/ status'[c] = "zombie" /\ todo'[c] = <<>>
      <4>1. status' = status
        BY <3>2 DEF procVars
      <4>2. Awaits(c, exit(0)) => Awaits(c, exit(0))'
        BY <1>6, <3>8, SameAwaits
      <4>. QED BY <1>1, <3>8, <4>1, <4>2, Zenon
    <3>. QED BY <1>5, <3>1, <3>2, <3>9, <3>10, <3>11
  <2>5. CASE todo[Main] = w
    <3>1. Head(todo[Main]) = h /\ Tail(todo[Main]) = m /\ h.op = "wait" /\ h.arg = Pid
      BY <1>3, <1>7, <2>5, CallFields, Zenon
    <3>2. /\ status[c] \notin {"live", "free"}
          /\ todo'[Main] = m \o AfterWait(c) /\ Alone'
          /\ m \o AfterWait(c) # <<>> => Family'
          /\ Still /\ UNCHANGED <<console, marked>>
      <4>1. status[c] # "free" /\ (status[c] = "zombie" => todo[c] = <<>>) /\ c \in h.arg
        BY <1>1, <3>1
      <4>. QED BY <1>1, <1>4, <1>10, <3>1, <4>1, ChildReaped
    <3>3. AfterWait(c) = <<>>
      BY Zenon DEF AfterWait
    <3>4. m \o <<>> = m
      BY Joined
    <3>5. todo'[Main] = m /\ Family'
      BY <1>3, <3>2, <3>3, <3>4, Zenon
    <3>6. PICK text \in Seq(Tokens) : text = console /\ text \o <<>> = text
      BY <1>2, Joined
    <3>7. Prints(Main, text, m)'
      <4>1. <<>> \in Seq(CallSet) /\ <<>> \in Seq(Tokens) /\ Quiet(<<>>) /\ <<>> \o m = m
        BY Joined DEF Quiet
      <4>2. console' = text
        BY <3>2, <3>6
      <4>. QED BY <3>5, <3>6, <4>1, <4>2, GivesNone, Zenon DEF Prints
    <3>8. m = Marker("PASS")'
      BY <1>3, <3>2, SameTexts, Zenon DEF Still
    <3>9. Reports(text, "PASS")'
      <4>1. marked' = 0
        BY <1>2, <3>2
      <4>. QED BY <3>7, <3>8, <4>1, Zenon DEF Reports
    <3>10. whole => text \in PipeTexts(c)
      <4>1. status[c] = "zombie" /\ todo[c] = <<>>
        BY <1>1, <3>2
      <4>2. todo[Main] = WaitAndPass
        BY <1>7, <2>5
      <4>. QED BY <1>1, <1>2, <3>6, <4>1, <4>2, AllInOrder
    <3>11. Passing'
      <4>1. program' = program /\ whole' = whole /\ cpid' = c /\ ~failed'
        BY <1>1, <1>2, <3>2 DEF Still
      <4>. QED BY <3>2, <3>9, <3>10, <4>1, Zenon DEF Passing
    <3>. QED BY <3>5, <3>11 DEF PipeInv
  <2>. QED BY <1>1, <1>7, <2>2, <2>3, <2>4, <2>5, Zenon
<1>. QED BY <1>2, <1>9, <1>10

(* The stages of pipe.c follow each other.                                 *)
LEMMA PipeSteps ==
  ASSUME TypesOK, Family, program = "pipe", PipeInv, NEW p \in Pid, Step(p)
  PROVE  PipeInv' /\ Family' /\ TypesOK'
<1>1. PipeInv' /\ Family'
  BY OpeningSteps, PipeFailingSteps, SharingSteps, PassingSteps DEF PipeInv
<1>. QED BY <1>1, TypesKept

-----------------------------------------------------------------------------
(* yield: what main() and its children still call.                         *)

(* What is left of a sequence from a on, and after its next element.       *)
LEMMA SubSeqStep ==
  ASSUME NEW T, NEW s \in Seq(T), NEW n \in 0 .. Len(s), NEW a \in 1 .. n
  PROVE  /\ SubSeq(s, a, n) \in Seq(T) /\ SubSeq(s, a, n) # <<>>
         /\ Head(SubSeq(s, a, n)) = s[a] /\ Tail(SubSeq(s, a, n)) = SubSeq(s, a + 1, n)
<1>1. PICK l \in Nat : l = Len(s) /\ n \in 0 .. l /\ \A x \in 1 .. l : s[x] \in T
  OBVIOUS
<1>2. PICK t : t = SubSeq(s, a, n)
  OBVIOUS
<1>3. /\ t \in Seq(T) /\ Len(t) = n - a + 1 /\ \A x \in 1 .. n - a + 1 : t[x] = s[a + x - 1]
  BY <1>1, <1>2
<1>4. t # <<>> /\ Head(t) = s[a]
  BY <1>1, <1>3
<1>5. /\ Tail(t) \in Seq(T) /\ Len(Tail(t)) = n - a
      /\ \A x \in 1 .. n - a : Tail(t)[x] = t[x + 1]
  BY <1>1, <1>3
<1>6. PICK u : u = SubSeq(s, a + 1, n)
  OBVIOUS
<1>7. /\ u \in Seq(T) /\ Len(u) = n - a /\ \A x \in 1 .. n - a : u[x] = s[a + 1 + x - 1]
  BY <1>1, <1>6
<1>8. ASSUME NEW x \in 1 .. n - a PROVE Tail(t)[x] = u[x]
  <2>1. x + 1 \in 1 .. n - a + 1 /\ a + (x + 1) - 1 = a + 1 + x - 1
    BY <1>1
  <2>2. t[x + 1] = s[a + (x + 1) - 1]
    BY <1>3, <2>1
  <2>. QED BY <1>5, <1>7, <2>1, <2>2
<1>9. Tail(t) = u
  <2>1. n - a \in Nat
    BY <1>1
  <2>. QED BY <1>5, <1>7, <1>8, <2>1, SeqEqual
<1>. QED BY <1>2, <1>3, <1>4, <1>6, <1>9

(* The calls of two programs one after the other.                          *)
LEMMA JoinedParts ==
  \A s, t \in Seq(CallSet) :
    /\ Len(s \o t) = Len(s) + Len(t)
    /\ \A i \in 1 .. Len(s) : (s \o t)[i] = s[i]
    /\ \A i \in 1 .. Len(t) : (s \o t)[Len(s) + i] = t[i]
BY Joined

(* The calls of main(): as many fork()s and wait()s as children, and a     *)
(* marker.                                                                 *)
LEMMA YieldMain ==
  ASSUME program = "yield", program \in Programs
  PROVE  /\ main \in Seq(CallSet) /\ Len(main) = 2 * CHILDREN + 4
         /\ \A j \in 1 .. CHILDREN : main[j] = Call("fork", j - 1)
         /\ \A j \in 1 .. CHILDREN : main[CHILDREN + j] = Call("wait", Pid)
         /\ \A j \in 1 .. 4 : main[2 * CHILDREN + j] = Marker("END")[j]
         /\ Marker("END") \in Seq(CallSet) /\ Len(Marker("END")) = 4
<1>1. PICK C \in Nat : C = CHILDREN
  BY ConsoleAssumption
<1>2. PICK f : f = [i \in 1 .. C |-> Call("fork", i - 1)]
  OBVIOUS
<1>3. f \in Seq(CallSet) /\ Len(f) = C /\ \A j \in 1 .. C : f[j] = Call("fork", j - 1)
  <2>1. \A j \in 1 .. C : Call("fork", j - 1) \in CallSet
    BY CallTypes
  <2>. QED BY <1>2, <2>1
<1>4. PICK w : w = wait(C)
  OBVIOUS
<1>5. w \in Seq(CallSet) /\ Len(w) = C /\ \A j \in 1 .. C : w[j] = Call("wait", Pid)
  <2>1. w = [j \in 1 .. C |-> Call("wait", Pid)]
    BY <1>4 DEF wait
  <2>2. w \in Seq(CallSet)
    BY <1>4, WaitType
  <2>. QED BY <2>1, <2>2
<1>6. PICK m \in Seq(CallSet) : m = Marker("END") /\ Len(m) = 4
  <2>1. "END" \in Texts
    BY Zenon DEF Texts
  <2>2. /\ Marker("END") = <<Call("mark", <<"END">>), Call("write", <<program>>),
                             Call("write", <<"=", NL>>), Call("exit", 0)>>
        /\ Marker("END") \in Seq(CallSet)
    BY <2>1, MarkerCalls, Zenon
  <2>3. \A a, b, c, d : Len(<<a, b, c, d>>) = 4
    OBVIOUS
  <2>. QED BY <2>2, <2>3, Zenon
<1>7. main = f \o w \o m
  BY <1>1, <1>2, <1>4, <1>6, Zenon DEF main
<1>8. f \in Seq(CallSet) /\ w \in Seq(CallSet) /\ Len(f) = C /\ Len(w) = C /\ Len(m) = 4
      /\ 4 \in Nat /\ C + C \in Nat
  BY <1>3, <1>5, <1>6
<1>9. PICK g \in Seq(CallSet) :
        /\ g = f \o w /\ Len(g) = C + C
        /\ \A j \in 1 .. C : g[j] = f[j]
        /\ \A j \in 1 .. C : g[C + j] = w[j]
  <2>1. f \o w \in Seq(CallSet)
    BY <1>8, JoinedCalls, Zenon
  <2>2. /\ Len(f \o w) = Len(f) + Len(w)
        /\ \A j \in 1 .. Len(f) : (f \o w)[j] = f[j]
        /\ \A j \in 1 .. Len(w) : (f \o w)[Len(f) + j] = w[j]
    BY <1>8, JoinedParts, Zenon
  <2>3. /\ Len(f \o w) = C + C
        /\ \A j \in 1 .. C : (f \o w)[j] = f[j]
        /\ \A j \in 1 .. C : (f \o w)[C + j] = w[j]
    BY <1>8, <2>2, Zenon
  <2>. QED BY <2>1, <2>3, Zenon
<1>10. PICK d \in Nat : d = 2 * CHILDREN /\ Len(g) = d /\ d = C + C
  <2>1. 2 * CHILDREN = C + C
    BY <1>1
  <2>2. Len(g) = C + C
    BY <1>9
  <2>. QED BY <2>1, <2>2
<1>11. PICK h \in Seq(CallSet) :
        /\ h = g \o m /\ Len(h) = d + 4
        /\ \A j \in 1 .. d : h[j] = g[j]
        /\ \A j \in 1 .. 4 : h[d + j] = m[j]
  <2>1. g \o m \in Seq(CallSet)
    BY JoinedCalls, Zenon
  <2>2. /\ Len(g \o m) = Len(g) + Len(m)
        /\ \A j \in 1 .. Len(g) : (g \o m)[j] = g[j]
        /\ \A j \in 1 .. Len(m) : (g \o m)[Len(g) + j] = m[j]
    BY JoinedParts, Zenon
  <2>3. /\ Len(g \o m) = d + 4
        /\ \A j \in 1 .. d : (g \o m)[j] = g[j]
        /\ \A j \in 1 .. 4 : (g \o m)[d + j] = m[j]
    BY <1>8, <1>10, <2>2, Zenon
  <2>. QED BY <2>1, <2>3, Zenon
<1>12. \A j \in 1 .. C : j \in 1 .. d /\ C + j \in 1 .. d
  BY <1>10
<1>13. /\ \A j \in 1 .. C : h[j] = Call("fork", j - 1)
       /\ \A j \in 1 .. C : h[C + j] = Call("wait", Pid)
  BY <1>3, <1>5, <1>9, <1>11, <1>12, Zenon
<1>14. main = h
  BY <1>7, <1>9, <1>11, Zenon
<1>15. Len(h) = 2 * CHILDREN + 4
  BY <1>10, <1>11
<1>16. \A j \in 1 .. 4 : h[2 * CHILDREN + j] = m[j]
  <2>1. \A j \in 1 .. 4 : h[d + j] = m[j]
    BY <1>11
  <2>2. d = 2 * CHILDREN
    BY <1>10
  <2>. QED BY <2>1, <2>2, Zenon
<1>. QED BY <1>1, <1>6, <1>13, <1>14, <1>15, <1>16, Zenon

(* The calls of main() of yield.c, one by one.                             *)
LEMMA MainLefts ==
  ASSUME program = "yield", program \in Programs
  PROVE  /\ MainLeft(0) = main /\ MainLeft(2 * CHILDREN) = Marker("END")
         /\ \A k \in 0 .. 2 * CHILDREN - 1 :
              /\ MainLeft(k) \in Seq(CallSet) /\ MainLeft(k) # <<>>
              /\ Tail(MainLeft(k)) = MainLeft(k + 1)
              /\ Head(MainLeft(k)) = IF k < CHILDREN THEN Call("fork", k) ELSE Call("wait", Pid)
<1>1. PICK C \in Nat : C = CHILDREN
  BY ConsoleAssumption
<1>2. PICK t \in Seq(CallSet), m \in Seq(CallSet) :
        /\ t = main /\ Len(t) = 2 * C + 4
        /\ \A j \in 1 .. C : t[j] = Call("fork", j - 1)
        /\ \A j \in 1 .. C : t[C + j] = Call("wait", Pid)
        /\ m = Marker("END") /\ Len(m) = 4 /\ \A j \in 1 .. 4 : t[2 * C + j] = m[j]
  BY <1>1, YieldMain, Zenon
<1>3. \A k : MainLeft(k) = SubSeq(t, k + 1, 2 * C + 4)
  BY <1>1, <1>2, Zenon DEF MainLeft
<1>4. SubSeq(t, 0 + 1, 2 * C + 4) = t
  <2>1. PICK u : u = SubSeq(t, 0 + 1, 2 * C + 4)
    OBVIOUS
  <2>2. u \in Seq(CallSet) /\ Len(u) = 2 * C + 4 /\ \A x \in 1 .. 2 * C + 4 : u[x] = t[x]
    BY <1>2, <2>1
  <2>. QED BY <1>2, <2>1, <2>2, SeqEqual
<1>5. SubSeq(t, 2 * C + 1, 2 * C + 4) = m
  <2>1. PICK u : u = SubSeq(t, 2 * C + 1, 2 * C + 4)
    OBVIOUS
  <2>2. u \in Seq(CallSet) /\ Len(u) = 4 /\ \A x \in 1 .. 4 : u[x] = t[2 * C + x]
    BY <1>2, <2>1
  <2>3. \A x \in 1 .. 4 : u[x] = m[x]
    BY <1>2, <2>2
  <2>. QED BY <1>2, <2>1, <2>2, <2>3, SeqEqual
<1>6. ASSUME NEW k \in 0 .. 2 * C - 1
      PROVE  /\ MainLeft(k) \in Seq(CallSet) /\ MainLeft(k) # <<>>
             /\ Tail(MainLeft(k)) = MainLeft(k + 1)
             /\ Head(MainLeft(k)) = IF k < C THEN Call("fork", k) ELSE Call("wait", Pid)
  <2>1. /\ k + 1 \in 1 .. 2 * C + 4 /\ 2 * C + 4 \in 0 .. Len(t)
    BY <1>2
  <2>2. /\ MainLeft(k) \in Seq(CallSet) /\ MainLeft(k) # <<>>
        /\ Tail(MainLeft(k)) = MainLeft(k + 1) /\ Head(MainLeft(k)) = t[k + 1]
    BY <1>3, <2>1, SubSeqStep
  <2>3. CASE k < C
    <3>1. k + 1 \in 1 .. C /\ (k + 1) - 1 = k
      BY <2>3
    <3>2. t[k + 1] = Call("fork", k)
      BY <1>2, <3>1
    <3>. QED BY <2>2, <2>3, <3>2
  <2>4. CASE ~(k < C)
    <3>1. k + 1 - C \in 1 .. C /\ C + (k + 1 - C) = k + 1
      BY <2>4
    <3>2. t[k + 1] = Call("wait", Pid)
      BY <1>2, <3>1
    <3>. QED BY <2>2, <2>4, <3>2
  <2>. QED BY <2>3, <2>4, <2>2
<1>. QED BY <1>1, <1>2, <1>3, <1>4, <1>5, <1>6

YieldLine(i, c) == printf(<<Num(c)>>, <<Num(i)>>, <<".", NL>>)

(* The three writes of a line, or the one.                                 *)
LEMMA YieldLines ==
  ASSUME NEW i \in Int, NEW c \in Int
  PROVE  /\ YieldLine(i, c) \in Seq(CallSet) /\ Len(YieldLine(i, c)) = Pieces
         /\ whole => YieldLine(i, c)[1] = Call("write", <<Num(c), Num(i), ".", NL>>)
         /\ ~whole => /\ YieldLine(i, c)[1] = Call("write", <<Num(c)>>)
                      /\ YieldLine(i, c)[2] = Call("write", <<Num(i)>>)
                      /\ YieldLine(i, c)[3] = Call("write", <<".", NL>>)
<1>1. PICK a, b, d \in Tokens : a = Num(c) /\ b = Num(i) /\ d = "."
  BY TokenTypes, Zenon DEF Texts
<1>2. /\ <<a>> \in Seq(Tokens) /\ <<b>> \in Seq(Tokens) /\ <<d, NL>> \in Seq(Tokens)
      /\ <<a, b, d, NL>> \in Seq(Tokens)
  BY <1>1, TokenTypes, TupleTypes, Zenon
<1>3. YieldLine(i, c) = printf(<<a>>, <<b>>, <<d, NL>>)
  BY <1>1, Zenon DEF YieldLine
<1>4. CASE whole
  <2>1. <<a>> \o <<b>> \o <<d, NL>> = <<a, b, d, NL>>
    <3>1. <<a>> \o <<b>> = <<a, b>>
      BY Tuples
    <3>2. <<a, b>> \o <<d, NL>> = <<a, b, d, NL>>
      BY Tuples
    <3>. QED BY <3>1, <3>2, Zenon
  <2>2. PICK x \in CallSet : x = Call("write", <<a, b, d, NL>>)
    BY <1>2, CallTypes, Zenon
  <2>3. YieldLine(i, c) = <<x>>
    BY <1>3, <1>4, <2>1, <2>2, Zenon DEF printf, write
  <2>4. <<x>> \in Seq(CallSet) /\ Len(<<x>>) = 1 /\ <<x>>[1] = x
    OBVIOUS
  <2>5. Pieces = 1
    BY <1>4 DEF Pieces
  <2>. QED BY <1>1, <1>4, <2>2, <2>3, <2>4, <2>5, Zenon
<1>5. CASE ~whole
  <2>1. PICK x, y, z \in CallSet :
          x = Call("write", <<a>>) /\ y = Call("write", <<b>>) /\ z = Call("write", <<d, NL>>)
    BY <1>2, CallTypes, Zenon
  <2>2. <<x>> \o <<y>> \o <<z>> = <<x, y, z>>
    BY TuplesOne, Zenon
  <2>3. YieldLine(i, c) = <<x, y, z>>
    BY <1>3, <1>5, <2>1, <2>2, Zenon DEF printf, write
  <2>4. /\ <<x, y, z>> \in Seq(CallSet) /\ Len(<<x, y, z>>) = 3
        /\ <<x, y, z>>[1] = x /\ <<x, y, z>>[2] = y /\ <<x, y, z>>[3] = z
    OBVIOUS
  <2>5. Pieces = 3
    BY <1>5 DEF Pieces
  <2>. QED BY <1>1, <1>5, <2>1, <2>3, <2>4, <2>5, Zenon
<1>. QED BY <1>4, <1>5

(* What a child has left after part of a line.                             *)
LEMMA ChildLeft ==
  ASSUME program = "yield", NEW i \in Int, NEW c \in Int
  PROVE  /\ Left(i, c, 0, 0) = Child(i, c) /\ Left(i, c, ROUNDS, 0) = exit(0)
         /\ \A r \in 0 .. ROUNDS - 1, s \in 0 .. Pieces - 1 :
              /\ Left(i, c, r, s) \in Seq(CallSet) /\ Left(i, c, r, s) # <<>>
              /\ Head(Left(i, c, r, s)) = YieldLine(i, c)[s + 1]
              /\ Tail(Left(i, c, r, s)) = IF s + 1 < Pieces THEN Left(i, c, r, s + 1)
                                          ELSE Left(i, c, r + 1, 0)
<1>1. PICK R \in Nat \ {0} : R = ROUNDS
  BY ConsoleAssumption
<1>2. PICK P \in {1, 3} : P = Pieces
  BY DEF Pieces
<1>3. PICK line \in Seq(CallSet) : line = YieldLine(i, c) /\ Len(line) = P
  BY <1>2, YieldLines
<1>4. PICK n \in Nat : n = P * R /\ P * ROUNDS + 1 = n + 1 /\ n = Len(line) * ROUNDS
  <2>1. P * R \in Nat
    OBVIOUS
  <2>. QED BY <1>1, <1>3, <2>1
<1> DEFINE piece(k) == line[1 + ((k - 1) % P)]
<1>5. PICK b : b = [k \in 1 .. n |-> piece(k)]
  OBVIOUS
<1>6. PICK x \in CallSet : x = Call("exit", 0) /\ exit(0) = <<x>>
  <2>1. 0 \in Int
    OBVIOUS
  <2>. QED BY <2>1, CallTypes, Zenon DEF exit
<1>7. Child(i, c) = b \o <<x>>
  <2>1. b = [k \in 1 .. Len(line) * ROUNDS |-> line[1 + ((k - 1) % Len(line))]]
    BY <1>3, <1>4, <1>5
  <2>. QED BY <1>3, <1>6, <2>1, Zenon DEF Child, YieldLine
<1>8. b \in Seq(CallSet) /\ Len(b) = n /\ \A k \in 1 .. n : b[k] = piece(k)
  <2>1. ASSUME NEW k \in 1 .. n PROVE piece(k) \in CallSet
    <3>1. 1 + ((k - 1) % P) \in 1 .. P
      BY <1>2
    <3>. QED BY <1>3, <3>1
  <2> HIDE DEF piece
  <2>. QED BY <1>5, <2>1
<1>9. PICK t \in Seq(CallSet) :
        /\ t = b \o <<x>> /\ Len(t) = n + 1
        /\ \A k \in 1 .. n : t[k] = b[k]
        /\ \A k \in 1 .. 1 : t[n + k] = <<x>>[k]
  <2>1. <<x>> \in Seq(CallSet) /\ Len(<<x>>) = 1 /\ 1 \in Nat
    OBVIOUS
  <2>2. b \in Seq(CallSet) /\ Len(b) = n
    BY <1>8
  <2> HIDE DEF piece
  <2>3. b \o <<x>> \in Seq(CallSet)
    BY <2>1, <2>2, JoinedCalls, Zenon
  <2>4. /\ Len(b \o <<x>>) = Len(b) + Len(<<x>>)
        /\ \A k \in 1 .. Len(b) : (b \o <<x>>)[k] = b[k]
        /\ \A k \in 1 .. Len(<<x>>) : (b \o <<x>>)[Len(b) + k] = <<x>>[k]
    BY <2>1, <2>2, JoinedParts, Zenon
  <2>5. /\ Len(b \o <<x>>) = n + 1
        /\ \A k \in 1 .. n : (b \o <<x>>)[k] = b[k]
        /\ \A k \in 1 .. 1 : (b \o <<x>>)[n + k] = <<x>>[k]
    BY <2>1, <2>2, <2>4, Zenon
  <2>. QED BY <2>3, <2>5, Zenon
<1>10. /\ Len(t) = n + 1 /\ t[n + 1] = x
       /\ \A k \in 1 .. n : t[k] = piece(k)
  <2>1. <<x>>[1] = x /\ 1 \in 1 .. 1
    OBVIOUS
  <2> HIDE DEF piece
  <2>2. /\ \A k \in 1 .. n : t[k] = b[k] /\ b[k] = piece(k)
        /\ Len(t) = n + 1
    BY <1>8, <1>9, Zenon
  <2>3. t[n + 1] = <<x>>[1]
    <3>1. \A k \in 1 .. 1 : t[n + k] = <<x>>[k]
      BY <1>9
    <3>. QED BY <2>1, <3>1, Zenon
  <2>. QED BY <2>1, <2>2, <2>3, Zenon
<1>11. \A r, s : Left(i, c, r, s) = SubSeq(t, P * r + s + 1, n + 1)
  BY <1>1, <1>2, <1>4, <1>7, <1>9, Zenon DEF Left
<1>12. SubSeq(t, P * 0 + 0 + 1, n + 1) = t
  <2>1. PICK u : u = SubSeq(t, 1, n + 1)
    OBVIOUS
  <2>2. u \in Seq(CallSet) /\ Len(u) = n + 1 /\ \A k \in 1 .. n + 1 : u[k] = t[k]
    BY <1>10, <2>1
  <2>3. P * 0 + 0 + 1 = 1
    BY <1>2
  <2>. QED BY <1>10, <2>1, <2>2, <2>3, SeqEqual
<1>13. SubSeq(t, P * R + 0 + 1, n + 1) = <<x>>
  <2>1. PICK u : u = SubSeq(t, n + 1, n + 1)
    OBVIOUS
  <2>2. u \in Seq(CallSet) /\ Len(u) = 1 /\ \A k \in 1 .. 1 : u[k] = x
    BY <1>10, <2>1
  <2>3. P * R + 0 + 1 = n + 1
    BY <1>4
  <2>4. <<x>> \in Seq(CallSet) /\ Len(<<x>>) = 1 /\ \A k \in 1 .. 1 : <<x>>[k] = x
    OBVIOUS
  <2>5. u = <<x>>
    BY <2>2, <2>4, SeqEqual
  <2>. QED BY <2>1, <2>3, <2>5
<1>14. ASSUME NEW r \in 0 .. R - 1, NEW s \in 0 .. P - 1
       PROVE  /\ Left(i, c, r, s) \in Seq(CallSet) /\ Left(i, c, r, s) # <<>>
              /\ Head(Left(i, c, r, s)) = line[s + 1]
              /\ Tail(Left(i, c, r, s)) = IF s + 1 < P THEN Left(i, c, r, s + 1)
                                          ELSE Left(i, c, r + 1, 0)
  <2>1. PICK a \in Nat : a = P * r + s + 1 /\ a \in 1 .. n /\ (a - 1) % P = s
    <3>1. CASE P = 1
      BY <1>4, <3>1
    <3>2. CASE P = 3
      BY <1>4, <3>2
    <3>. QED BY <1>2, <3>1, <3>2
  <2>2. a + 1 = IF s + 1 < P THEN P * r + (s + 1) + 1 ELSE P * (r + 1) + 0 + 1
    <3>1. CASE P = 1
      BY <2>1, <3>1
    <3>2. CASE P = 3
      BY <2>1, <3>2
    <3>. QED BY <1>2, <3>1, <3>2
  <2>3. t[a] = line[s + 1]
    <3>1. 1 + ((a - 1) % P) = s + 1
      BY <2>1
    <3>. QED BY <1>10, <2>1, <3>1
  <2>4. a \in 1 .. n + 1 /\ n + 1 \in 0 .. Len(t)
    BY <1>10, <2>1
  <2>5. PICK u : u = SubSeq(t, a, n + 1) /\ u \in Seq(CallSet) /\ u # <<>>
                 /\ Head(u) = t[a] /\ Tail(u) = SubSeq(t, a + 1, n + 1)
    BY <1>10, <2>4, SubSeqStep
  <2>6. u = Left(i, c, r, s)
    BY <1>11, <2>1, <2>5, Zenon
  <2>7. Tail(u) = IF s + 1 < P THEN Left(i, c, r, s + 1) ELSE Left(i, c, r + 1, 0)
    BY <1>11, <2>2, <2>5, Zenon
  <2>. QED BY <2>3, <2>5, <2>6, <2>7, Zenon
<1>15. Left(i, c, 0, 0) = Child(i, c) /\ Left(i, c, R, 0) = exit(0)
  BY <1>6, <1>7, <1>9, <1>11, <1>12, <1>13, Zenon
<1> HIDE DEF piece
<1>. QED BY <1>1, <1>2, <1>3, <1>14, <1>15, Zenon

(* What they have left depends on the program only.                        *)
LEMMA SameLeft ==
  ASSUME program = "yield", program' = program, whole' = whole
  PROVE  /\ \A k : MainLeft(k)' = MainLeft(k)
         /\ \A i, c, r, s : Left(i, c, r, s)' = Left(i, c, r, s)
         /\ Pieces' = Pieces
<1>1. Pieces' = Pieces
  BY DEF Pieces
<1>2. main' = main
  BY Zenon DEF main, Marker, write
<1>3. \A i, c : Child(i, c)' = Child(i, c)
  <2> SUFFICES ASSUME NEW i, NEW c PROVE Child(i, c)' = Child(i, c)
    OBVIOUS
  <2>1. YieldLine(i, c)' = YieldLine(i, c)
    BY Zenon DEF YieldLine, printf
  <2>2. Child(i, c) = [k \in 1 .. Len(YieldLine(i, c)) * ROUNDS |->
                         YieldLine(i, c)[1 + ((k - 1) % Len(YieldLine(i, c)))]] \o exit(0)
    BY Zenon DEF Child, YieldLine
  <2>3. Child(i, c)' = [k \in 1 .. Len(YieldLine(i, c)') * ROUNDS |->
                         YieldLine(i, c)'[1 + ((k - 1) % Len(YieldLine(i, c)'))]] \o exit(0)
    <3>1. program' = "yield"
      OBVIOUS
    <3>. QED BY <3>1, Zenon DEF Child, YieldLine
  <2>. QED BY <2>1, <2>2, <2>3, Zenon
<1>4. \A k : MainLeft(k)' = MainLeft(k)
  BY <1>2, Zenon DEF MainLeft
<1>5. \A i, c, r, s : Left(i, c, r, s)' = Left(i, c, r, s)
  BY <1>1, <1>3, Zenon DEF Left
<1>. QED BY <1>1, <1>4, <1>5

-----------------------------------------------------------------------------
(* yield: what the lines of the children add to the console.               *)

(* u is t and the token a: that begins a line if there is none, and is in  *)
(* one more place.                                                         *)
Grows(t, a, u) ==
  /\ Cardinality(LineStarts(t)) \in Nat
  /\ Cardinality(LineStarts(u))
       = Cardinality(LineStarts(t)) + (IF a # NL /\ LastIsNL(t) THEN 1 ELSE 0)
  /\ LastIsNL(u) <=> a = NL
  /\ \A d : /\ Cardinality(Places(t, d)) \in Nat
            /\ Cardinality(Places(u, d)) = Cardinality(Places(t, d)) + (IF a = d THEN 1 ELSE 0)

(* A text and one more token.                                              *)
LEMMA MoreToken == \A t \in Seq(Tokens), a \in Tokens : t \o <<a>> \in Seq(Tokens)
OBVIOUS

(* How a text grows by one token.                                          *)
LEMMA OneToken == \A t \in Seq(Tokens), a \in Tokens : Grows(t, a, t \o <<a>>)
<1> SUFFICES ASSUME NEW t \in Seq(Tokens), NEW a \in Tokens PROVE Grows(t, a, t \o <<a>>)
  OBVIOUS
<1>0. PICK u \in Seq(Tokens) : u = t \o <<a>>
  BY MoreToken
<1>1. PICK l \in Nat : l = Len(t)
  OBVIOUS
<1>2. /\ Len(u) = l + 1 /\ u[l + 1] = a /\ \A k \in 1 .. l : u[k] = t[k]
  BY <1>0, <1>1
<1>3. DOMAIN t = 1 .. l /\ DOMAIN u = 1 .. l + 1
  BY <1>1, <1>2
<1>4. IsFiniteSet(1 .. l) /\ IsFiniteSet(1 .. l + 1)
  BY FS_Interval
<1>5. PICK S, T : S = LineStarts(t) /\ T = LineStarts(u)
  OBVIOUS
<1>6. S \subseteq 1 .. l
  BY <1>3, <1>5 DEF LineStarts
<1>7. IsFiniteSet(S) /\ Cardinality(S) \in Nat
  BY <1>4, <1>6, FS_Subset, FS_CardinalityType
<1>8. LastIsNL(t) <=> l = 0 \/ t[l] = NL
  BY <1>1 DEF LastIsNL
<1>9. LastIsNL(u) <=> a = NL
  BY <1>1, <1>2 DEF LastIsNL
<1>10. ASSUME NEW k \in 1 .. l PROVE k \in T <=> k \in S
  <2>1. k \in 1 .. l + 1 /\ u[k] = t[k] /\ (k = 1 \/ (k - 1 \in 1 .. l /\ u[k - 1] = t[k - 1]))
    BY <1>2
  <2>2. k \in S <=> t[k] # NL /\ (k = 1 \/ t[k - 1] = NL)
    BY <1>3, <1>5 DEF LineStarts
  <2>3. k \in T <=> u[k] # NL /\ (k = 1 \/ u[k - 1] = NL)
    BY <1>3, <1>5, <2>1 DEF LineStarts
  <2>. QED BY <2>1, <2>2, <2>3
<1>11. l + 1 \in T <=> a # NL /\ LastIsNL(t)
  <2>1. l + 1 \in T <=> u[l + 1] # NL /\ (l + 1 = 1 \/ u[l] = NL)
    <3>1. l + 1 \in 1 .. l + 1 /\ (l + 1) - 1 = l
      OBVIOUS
    <3>. QED BY <1>3, <1>5, <3>1 DEF LineStarts
  <2>2. l = 0 \/ (l \in 1 .. l /\ u[l] = t[l])
    BY <1>2
  <2>. QED BY <1>2, <1>8, <2>1, <2>2
<1>12. T \subseteq 1 .. l + 1
  BY <1>3, <1>5 DEF LineStarts
<1>13. \A k \in 1 .. l + 1 : k \in 1 .. l \/ k = l + 1
  OBVIOUS
<1>14. Cardinality(T) = Cardinality(S) + (IF a # NL /\ LastIsNL(t) THEN 1 ELSE 0)
  <2>1. CASE a # NL /\ LastIsNL(t)
    <3>1. T = S \cup {l + 1}
      <4>1. l + 1 \in T /\ \A k \in S : k \in 1 .. l
        BY <1>6, <1>11, <2>1
      <4>. QED BY <1>10, <1>12, <1>13, <4>1
    <3>2. l + 1 \notin S
      BY <1>6
    <3>. QED BY <1>7, <2>1, <3>1, <3>2, FS_AddElement
  <2>2. CASE ~(a # NL /\ LastIsNL(t))
    <3>1. T = S
      <4>1. l + 1 \notin T /\ \A k \in S : k \in 1 .. l
        BY <1>6, <1>11, <2>2
      <4>. QED BY <1>10, <1>12, <1>13, <4>1
    <3>. QED BY <1>7, <2>2, <3>1
  <2>. QED BY <2>1, <2>2
<1>15. ASSUME NEW d
       PROVE  /\ Cardinality(Places(t, d)) \in Nat
              /\ Cardinality(Places(u, d)) = Cardinality(Places(t, d)) + (IF a = d THEN 1 ELSE 0)
  <2>1. PICK P, Q : P = Places(t, d) /\ Q = Places(u, d)
    OBVIOUS
  <2>2. /\ \A k : k \in P <=> k \in 1 .. l /\ t[k] = d
        /\ \A k : k \in Q <=> k \in 1 .. l + 1 /\ u[k] = d
    BY <1>3, <2>1 DEF Places
  <2>3. P \subseteq 1 .. l
    BY <2>2
  <2>4. IsFiniteSet(P) /\ Cardinality(P) \in Nat
    BY <1>4, <2>3, FS_Subset, FS_CardinalityType
  <2>5. \A k \in 1 .. l : k \in Q <=> k \in P
    BY <1>2, <2>2
  <2>6. l + 1 \in Q <=> a = d
    BY <1>2, <2>2
  <2>7. CASE a = d
    <3>1. Q = P \cup {l + 1}
      BY <1>13, <2>2, <2>3, <2>5, <2>6, <2>7
    <3>2. l + 1 \notin P
      BY <2>3
    <3>3. Cardinality(P \cup {l + 1}) = Cardinality(P) + 1
      BY <2>4, <3>2, FS_AddElement
    <3>. QED BY <2>1, <2>4, <2>7, <3>1, <3>3
  <2>8. CASE a # d
    <3>1. Q = P
      BY <1>13, <2>2, <2>3, <2>5, <2>6, <2>8
    <3>. QED BY <2>1, <2>4, <2>8, <3>1
  <2>. QED BY <2>7, <2>8
<1>16. Grows(t, a, u)
  BY <1>5, <1>7, <1>9, <1>14, <1>15 DEF Grows
<1>. QED BY <1>0, <1>16, Zenon

(* Another line is complete.                                               *)
LEMMA OneMoreComplete ==
  ASSUME NEW r \in [Ids -> 0 .. ROUNDS], NEW i \in Ids, r[i] < ROUNDS,
         NEW v, v = [r EXCEPT ![i] = r[i] + 1]
  PROVE  /\ Cardinality(Complete(r)) \in Nat
         /\ Cardinality(Complete(v)) = Cardinality(Complete(r)) + 1
<1>1. PICK R \in Nat : R = ROUNDS
  BY ConsoleAssumption
<1>2. PICK n \in Nat : n = r[i] /\ n < R
  BY <1>1
<1>3. PICK S, T : S = Complete(r) /\ T = Complete(v)
  OBVIOUS
<1>4. /\ \A x : x \in S <=> x \in Ids \X (1 .. R) /\ x[2] <= r[x[1]]
      /\ \A x : x \in T <=> x \in Ids \X (1 .. R) /\ x[2] <= v[x[1]]
  BY <1>1, <1>3 DEF Complete
<1>5. IsFiniteSet(S) /\ Cardinality(S) \in Nat
  <2>1. IsFiniteSet(Ids) /\ IsFiniteSet(1 .. R)
    BY <1>1, ConsoleAssumption, FS_Interval DEF Ids
  <2>2. IsFiniteSet(Ids \X (1 .. R))
    BY <2>1, FS_Product
  <2>3. S \subseteq Ids \X (1 .. R)
    BY <1>4
  <2>. QED BY <2>2, <2>3, FS_Subset, FS_CardinalityType
<1>6. \A j \in Ids : v[j] = IF j = i THEN n + 1 ELSE r[j]
  BY <1>2
<1>7. <<i, n + 1>> \in T /\ <<i, n + 1>> \notin S
  BY <1>1, <1>2, <1>4, <1>6
<1>8. ASSUME NEW j \in Ids, NEW k \in 1 .. R
      PROVE  <<j, k>> \in T <=> <<j, k>> \in S \/ <<j, k>> = <<i, n + 1>>
  <2>1. <<j, k>> \in T <=> k <= v[j]
    BY <1>4
  <2>2. <<j, k>> \in S <=> k <= r[j]
    BY <1>4
  <2>3. <<j, k>> = <<i, n + 1>> <=> j = i /\ k = n + 1
    OBVIOUS
  <2>4. CASE j = i
    BY <1>2, <1>6, <2>1, <2>2, <2>3, <2>4
  <2>5. CASE j # i
    BY <1>6, <2>1, <2>2, <2>3, <2>5
  <2>. QED BY <2>4, <2>5
<1>9. T = S \cup {<<i, n + 1>>}
  <2>1. ASSUME NEW x PROVE x \in T <=> x \in S \cup {<<i, n + 1>>}
    <3>1. CASE x \in Ids \X (1 .. R)
      <4>1. PICK j \in Ids, k \in 1 .. R : x = <<j, k>>
        BY <3>1
      <4>. QED BY <1>8, <4>1
    <3>2. CASE x \notin Ids \X (1 .. R)
      <4>1. x \notin T /\ x \notin S /\ <<i, n + 1>> \in Ids \X (1 .. R)
        BY <1>4, <1>7, <3>2
      <4>. QED BY <3>2, <4>1
    <3>. QED BY <3>1, <3>2
  <2>. QED BY <2>1
<1>10. Cardinality(T) = Cardinality(S) + 1
  BY <1>5, <1>7, <1>9, FS_AddElement
<1>. QED BY <1>3, <1>5, <1>10

-----------------------------------------------------------------------------
(* yield: the steps of main().                                             *)

(* A child about which nothing changes.                                    *)
LEMMA KidStays ==
  ASSUME program = "yield", program' = program, whole' = whole, failed => failed',
         NEW i \in Ids, NEW k \in Nat, NEW m \in {k, k + 1}, i = k => m = k,
         NEW c, NEW r, NEW s, KidOK(i, k, c, r, s),
         c # NoPid => /\ status'[c] = status[c] /\ parent'[c] = parent[c]
                      /\ todo'[c] = todo[c]
  PROVE  KidOK(i, m, c, r, s)'
<1>1. Pieces' = Pieces /\ Left(i, c, r, s)' = Left(i, c, r, s)
  BY SameLeft
<1>2. (i >= m => i >= k) /\ (i < m => i < k)
  BY DEF Ids
<1>. QED BY <1>1, <1>2 DEF KidOK

(* There are no more children than CHILDREN.                               *)
LEMMA ThereFinite ==
  ASSUME NEW kid
  PROVE  /\ IsFiniteSet(There(kid)) /\ Cardinality(There(kid)) \in Nat
         /\ Cardinality(There(kid)) <= CHILDREN
<1>1. There(kid) \subseteq Ids
  BY DEF There
<1>2. IsFiniteSet(Ids) /\ Cardinality(Ids) = CHILDREN
  <2>1. CHILDREN \in Nat /\ 0 \in Int /\ CHILDREN - 1 \in Int
    BY ConsoleAssumption
  <2>2. IsFiniteSet(0 .. CHILDREN - 1)
        /\ Cardinality(0 .. CHILDREN - 1)
             = IF 0 > CHILDREN - 1 THEN 0 ELSE (CHILDREN - 1) - 0 + 1
    BY <2>1, FS_Interval
  <2>. QED BY <2>1, <2>2 DEF Ids
<1>. QED BY <1>1, <1>2, FS_Subset, FS_CardinalityType

KidIsThere(i, k, c, r, s) ==
  /\ c \in Pid \ {Main} /\ parent[c] = Main /\ i < k
  /\ status[c] \in {"live", "zombie"}
  /\ status[c] = "zombie" => todo[c] = <<>> /\ r = ROUNDS /\ s = 0
  /\ status[c] = "live" => todo[c] = Left(i, c, r, s)
  /\ s < Pieces /\ (r = ROUNDS => s = 0)

(* A child that is there is a process of its own.                          *)
LEMMA KidThere ==
  TypesOK =>
    \A k \in Int, kid \in [Ids -> Pid \cup {NoPid}], r \in [Ids -> 0 .. ROUNDS],
       s \in [Ids -> 0 .. 2] :
      KidsOK(k, kid, r, s) =>
        \A i \in Ids : kid[i] # NoPid => KidIsThere(i, k, kid[i], r[i], s[i])
<1> SUFFICES ASSUME TypesOK, NEW k \in Int, NEW kid \in [Ids -> Pid \cup {NoPid}],
                    NEW r \in [Ids -> 0 .. ROUNDS], NEW s \in [Ids -> 0 .. 2],
                    KidsOK(k, kid, r, s), NEW i \in Ids, kid[i] # NoPid
             PROVE  KidIsThere(i, k, kid[i], r[i], s[i])
  BY Zenon
<1>1. KidOK(i, k, kid[i], r[i], s[i])
  BY DEF KidsOK
<1>2. kid[i] \in Pid
  OBVIOUS
<1>3. i < k
  <2>1. ~(i >= k)
    BY <1>1 DEF KidOK
  <2>2. i \in Int /\ k \in Int
    BY DEF Ids
  <2>. QED BY <2>1, <2>2
<1>. QED BY <1>1, <1>2, <1>3 DEF KidOK, KidIsThere

(* main() forks one more child, or fails to.                               *)
LEMMA YieldForks ==
  ASSUME TypesOK, Family, program = "yield", NEW k \in 0 .. CHILDREN - 1,
         NEW kid \in [Ids -> Pid \cup {NoPid}], NEW r \in [Ids -> 0 .. ROUNDS],
         NEW s \in [Ids -> 0 .. 2], marked = 0, YieldingAt(k, kid, r, s), Step(Main)
  PROVE  Yielding' /\ Family'
<1>1. /\ Main \in Pid /\ todo \in [Pid -> Seq(CallSet)] /\ program \in Programs
      /\ status \in [Pid -> {"free", "live", "zombie"}] /\ parent \in [Pid -> Pid \cup {NoPid}]
      /\ NoPid \notin Pid /\ Pid \subseteq Int
  BY PidAssumption DEF TypesOK, ProcTypeOK, NoPid
<1>2. PICK C \in Nat \ {0} : C = CHILDREN /\ k \in 0 .. C - 1 /\ k \in 0 .. 2 * C - 1
  BY ConsoleAssumption
<1>3. /\ todo[Main] = MainLeft(k) /\ KidsOK(k, kid, r, s) /\ Tally(console, r, s)
  BY DEF YieldingAt
<1>4. PICK t \in Seq(CallSet) :
        /\ t = MainLeft(k + 1) /\ t # <<>> /\ Tail(todo[Main]) = t
        /\ Head(todo[Main]) = Call("fork", k)
  <2>1. k + 1 \in 0 .. 2 * C - 1 /\ k < C
    BY <1>2
  <2>. QED BY <1>1, <1>2, <1>3, <2>1, MainLefts
<1>5. (ForkChild(Main) \/ ForkError(Main)) /\ Arg(Main) = k
  <2>1. Head(todo[Main]).op = "fork" /\ Head(todo[Main]).arg = k
    BY <1>4, CallFields
  <2>. QED BY <1>1, <2>1, Steps DEF Arg
<1>6. \A x : AfterFork(x) = <<>>
  BY Zenon DEF AfterFork
<1>7. t \o <<>> = t
  BY Joined
<1>8. status[Main] = "live"
  BY <1>3, <1>4, <1>1, Steps DEF Family
<1>9. /\ \A i, j \in Ids : kid[i] = kid[j] /\ kid[i] # NoPid => i = j
      /\ \A p \in Pid \ {Main} : Unused(p) \/ \E i \in Ids : kid[i] = p
      /\ \A i \in Ids : KidOK(i, k, kid[i], r[i], s[i])
      /\ failed => \E i \in Ids : i < k /\ kid[i] = NoPid /\ r[i] = 0
  BY <1>3 DEF KidsOK
<1>10. \A i \in Ids : kid[i] # NoPid => kid[i] \in Pid \ {Main} /\ status[kid[i]] # "free"
  <2>1. \A i \in Ids : kid[i] # NoPid => KidIsThere(i, k, kid[i], r[i], s[i])
    <3>1. k \in Int
      OBVIOUS
    <3>. QED BY <1>3, <3>1, KidThere, Zenon
  <2>. QED BY <2>1 DEF KidIsThere
<1>11. k \in Ids /\ kid[k] = NoPid /\ r[k] = 0 /\ s[k] = 0
  <2>1. k \in Ids
    BY <1>2 DEF Ids
  <2>2. k >= k
    OBVIOUS
  <2>. QED BY <1>9, <2>1, <2>2 DEF KidOK
<1>12. ASSUME NEW kid2 \in [Ids -> Pid \cup {NoPid}], KidsOK(k + 1, kid2, r, s)',
              todo'[Main] = t, program' = program, whole' = whole, marked' = marked,
              console' = console
       PROVE  Yielding'
  <2>1. k + 1 \in 0 .. 2 * CHILDREN
    BY <1>2
  <2>2. k + 1 >= CHILDREN => Cardinality(There(kid2)) <= 2 * CHILDREN - (k + 1)
    <3>1. Cardinality(There(kid2)) <= CHILDREN /\ Cardinality(There(kid2)) \in Nat
      BY ThereFinite
    <3>. QED BY <1>2, <3>1
  <2>3. todo'[Main] = MainLeft(k + 1)'
    BY <1>4, <1>12, SameLeft
  <2>4. Tally(console, r, s)'
    BY <1>3, <1>12
  <2>5. YieldingAt(k + 1, kid2, r, s)'
    BY <1>12, <2>2, <2>3, <2>4 DEF YieldingAt
  <2>6. marked' = 0
    BY <1>12
  <2>. QED BY <1>12, <2>1, <2>5, <2>6 DEF Yielding
<1>13. CASE ForkChild(Main)
  <2>1. PICK c \in Pid :
          /\ Fork(Main, c)
          /\ todo' = [todo EXCEPT ![Main] = Tail(@) \o AfterFork(c), ![c] = Child(k, c)]
    BY <1>5, <1>13 DEF ForkChild
  <2>2. PICK y \in Seq(CallSet) : y = Child(k, c)
    BY <1>1, ChildType
  <2>3. todo' = [todo EXCEPT ![Main] = t, ![c] = y]
    BY <1>4, <1>6, <1>7, <2>1, <2>2, Zenon
  <2>4. /\ status[c] = "free" /\ status' = [status EXCEPT ![c] = "live"]
        /\ parent' = [parent EXCEPT ![c] = Main]
    BY <2>1 DEF Fork
  <2>5. c # Main /\ \A i \in Ids : kid[i] # c
    BY <1>1, <1>8, <1>10, <2>4
  <2>6. /\ todo'[Main] = t /\ todo'[c] = y /\ \A q \in Pid \ {Main, c} : todo'[q] = todo[q]
        /\ status'[c] = "live" /\ parent'[c] = Main
        /\ \A q \in Pid \ {c} : status'[q] = status[q] /\ parent'[q] = parent[q]
    BY <1>1, <2>3, <2>4, <2>5
  <2>7. UNCHANGED <<program, whole, console, buffer, failed, marked>>
    BY <1>13 DEF ForkChild
  <2>8. Family'
    BY <1>1, <1>4, <1>8, <2>5, <2>6 DEF Family
  <2>9. PICK kid2 : kid2 = [kid EXCEPT ![k] = c]
    OBVIOUS
  <2>10. /\ kid2 \in [Ids -> Pid \cup {NoPid}] /\ kid2[k] = c
         /\ \A i \in Ids \ {k} : kid2[i] = kid[i]
    BY <1>11, <2>9
  <2>11. \A i, j \in Ids : kid2[i] = kid2[j] /\ kid2[i] # NoPid => i = j
    <3>1. ASSUME NEW i \in Ids, NEW j \in Ids, kid2[i] = kid2[j], kid2[i] # NoPid PROVE i = j
      <4>1. CASE i # k /\ j # k
        BY <1>9, <2>10, <3>1, <4>1
      <4>2. CASE i = k \/ j = k
        BY <2>5, <2>10, <3>1, <4>2
      <4>. QED BY <4>1, <4>2
    <3>. QED BY <3>1
  <2>12. \A p \in Pid \ {Main} : Unused(p)' \/ \E i \in Ids : kid2[i] = p
    <3>1. ASSUME NEW p \in Pid \ {Main}, p # c PROVE Unused(p)' \/ \E i \in Ids : kid2[i] = p
      <4>1. CASE Unused(p)
        BY <2>6, <3>1, <4>1 DEF Unused
      <4>2. CASE \E i \in Ids : kid[i] = p
        <5>1. PICK i \in Ids : kid[i] = p
          BY <4>2
        <5>2. i # k
          BY <1>1, <1>11, <5>1
        <5>. QED BY <2>10, <5>1, <5>2
      <4>. QED BY <1>9, <4>1, <4>2
    <3>. QED BY <1>11, <2>10, <3>1
  <2>13. ASSUME NEW i \in Ids PROVE KidOK(i, k + 1, kid2[i], r[i], s[i])'
    <3>1. CASE i = k
      <4>1. Left(k, c, 0, 0)' = y
        <5>1. k \in Int /\ c \in Int
          BY <1>1
        <5>. QED BY <2>2, <2>7, <5>1, ChildLeft, SameLeft
      <4>2. 0 < Pieces' /\ 0 # ROUNDS /\ ~(k >= k + 1)
        BY ConsoleAssumption DEF Pieces
      <4>3. KidOK(k, k + 1, c, 0, 0)'
        BY <1>1, <2>5, <2>6, <4>1, <4>2 DEF KidOK
      <4>. QED BY <1>11, <2>10, <3>1, <4>3
    <3>2. CASE i # k
      <4>1. KidOK(i, k, kid[i], r[i], s[i]) /\ kid2[i] = kid[i]
        BY <1>9, <2>10, <3>2
      <4>2. kid[i] # NoPid => /\ status'[kid[i]] = status[kid[i]]
                              /\ parent'[kid[i]] = parent[kid[i]]
                              /\ todo'[kid[i]] = todo[kid[i]]
        BY <1>10, <2>5, <2>6
      <4>3. KidOK(i, k + 1, kid[i], r[i], s[i])'
        <5>1. k \in Nat /\ k + 1 \in {k, k + 1} /\ (failed => failed')
          BY <2>7
        <5>. QED BY <2>7, <3>2, <4>1, <4>2, <5>1, KidStays
      <4>. QED BY <4>1, <4>3
    <3>. QED BY <3>1, <3>2
  <2>14. failed' => \E i \in Ids : i < k + 1 /\ kid2[i] = NoPid /\ r[i] = 0
    <3>1. ASSUME failed' PROVE \E i \in Ids : i < k + 1 /\ kid2[i] = NoPid /\ r[i] = 0
      <4>1. PICK i \in Ids : i < k /\ kid[i] = NoPid /\ r[i] = 0
        BY <1>9, <2>7, <3>1
      <4>2. i # k /\ i < k + 1
        BY <4>1 DEF Ids
      <4>. QED BY <2>10, <4>1, <4>2
    <3>. QED BY <3>1
  <2>15. KidsOK(k + 1, kid2, r, s)'
    BY <2>11, <2>12, <2>13, <2>14 DEF KidsOK
  <2>. QED BY <1>12, <2>6, <2>7, <2>8, <2>10, <2>15
<1>14. CASE ForkError(Main)
  <2>1. PICK x : Then(Main, AfterFork(x))
    BY <1>14 DEF ForkError
  <2>2. todo' = [todo EXCEPT ![Main] = t]
    BY <1>4, <1>6, <1>7, <2>1, Zenon DEF Then
  <2>3. /\ todo'[Main] = t /\ \A q \in Pid \ {Main} : todo'[q] = todo[q]
    BY <1>1, <2>2
  <2>4. UNCHANGED <<status, parent, program, whole, console, marked>> /\ failed'
    BY <1>14 DEF ForkError, procVars
  <2>5. Family'
    BY <1>1, <1>4, <1>8, <2>3, <2>4 DEF Family
  <2>6. \A p \in Pid \ {Main} : Unused(p)' \/ \E i \in Ids : kid[i] = p
    BY <1>9, <2>3, <2>4 DEF Unused
  <2>7. ASSUME NEW i \in Ids PROVE KidOK(i, k + 1, kid[i], r[i], s[i])'
    <3>1. CASE i = k
      <4>1. s[k] < Pieces' /\ 0 # ROUNDS /\ ~(k >= k + 1)
        BY <1>11, ConsoleAssumption DEF Pieces
      <4>. QED BY <1>11, <2>4, <3>1, <4>1 DEF KidOK
    <3>2. CASE i # k
      <4>1. KidOK(i, k, kid[i], r[i], s[i])
        BY <1>9
      <4>2. kid[i] # NoPid => /\ status'[kid[i]] = status[kid[i]]
                              /\ parent'[kid[i]] = parent[kid[i]]
                              /\ todo'[kid[i]] = todo[kid[i]]
        BY <1>10, <2>3, <2>4
      <4>3. k \in Nat /\ k + 1 \in {k, k + 1} /\ (failed => failed')
        BY <2>4
      <4>. QED BY <2>4, <3>2, <4>1, <4>2, <4>3, KidStays
    <3>. QED BY <3>1, <3>2
  <2>8. failed' => \E i \in Ids : i < k + 1 /\ kid[i] = NoPid /\ r[i] = 0
    <3>1. k < k + 1
      OBVIOUS
    <3>. QED BY <1>11, <3>1
  <2>9. KidsOK(k + 1, kid, r, s)'
    BY <1>9, <2>6, <2>7, <2>8 DEF KidsOK
  <2>. QED BY <1>12, <2>3, <2>4, <2>5, <2>9
<1>. QED BY <1>5, <1>13, <1>14

(* wait() takes one child less from those that are there.                  *)
LEMMA YieldWaits ==
  ASSUME TypesOK, Family, program = "yield", NEW k \in CHILDREN .. 2 * CHILDREN - 1,
         NEW kid \in [Ids -> Pid \cup {NoPid}], NEW r \in [Ids -> 0 .. ROUNDS],
         NEW s \in [Ids -> 0 .. 2], marked = 0, YieldingAt(k, kid, r, s), Step(Main)
  PROVE  Yielding' /\ Family'
<1>1. /\ Main \in Pid /\ todo \in [Pid -> Seq(CallSet)] /\ program \in Programs
      /\ status \in [Pid -> {"free", "live", "zombie"}] /\ parent \in [Pid -> Pid \cup {NoPid}]
      /\ NoPid \notin Pid /\ Pid \subseteq Int /\ -1 \notin Pid
  BY PidAssumption DEF TypesOK, ProcTypeOK, NoPid
<1>2. PICK C \in Nat \ {0} : C = CHILDREN /\ k \in C .. 2 * C - 1 /\ k \in 0 .. 2 * C - 1
             /\ k \in Int
  BY ConsoleAssumption
<1>3. /\ todo[Main] = MainLeft(k) /\ KidsOK(k, kid, r, s) /\ Tally(console, r, s)
      /\ Cardinality(There(kid)) <= 2 * C - k
  BY <1>2 DEF YieldingAt
<1>4. PICK t \in Seq(CallSet) :
        /\ t = MainLeft(k + 1) /\ t # <<>> /\ Tail(todo[Main]) = t
        /\ Head(todo[Main]) = Call("wait", Pid)
  <2>1. /\ Tail(todo[Main]) = MainLeft(k + 1) /\ Head(todo[Main]) = Call("wait", Pid)
    <3>1. ~(k < CHILDREN) /\ k \in 0 .. 2 * CHILDREN - 1
      BY <1>2
    <3>. QED BY <1>1, <1>3, <3>1, MainLefts
  <2>2. MainLeft(k + 1) \in Seq(CallSet) /\ MainLeft(k + 1) # <<>>
    <3>1. CASE k + 1 \in 0 .. 2 * CHILDREN - 1
      BY <1>1, <3>1, MainLefts
    <3>2. CASE k + 1 = 2 * CHILDREN
      <4>1. MainLeft(k + 1) = Marker("END")
        BY <1>1, <3>2, MainLefts
      <4>2. "END" \in Texts
        BY Zenon DEF Texts
      <4>. QED BY <1>1, <4>1, <4>2, MarkerCalls, Zenon
    <3>. QED BY <1>2, <3>1, <3>2
  <2>. QED BY <2>1, <2>2, Zenon
<1>5. Wait(Main) /\ Arg(Main) = Pid
  <2>1. Head(todo[Main]).op = "wait" /\ Head(todo[Main]).arg = Pid
    BY <1>4, CallFields
  <2>. QED BY <1>1, <2>1, Steps DEF Arg
<1>6. PICK x \in Wait4(Main, Pid, FALSE) : Reap(x) /\ Then(Main, AfterWait(x))
  BY <1>5 DEF Wait
<1>7. AfterWait(x) = <<>> /\ t \o <<>> = t
  <2>1. AfterWait(x) = <<>>
    BY Zenon DEF AfterWait
  <2>. QED BY <2>1, Joined
<1>8. todo' = [todo EXCEPT ![Main] = t]
  BY <1>4, <1>6, <1>7, Zenon DEF Then
<1>9. todo'[Main] = t /\ \A q \in Pid \ {Main} : todo'[q] = todo[q]
  BY <1>1, <1>8
<1>10. UNCHANGED <<program, whole, console, failed, marked>>
  BY <1>5 DEF Wait
<1>11. status[Main] = "live" /\ parent[Main] = NoPid /\ \A q \in Pid : parent[q] \in {NoPid, Main}
  BY <1>3, <1>4, <1>1, Steps DEF Family
<1>12. /\ \A i, j \in Ids : kid[i] = kid[j] /\ kid[i] # NoPid => i = j
       /\ \A p \in Pid \ {Main} : Unused(p) \/ \E i \in Ids : kid[i] = p
       /\ \A i \in Ids : KidOK(i, k, kid[i], r[i], s[i])
       /\ failed => \E i \in Ids : i < k /\ kid[i] = NoPid /\ r[i] = 0
  BY <1>3 DEF KidsOK
<1>13. \A i \in Ids : i # k /\ i < k /\ i < k + 1 /\ ~(i >= k) /\ ~(i >= k + 1)
  BY <1>2 DEF Ids
<1>14. ASSUME NEW kid2 \in [Ids -> Pid \cup {NoPid}], KidsOK(k + 1, kid2, r, s)', Family',
              Cardinality(There(kid2)) <= 2 * C - (k + 1)
       PROVE  Yielding' /\ Family'
  <2>1. k + 1 \in 0 .. 2 * CHILDREN
    BY <1>2
  <2>2. k + 1 >= CHILDREN => Cardinality(There(kid2)) <= 2 * CHILDREN - (k + 1)
    BY <1>2, <1>14
  <2>3. todo'[Main] = MainLeft(k + 1)'
    BY <1>4, <1>9, <1>10, SameLeft
  <2>4. Tally(console, r, s)'
    BY <1>3, <1>10
  <2>5. YieldingAt(k + 1, kid2, r, s)'
    BY <1>14, <2>2, <2>3, <2>4 DEF YieldingAt
  <2>6. marked' = 0
    BY <1>10
  <2>. QED BY <1>14, <2>1, <2>5, <2>6 DEF Yielding
<1>17. \A i \in Ids : kid[i] # NoPid =>
         kid[i] \in Pid /\ parent[kid[i]] = Main /\ status[kid[i]] # "free"
  <2>1. \A i \in Ids : kid[i] # NoPid => KidIsThere(i, k, kid[i], r[i], s[i])
    BY <1>2, <1>3, KidThere, Zenon
  <2>. QED BY <2>1 DEF KidIsThere
<1>15. CASE Children(Main) \cap Pid = {}
  <2>1. x = -1 /\ UNCHANGED <<status, parent>>
    BY <1>1, <1>6, <1>15 DEF Wait4, Reap, procVars
  <2>2. \A i \in Ids : kid[i] = NoPid
    <3>1. ASSUME NEW i \in Ids, kid[i] # NoPid PROVE FALSE
      <4>1. kid[i] \in Pid /\ parent[kid[i]] = Main /\ status[kid[i]] # "free"
        BY <1>17, <3>1
      <4>. QED BY <1>15, <4>1 DEF Children
    <3>. QED BY <3>1
  <2>3. Cardinality(There(kid)) = 0
    <3>1. There(kid) = {}
      BY <2>2 DEF There
    <3>. QED BY <3>1, FS_EmptySet
  <2>4. Cardinality(There(kid)) <= 2 * C - (k + 1)
    BY <1>2, <2>3
  <2>5. Family'
    BY <1>1, <1>4, <1>9, <1>11, <2>1 DEF Family
  <2>6. ASSUME NEW i \in Ids PROVE KidOK(i, k + 1, kid[i], r[i], s[i])'
    <3>1. k \in Nat /\ k + 1 \in {k, k + 1} /\ (failed => failed')
      BY <1>2, <1>10
    <3>. QED BY <1>10, <1>12, <1>13, <2>2, <3>1, KidStays
  <2>7. \A p \in Pid \ {Main} : Unused(p)' \/ \E i \in Ids : kid[i] = p
    BY <1>9, <1>12, <2>1 DEF Unused
  <2>8. failed' => \E i \in Ids : i < k + 1 /\ kid[i] = NoPid /\ r[i] = 0
    BY <1>10, <1>12, <1>13
  <2>9. KidsOK(k + 1, kid, r, s)'
    BY <1>12, <2>6, <2>7, <2>8 DEF KidsOK
  <2>. QED BY <1>14, <2>4, <2>5, <2>9
<1>16. CASE Children(Main) \cap Pid # {}
  <2>1. x \in Pid /\ parent[x] = Main /\ status[x] = "zombie"
    BY <1>6, <1>16 DEF Wait4, Children
  <2>2. /\ status' = [status EXCEPT ![x] = "free"] /\ parent' = [parent EXCEPT ![x] = NoPid]
    BY <1>6, <2>1 DEF Reap
  <2>3. x # Main /\ ~Unused(x)
    BY <1>1, <1>11, <2>1 DEF Unused
  <2>4. PICK i \in Ids : kid[i] = x /\ kid[i] # NoPid
    BY <1>1, <1>12, <2>1, <2>3
  <2>5. r[i] = ROUNDS /\ s[i] = 0 /\ todo[x] = <<>>
    <3>1. KidIsThere(i, k, kid[i], r[i], s[i])
      BY <1>2, <1>3, <2>4, KidThere, Zenon
    <3>. QED BY <2>1, <2>4, <3>1 DEF KidIsThere
  <2>6. /\ status'[x] = "free" /\ parent'[x] = NoPid /\ todo'[x] = <<>>
        /\ \A q \in Pid \ {x} : status'[q] = status[q] /\ parent'[q] = parent[q]
    BY <1>1, <1>9, <2>1, <2>2, <2>3, <2>5
  <2>7. Family'
    BY <1>1, <1>4, <1>9, <1>11, <2>3, <2>6 DEF Family
  <2>8. PICK kid2 : kid2 = [kid EXCEPT ![i] = NoPid]
    OBVIOUS
  <2>9. /\ kid2 \in [Ids -> Pid \cup {NoPid}] /\ kid2[i] = NoPid
        /\ \A j \in Ids \ {i} : kid2[j] = kid[j]
    BY <2>8
  <2>10. Cardinality(There(kid2)) <= 2 * C - (k + 1)
    <3>1. There(kid2) = There(kid) \ {i} /\ i \in There(kid)
      BY <2>4, <2>9 DEF There
    <3>2. IsFiniteSet(There(kid)) /\ Cardinality(There(kid)) \in Nat
      BY ThereFinite
    <3>3. Cardinality(There(kid2)) = Cardinality(There(kid)) - 1
      BY <3>1, <3>2, FS_RemoveElement
    <3>. QED BY <1>2, <1>3, <3>2, <3>3
  <2>11. \A j, l \in Ids : kid2[j] = kid2[l] /\ kid2[j] # NoPid => j = l
    <3>1. ASSUME NEW j \in Ids, NEW l \in Ids, kid2[j] = kid2[l], kid2[j] # NoPid PROVE j = l
      <4>1. j # i /\ l # i
        BY <2>9, <3>1
      <4>. QED BY <1>12, <2>9, <3>1, <4>1
    <3>. QED BY <3>1
  <2>12. \A p \in Pid \ {Main} : Unused(p)' \/ \E j \in Ids : kid2[j] = p
    <3>1. ASSUME NEW p \in Pid \ {Main}, p # x PROVE Unused(p)' \/ \E j \in Ids : kid2[j] = p
      <4>1. CASE Unused(p)
        BY <1>9, <2>6, <3>1, <4>1 DEF Unused
      <4>2. CASE \E j \in Ids : kid[j] = p
        <5>1. PICK j \in Ids : kid[j] = p
          BY <4>2
        <5>2. j # i
          BY <2>4, <3>1, <5>1
        <5>. QED BY <2>9, <5>1, <5>2
      <4>. QED BY <1>12, <4>1, <4>2
    <3>2. Unused(x)'
      BY <2>6 DEF Unused
    <3>. QED BY <3>1, <3>2
  <2>13. ASSUME NEW j \in Ids PROVE KidOK(j, k + 1, kid2[j], r[j], s[j])'
    <3>1. CASE j = i
      <4>1. /\ s[i] < Pieces' /\ ~(i >= k + 1)
        BY <1>13, <2>5 DEF Pieces
      <4>2. r[i] \in {0, ROUNDS}
        BY <2>5
      <4>. QED BY <2>5, <2>9, <3>1, <4>1, <4>2 DEF KidOK
    <3>2. CASE j # i
      <4>1. KidOK(j, k, kid[j], r[j], s[j]) /\ kid2[j] = kid[j]
        BY <1>12, <2>9, <3>2
      <4>2. kid[j] # NoPid => /\ status'[kid[j]] = status[kid[j]]
                              /\ parent'[kid[j]] = parent[kid[j]]
                              /\ todo'[kid[j]] = todo[kid[j]]
        <5>1. ASSUME kid[j] # NoPid PROVE kid[j] # x /\ kid[j] \in Pid \ {Main}
          <6>1. kid[j] \in Pid \ {Main}
            <7>1. KidIsThere(j, k, kid[j], r[j], s[j])
              BY <1>2, <1>3, <5>1, KidThere, Zenon
            <7>. QED BY <7>1 DEF KidIsThere
          <6>. QED BY <1>12, <2>4, <3>2, <5>1, <6>1
        <5>. QED BY <1>9, <2>6, <5>1
      <4>3. k \in Nat /\ k + 1 \in {k, k + 1} /\ (failed => failed')
        BY <1>2, <1>10
      <4>4. KidOK(j, k + 1, kid[j], r[j], s[j])'
        BY <1>10, <1>13, <4>1, <4>2, <4>3, KidStays
      <4>. QED BY <4>1, <4>4
    <3>. QED BY <3>1, <3>2
  <2>14. failed' => \E j \in Ids : j < k + 1 /\ kid2[j] = NoPid /\ r[j] = 0
    <3>1. ASSUME failed' PROVE \E j \in Ids : j < k + 1 /\ kid2[j] = NoPid /\ r[j] = 0
      <4>1. PICK j \in Ids : j < k /\ kid[j] = NoPid /\ r[j] = 0
        BY <1>10, <1>12, <3>1
      <4>2. kid2[j] = NoPid
        BY <2>9, <4>1
      <4>. QED BY <1>13, <4>1, <4>2
    <3>. QED BY <3>1
  <2>15. KidsOK(k + 1, kid2, r, s)'
    BY <2>11, <2>12, <2>13, <2>14 DEF KidsOK
  <2>. QED BY <1>14, <2>7, <2>9, <2>10, <2>15
<1>. QED BY <1>15, <1>16

(* When all have been waited for, the marker is next.                      *)
LEMMA YieldEnds ==
  ASSUME TypesOK, Family, program = "yield",
         NEW kid \in [Ids -> Pid \cup {NoPid}], NEW r \in [Ids -> 0 .. ROUNDS],
         NEW s \in [Ids -> 0 .. 2], marked = 0, YieldingAt(2 * CHILDREN, kid, r, s)
  PROVE  Yielded
<1>1. PICK C \in Nat : C = CHILDREN /\ C # 0
  BY ConsoleAssumption
<1>2. /\ todo[Main] = MainLeft(2 * C) /\ KidsOK(2 * C, kid, r, s) /\ Tally(console, r, s)
      /\ Cardinality(There(kid)) <= 0
  <2>1. 2 * C >= C /\ 2 * C - 2 * C = 0
    BY <1>1
  <2>2. C >= C => Cardinality(There(kid)) <= 2 * C - 2 * C
    BY <1>1, <2>1 DEF YieldingAt
  <2>. QED BY <1>1, <2>1, <2>2 DEF YieldingAt
<1>3. \A i \in Ids : kid[i] = NoPid
  <2>1. There(kid) = {}
    BY <1>2, ThereFinite, FS_EmptySet
  <2>. QED BY <2>1 DEF There
<1>4. /\ \A p \in Pid \ {Main} : Unused(p) \/ \E i \in Ids : kid[i] = p
      /\ \A i \in Ids : KidOK(i, 2 * C, NoPid, r[i], s[i])
      /\ failed => \E i \in Ids : i < 2 * C /\ kid[i] = NoPid /\ r[i] = 0
  BY <1>2, <1>3 DEF KidsOK
<1>5. Alone
  <2>1. NoPid \notin Pid
    BY PidAssumption DEF NoPid
  <2>. QED BY <1>3, <1>4, <2>1 DEF Alone
<1>6. \A i \in Ids : s[i] = 0 /\ r[i] \in {0, ROUNDS} /\ (~failed => r[i] = ROUNDS)
  <2>1. \A i \in Ids : i < 2 * C
    BY <1>1 DEF Ids
  <2>. QED BY <1>4, <2>1 DEF KidOK
<1>7. YieldText(console)
  <2>1. s = [i \in Ids |-> 0] /\ r \in [Ids -> {0, ROUNDS}]
    BY <1>6
  <2>2. failed <=> \E i \in Ids : r[i] = 0
    <3>1. ROUNDS # 0
      BY ConsoleAssumption
    <3>. QED BY <1>4, <1>6, <3>1
  <2>. QED BY <1>2, <2>1, <2>2 DEF YieldText
<1>8. PICK text \in Seq(Tokens) : text = console /\ text \o <<>> = text
  <2>1. console \in Seq(Tokens)
    BY DEF TypesOK
  <2>. QED BY <2>1, Joined
<1>9. PICK m \in Seq(CallSet) : m = Marker("END") /\ todo[Main] = m /\ <<>> \o m = m
  <2>1. program \in Programs
    BY DEF TypesOK
  <2>2. MainLeft(2 * C) = Marker("END") /\ Marker("END") \in Seq(CallSet)
    BY <1>1, <2>1, MainLefts, YieldMain
  <2>3. \A z \in Seq(CallSet) : <<>> \o z = z
    BY Joined
  <2>. QED BY <1>2, <2>2, <2>3, Zenon
<1>10. Prints(Main, text, m)
  <2>1. <<>> \in Seq(CallSet) /\ <<>> \in Seq(Tokens) /\ Quiet(<<>>)
    BY DEF Quiet
  <2>. QED BY <1>8, <1>9, <2>1, GivesNone, Zenon DEF Prints
<1>11. Reports(text, "END")
  BY <1>9, <1>10, Zenon DEF Reports
<1>. QED BY <1>5, <1>7, <1>8, <1>11, Zenon DEF Yielded

(* What is left when all have ended is the report.                         *)
LEMMA YieldedSteps ==
  ASSUME TypesOK, Family, program = "yield", Yielded, NEW p \in Pid, Step(p)
  PROVE  Yielded' /\ Family'
<1>1. PICK text \in Seq(Tokens) : Reports(text, "END") /\ YieldText(text) /\ Alone
  BY Zenon DEF Yielded
<1>2. p = Main /\ "END" \in Texts
  <2>1. "END" \in Texts
    BY Zenon DEF Texts
  <2>. QED BY <1>1, <2>1, AloneSteps
<1>3. Reports(text, "END")' /\ Alone' /\ Family' /\ Still
  BY <1>1, <1>2, ReportSteps
<1>4. YieldText(text)'
  BY <1>1, <1>3 DEF Still, YieldText
<1>. QED BY <1>3, <1>4, Zenon DEF Yielded

-----------------------------------------------------------------------------
(* yield: the steps of the children.                                       *)

(* Printing tokens together is printing them one by one.                   *)
LEMMA OneByOne ==
  ASSUME NEW t \in Seq(Tokens), NEW a \in Tokens, NEW b \in Tokens
  PROVE  t \o <<a, b>> = (t \o <<a>>) \o <<b>>
<1>1. <<a>> \in Seq(Tokens) /\ <<b>> \in Seq(Tokens)
  OBVIOUS
<1>2. (t \o <<a>>) \o <<b>> = t \o (<<a>> \o <<b>>)
  BY <1>1, JoinedThree, Zenon
<1>3. <<a>> \o <<b>> = <<a, b>>
  BY Tuples
<1>. QED BY <1>2, <1>3, Zenon

Four(t, a, b, c, d) == t \o <<a, b, c, d>> = ((t \o <<a>>) \o <<b>>) \o <<c, d>>

(* So is printing four.                                                    *)
LEMMA FourByFour ==
  ASSUME NEW t \in Seq(Tokens), NEW a \in Tokens, NEW b \in Tokens, NEW c \in Tokens,
         NEW d \in Tokens
  PROVE  Four(t, a, b, c, d)
<1>1. <<a, b>> \in Seq(Tokens) /\ <<c, d>> \in Seq(Tokens)
  OBVIOUS
<1>2. (t \o <<a, b>>) \o <<c, d>> = t \o (<<a, b>> \o <<c, d>>)
  BY <1>1, JoinedThree, Zenon
<1>3. <<a, b>> \o <<c, d>> = <<a, b, c, d>>
  BY Tuples
<1>. QED BY <1>2, <1>3, OneByOne, Zenon DEF Four

(* The beginning and the rest of what a child still calls.                 *)
LeftPart(i, c, r, s) ==
  /\ Head(Left(i, c, r, s)) = YieldLine(i, c)[s + 1]
  /\ Tail(Left(i, c, r, s)) = IF s + 1 < Pieces THEN Left(i, c, r, s + 1)
                              ELSE Left(i, c, r + 1, 0)

(* That of every child is such, while lines are left.                      *)
LEMMA LeftParts ==
  program = "yield" =>
    \A i, c \in Int : \A r \in 0 .. ROUNDS - 1, s \in 0 .. Pieces - 1 : LeftPart(i, c, r, s)
<1> SUFFICES ASSUME program = "yield", NEW i \in Int, NEW c \in Int,
                    NEW r \in 0 .. ROUNDS - 1, NEW s \in 0 .. Pieces - 1
             PROVE  LeftPart(i, c, r, s)
  OBVIOUS
<1>. QED BY ChildLeft DEF LeftPart

(* The number of the child or of the process.                              *)
LEMMA TallyNumber ==
  ASSUME NEW r \in [Ids -> 0 .. ROUNDS], NEW s \in [Ids -> 0 .. 2],
         NEW t, Tally(t, r, s), Cardinality(Complete(r)) \in Nat,
         NEW a \in Tokens, a # NL, NEW i \in Ids, NEW n \in {1, 2}, n = s[i] + 1,
         n = 2 => a = Num(i), NEW u, Grows(t, a, u)
  PROVE  Tally(u, r, [s EXCEPT ![i] = n])
<1>2. PICK v : v = [s EXCEPT ![i] = n]
  OBVIOUS
<1>3. Cardinality(LineStarts(u)) = Cardinality(Complete(r)) + 1 /\ ~LastIsNL(u)
  BY DEF Grows, Tally
<1>4. /\ v[i] = n /\ \A j \in Ids \ {i} : v[j] = s[j]
  BY <1>2
<1>5. ASSUME NEW j \in Ids
      PROVE  Cardinality(Places(u, Num(j))) >= r[j] + (IF v[j] = 2 THEN 1 ELSE 0)
  <2>1. /\ Cardinality(Places(t, Num(j))) >= r[j] + (IF s[j] = 2 THEN 1 ELSE 0)
        /\ Cardinality(Places(t, Num(j))) \in Nat /\ r[j] \in Int
    BY ConsoleAssumption DEF Tally, Grows
  <2>2. Cardinality(Places(u, Num(j)))
          = Cardinality(Places(t, Num(j))) + (IF a = Num(j) THEN 1 ELSE 0)
    BY DEF Grows
  <2>3. CASE j = i
    BY <1>4, <2>1, <2>2, <2>3
  <2>4. CASE j # i
    BY <1>4, <2>1, <2>2, <2>4
  <2>. QED BY <2>3, <2>4
<1>6. \E j \in Ids : v[j] # 0
  BY <1>4
<1>. QED BY <1>2, <1>3, <1>5, <1>6 DEF Tally

(* The number of child i has been printed in u, but not its line ended.    *)
LineOpen(u, r, s, i) ==
  /\ Cardinality(LineStarts(u)) = Cardinality(Complete(r)) + (IF LastIsNL(u) THEN 0 ELSE 1)
  /\ \A j \in Ids : Cardinality(Places(u, Num(j))) >= r[j] + (IF s[j] = 2 \/ j = i THEN 1 ELSE 0)

(* The beginning of a line: a is the number of the process, b of the child.*)
LEMMA LineBegins ==
  ASSUME NEW r \in [Ids -> 0 .. ROUNDS], NEW s \in [Ids -> 0 .. 2],
         NEW i \in Ids, s[i] = 0, NEW t, Tally(t, r, s), Cardinality(Complete(r)) \in Nat,
         NEW a, a # NL, NEW b, b # NL, NEW t1, NEW u, Grows(t, a, t1), Grows(t1, b, u), b = Num(i)
  PROVE  LineOpen(u, r, s, i)
<1>0. /\ Cardinality(LineStarts(t)) = Cardinality(Complete(r)) + (IF LastIsNL(t) THEN 0 ELSE 1)
      /\ \A j \in Ids : Cardinality(Places(t, Num(j))) >= r[j] + (IF s[j] = 2 THEN 1 ELSE 0)
  BY DEF Tally
<1>1. Grows(t, a, t1) /\ Grows(t1, b, u) /\ b = Num(i)
  OBVIOUS
<1>2. /\ Cardinality(LineStarts(t)) \in Nat
      /\ Cardinality(LineStarts(t1))
              = Cardinality(LineStarts(t)) + (IF a # NL /\ LastIsNL(t) THEN 1 ELSE 0)
      /\ LastIsNL(t1) <=> a = NL
      /\ \A e : /\ Cardinality(Places(t, e)) \in Nat
                /\ Cardinality(Places(t1, e))
                        = Cardinality(Places(t, e)) + (IF a = e THEN 1 ELSE 0)
  BY <1>1 DEF Grows
<1>3. /\ Cardinality(LineStarts(u))
              = Cardinality(LineStarts(t1)) + (IF b # NL /\ LastIsNL(t1) THEN 1 ELSE 0)
      /\ LastIsNL(u) <=> b = NL
      /\ \A e : Cardinality(Places(u, e)) = Cardinality(Places(t1, e)) + (IF b = e THEN 1 ELSE 0)
  BY <1>1 DEF Grows
<1>4. Cardinality(LineStarts(u)) = Cardinality(Complete(r)) + 1 /\ ~LastIsNL(u)
  BY <1>0, <1>2, <1>3
<1>5. ASSUME NEW j \in Ids
      PROVE  Cardinality(Places(u, Num(j))) >= r[j] + (IF s[j] = 2 \/ j = i THEN 1 ELSE 0)
  <2>1. PICK n, n1, n2 : /\ n = Cardinality(Places(t, Num(j)))
                         /\ n1 = Cardinality(Places(t1, Num(j)))
                         /\ n2 = Cardinality(Places(u, Num(j)))
    OBVIOUS
  <2>2. /\ n \in Nat /\ n1 = n + (IF a = Num(j) THEN 1 ELSE 0)
        /\ n2 = n1 + (IF b = Num(j) THEN 1 ELSE 0) /\ n >= r[j] + (IF s[j] = 2 THEN 1 ELSE 0)
        /\ r[j] \in Int
    BY <1>0, <1>2, <1>3, <2>1, ConsoleAssumption
  <2>3. CASE j = i
    <3>1. n2 >= r[j] + 1 /\ s[j] = 0
      BY <1>1, <2>2, <2>3
    <3>. QED BY <1>1, <2>1, <2>3, <3>1
  <2>4. CASE j # i
    <3>1. n2 >= r[j] + (IF s[j] = 2 THEN 1 ELSE 0)
      BY <2>2
    <3>. QED BY <1>1, <2>1, <2>4, <3>1
  <2>. QED BY <2>3, <2>4
<1>. QED BY <1>4, <1>5 DEF LineOpen

(* The end of a line.                                                      *)
LEMMA TallyLine ==
  ASSUME NEW r \in [Ids -> 0 .. ROUNDS], NEW s \in [Ids -> 0 .. 2],
         NEW i \in Ids, r[i] < ROUNDS, NEW u, LineOpen(u, r, s, i),
         NEW d, d # NL, NEW t3, NEW t4, Grows(u, d, t3), Grows(t3, NL, t4)
  PROVE  Tally(t4, [r EXCEPT ![i] = r[i] + 1], [s EXCEPT ![i] = 0])
<1>1. PICK v, w : v = [r EXCEPT ![i] = r[i] + 1] /\ w = [s EXCEPT ![i] = 0]
  OBVIOUS
<1>2. /\ Cardinality(Complete(r)) \in Nat
      /\ Cardinality(Complete(v)) = Cardinality(Complete(r)) + 1
  BY <1>1, OneMoreComplete
<1>3. /\ v[i] = r[i] + 1 /\ w[i] = 0 /\ \A j \in Ids \ {i} : v[j] = r[j] /\ w[j] = s[j]
      /\ \A j \in Ids : r[j] \in Int
  BY <1>1, ConsoleAssumption
<1>8. /\ Cardinality(LineStarts(u)) = Cardinality(Complete(r)) + (IF LastIsNL(u) THEN 0 ELSE 1)
      /\ \A j \in Ids :
           Cardinality(Places(u, Num(j))) >= r[j] + (IF s[j] = 2 \/ j = i THEN 1 ELSE 0)
  BY DEF LineOpen
<1>9. /\ Cardinality(LineStarts(u)) \in Nat
      /\ Cardinality(LineStarts(t3))
                  = Cardinality(LineStarts(u)) + (IF d # NL /\ LastIsNL(u) THEN 1 ELSE 0)
      /\ LastIsNL(t3) <=> d = NL
      /\ \A e : /\ Cardinality(Places(u, e)) \in Nat
                /\ Cardinality(Places(t3, e))
                            = Cardinality(Places(u, e)) + (IF d = e THEN 1 ELSE 0)
  BY DEF Grows
<1>10. /\ Cardinality(LineStarts(t4))
                  = Cardinality(LineStarts(t3)) + (IF NL # NL /\ LastIsNL(t3) THEN 1 ELSE 0)
       /\ LastIsNL(t4) <=> NL = NL
       /\ \A e : Cardinality(Places(t4, e)) = Cardinality(Places(t3, e)) + (IF NL = e THEN 1 ELSE 0)
  BY DEF Grows
<1>11. Cardinality(LineStarts(t4)) = Cardinality(Complete(v)) /\ LastIsNL(t4)
  BY <1>2, <1>8, <1>9, <1>10
<1>12. ASSUME NEW j \in Ids
       PROVE  Cardinality(Places(t4, Num(j))) >= v[j] + (IF w[j] = 2 THEN 1 ELSE 0)
  <2>1. PICK n, n3, n4 : /\ n = Cardinality(Places(u, Num(j)))
                         /\ n3 = Cardinality(Places(t3, Num(j)))
                         /\ n4 = Cardinality(Places(t4, Num(j)))
    OBVIOUS
  <2>2. /\ n \in Nat /\ n3 = n + (IF d = Num(j) THEN 1 ELSE 0)
        /\ n4 = n3 + (IF NL = Num(j) THEN 1 ELSE 0)
        /\ n >= r[j] + (IF s[j] = 2 \/ j = i THEN 1 ELSE 0)
        /\ r[j] \in Int
    BY <1>3, <1>8, <1>9, <1>10, <2>1
  <2>3. n4 >= r[j] + (IF s[j] = 2 \/ j = i THEN 1 ELSE 0)
    BY <2>2
  <2>4. CASE j = i
    BY <1>3, <2>1, <2>3, <2>4
  <2>5. CASE j # i
    BY <1>3, <2>1, <2>3, <2>5
  <2>. QED BY <2>4, <2>5
<1>. QED BY <1>1, <1>2, <1>11, <1>12 DEF Tally

(* A child prints a piece of a line.                                       *)
LEMMA YieldWrites ==
  ASSUME TypesOK, Family, program = "yield", NEW k \in 0 .. 2 * CHILDREN,
         NEW kid \in [Ids -> Pid \cup {NoPid}], NEW r \in [Ids -> 0 .. ROUNDS],
         NEW s \in [Ids -> 0 .. 2], marked = 0, YieldingAt(k, kid, r, s),
         NEW i \in Ids, kid[i] # NoPid, status[kid[i]] = "live", r[i] # ROUNDS,
         Step(kid[i])
  PROVE  Yielding' /\ Family'
<1>1. /\ Main \in Pid /\ todo \in [Pid -> Seq(CallSet)] /\ program \in Programs
      /\ NoPid \notin Pid /\ Pid \subseteq Int /\ console \in Seq(Tokens) /\ k \in Int
      /\ i \in Int
  BY PidAssumption DEF TypesOK, NoPid, Ids
<1>2. /\ todo[Main] = MainLeft(k) /\ KidsOK(k, kid, r, s) /\ Tally(console, r, s)
      /\ k >= CHILDREN => Cardinality(There(kid)) <= 2 * CHILDREN - k
  BY DEF YieldingAt
<1>3. PICK c \in Pid :
        /\ c = kid[i] /\ c # Main /\ parent[c] = Main /\ status[c] = "live" /\ Step(c)
        /\ todo[c] = Left(i, c, r[i], s[i]) /\ s[i] < Pieces /\ i < k /\ c \in Int
  <2>1. k \in Int /\ KidsOK(k, kid, r, s)
    BY <1>1, <1>2
  <2>2. /\ kid[i] \in Pid \ {Main} /\ parent[kid[i]] = Main /\ i < k
        /\ status[kid[i]] = "live" => todo[kid[i]] = Left(i, kid[i], r[i], s[i])
        /\ s[i] < Pieces
    <3>1. KidIsThere(i, k, kid[i], r[i], s[i])
      BY <2>1, KidThere, Zenon
    <3>. QED BY <3>1 DEF KidIsThere
  <2>. QED BY <1>1, <2>2
<1>4. r[i] \in 0 .. ROUNDS - 1 /\ s[i] \in 0 .. Pieces - 1 /\ r[i] < ROUNDS /\ Pieces \in {1, 3}
  <2>1. Pieces \in {1, 3}
    BY DEF Pieces
  <2>. QED BY <1>3, <2>1, ConsoleAssumption
<1>5. /\ Head(todo[c]) = YieldLine(i, c)[s[i] + 1]
      /\ Tail(todo[c]) = IF s[i] + 1 < Pieces THEN Left(i, c, r[i], s[i] + 1)
                         ELSE Left(i, c, r[i] + 1, 0)
  <2>1. LeftPart(i, c, r[i], s[i])
    BY <1>1, <1>3, <1>4, LeftParts
  <2>. QED BY <1>3, <2>1, Zenon DEF LeftPart
<1>6. PICK f \in CallSet, t \in Seq(CallSet) : f = Head(todo[c]) /\ t = Tail(todo[c])
  BY <1>3, Steps
<1>7. PICK a, b, d \in Tokens : a = Num(c) /\ b = Num(i) /\ d = "." /\ a # NL /\ b # NL /\ d # NL
  <2>1. PICK a, b, d \in Tokens : a = Num(c) /\ b = Num(i) /\ d = "."
    BY <1>1, <1>3, TokenTypes, Zenon DEF Texts
  <2>2. a # NL /\ b # NL
    BY <2>1, NumAssumption DEF Ids
  <2>3. d # NL
    BY <2>1, Zenon DEF NL
  <2>. QED BY <2>1, <2>2, <2>3
<1>8. /\ whole => f = Call("write", <<a, b, d, NL>>)
      /\ ~whole => /\ s[i] = 0 => f = Call("write", <<a>>)
                   /\ s[i] = 1 => f = Call("write", <<b>>)
                   /\ s[i] = 2 => f = Call("write", <<d, NL>>)
  <2>1. s[i] = 0 \/ s[i] = 1 \/ s[i] = 2
    BY <1>4
  <2>2. 0 + 1 = 1 /\ 1 + 1 = 2 /\ 2 + 1 = 3
    OBVIOUS
  <2>3. whole => s[i] = 0
    BY <1>3, <1>4 DEF Pieces
  <2>4. /\ whole => YieldLine(i, c)[1] = Call("write", <<a, b, d, NL>>)
        /\ ~whole => /\ YieldLine(i, c)[1] = Call("write", <<a>>)
                     /\ YieldLine(i, c)[2] = Call("write", <<b>>)
                     /\ YieldLine(i, c)[3] = Call("write", <<d, NL>>)
    BY <1>1, <1>3, <1>7, YieldLines, Zenon
  <2>. QED BY <1>5, <1>6, <2>1, <2>2, <2>3, <2>4, Zenon
<1>9. PICK arg \in Seq(Tokens) :
        /\ f.op = "write" /\ f.arg = arg
        /\ whole => arg = <<a, b, d, NL>>
        /\ ~whole => /\ s[i] = 0 => arg = <<a>>
                     /\ s[i] = 1 => arg = <<b>>
                     /\ s[i] = 2 => arg = <<d, NL>>
  <2>1. s[i] = 0 \/ s[i] = 1 \/ s[i] = 2
    BY <1>4
  <2>2. f.op = "write"
    <3>1. PICK x : f = Call("write", x)
      BY <1>8, <2>1, Zenon
    <3>. QED BY <3>1, CallFields, Zenon
  <2>3. f.arg \in Seq(Tokens)
    BY <2>2, CallArgs
  <2>4. ASSUME whole PROVE f.arg = <<a, b, d, NL>>
    <3>1. f = Call("write", <<a, b, d, NL>>)
      BY <1>8, <2>4, Zenon
    <3>2. Call("write", <<a, b, d, NL>>).arg = <<a, b, d, NL>>
      BY CallFields, Zenon
    <3>. QED BY <3>1, <3>2, Zenon
  <2>5. ASSUME ~whole, s[i] = 0 PROVE f.arg = <<a>>
    <3>1. f = Call("write", <<a>>)
      BY <1>8, <2>5, Zenon
    <3>2. Call("write", <<a>>).arg = <<a>>
      BY CallFields, Zenon
    <3>. QED BY <3>1, <3>2, Zenon
  <2>6. ASSUME ~whole, s[i] = 1 PROVE f.arg = <<b>>
    <3>1. f = Call("write", <<b>>)
      BY <1>8, <2>6, Zenon
    <3>2. Call("write", <<b>>).arg = <<b>>
      BY CallFields, Zenon
    <3>. QED BY <3>1, <3>2, Zenon
  <2>7. ASSUME ~whole, s[i] = 2 PROVE f.arg = <<d, NL>>
    <3>1. f = Call("write", <<d, NL>>)
      BY <1>8, <2>7, Zenon
    <3>2. Call("write", <<d, NL>>).arg = <<d, NL>>
      BY CallFields, Zenon
    <3>. QED BY <3>1, <3>2, Zenon
  <2>. QED BY <2>2, <2>3, <2>4, <2>5, <2>6, <2>7, Zenon
<1>10. Write(c) /\ Arg(c) = arg /\ ~Calls(c, "mark")
  <2>1. Head(todo[c]).op = "write" /\ Head(todo[c]).arg = arg
    BY <1>6, <1>9
  <2>. QED BY <1>1, <1>3, <2>1, Steps DEF Arg, Calls
<1>11. PICK text, text2 \in Seq(Tokens) : text = console /\ text2 = console' /\ text2 = text \o arg
  <2>1. console' = console \o arg
    BY <1>10 DEF Write
  <2>2. console \o arg \in Seq(Tokens)
    BY <1>1
  <2>. QED BY <1>1, <2>1, <2>2, Zenon
<1>12. UNCHANGED <<status, parent, program, whole, failed, marked>>
  BY <1>10 DEF Write, procVars
<1>13. todo'[c] = t /\ \A q \in Pid \ {c} : todo'[q] = todo[q]
  <2>1. t \o <<>> = t
    BY Joined
  <2>2. Then(c, <<>>)
    BY <1>10 DEF Write
  <2>3. todo' = [todo EXCEPT ![c] = t]
    BY <1>6, <2>1, <2>2, Zenon DEF Then
  <2>. QED BY <1>1, <2>3
<1>14. Family'
  BY <1>1, <1>3, <1>12, <1>13 DEF Family
<1>15. /\ \A j, l \in Ids : kid[j] = kid[l] /\ kid[j] # NoPid => j = l
       /\ \A p \in Pid \ {Main} : Unused(p) \/ \E j \in Ids : kid[j] = p
       /\ \A j \in Ids : KidOK(j, k, kid[j], r[j], s[j])
       /\ failed => \E j \in Ids : j < k /\ kid[j] = NoPid /\ r[j] = 0
  BY <1>2 DEF KidsOK
<1>16. ASSUME NEW v \in [Ids -> 0 .. ROUNDS], NEW u \in [Ids -> 0 .. 2],
              \A j \in Ids \ {i} : v[j] = r[j] /\ u[j] = s[j],
              u[i] < Pieces, v[i] = ROUNDS => u[i] = 0, t = Left(i, c, v[i], u[i]),
              Tally(text2, v, u)
       PROVE  Yielding' /\ Family'
  <2>1. KidOK(i, k, c, v[i], u[i])'
    <3>1. t = Left(i, c, v[i], u[i])' /\ Pieces' = Pieces
      BY <1>12, <1>16, SameLeft
    <3>2. ~(i >= k) /\ c # NoPid
      BY <1>1, <1>3
    <3>. QED BY <1>3, <1>12, <1>13, <1>16, <3>1, <3>2 DEF KidOK
  <2>2. ASSUME NEW j \in Ids, j # i PROVE KidOK(j, k, kid[j], r[j], s[j])'
    <3>1. kid[j] # NoPid => /\ status'[kid[j]] = status[kid[j]]
                            /\ parent'[kid[j]] = parent[kid[j]]
                            /\ todo'[kid[j]] = todo[kid[j]]
      <4>1. ASSUME kid[j] # NoPid PROVE kid[j] \in Pid \ {c}
        BY <1>3, <1>15, <2>2, <4>1
      <4>. QED BY <1>12, <1>13, <4>1
    <3>2. k \in Nat /\ k \in {k, k + 1} /\ KidOK(j, k, kid[j], r[j], s[j])
      BY <1>15
    <3>. QED BY <1>12, <3>1, <3>2, KidStays
  <2>3. ASSUME NEW j \in Ids PROVE KidOK(j, k, kid[j], v[j], u[j])'
    <3>1. CASE j = i
      BY <1>3, <2>1, <3>1
    <3>2. CASE j # i
      <4>1. v[j] = r[j] /\ u[j] = s[j]
        BY <1>16, <3>2
      <4>. QED BY <2>2, <3>2, <4>1
    <3>. QED BY <3>1, <3>2
  <2>4. \A p \in Pid \ {Main} : Unused(p)' \/ \E j \in Ids : kid[j] = p
    <3>1. ASSUME NEW p \in Pid \ {Main}, p # c PROVE Unused(p)' \/ \E j \in Ids : kid[j] = p
      BY <1>12, <1>13, <1>15, <3>1 DEF Unused
    <3>. QED BY <1>3, <3>1
  <2>5. failed' => \E j \in Ids : j < k /\ kid[j] = NoPid /\ v[j] = 0
    <3>1. ASSUME failed' PROVE \E j \in Ids : j < k /\ kid[j] = NoPid /\ v[j] = 0
      <4>1. PICK j \in Ids : j < k /\ kid[j] = NoPid /\ r[j] = 0
        BY <1>12, <1>15, <3>1
      <4>2. v[j] = 0
        BY <1>16, <4>1
      <4>. QED BY <4>1, <4>2
    <3>. QED BY <3>1
  <2>6. KidsOK(k, kid, v, u)'
    BY <1>15, <2>3, <2>4, <2>5 DEF KidsOK
  <2>7. todo'[Main] = MainLeft(k)'
    BY <1>1, <1>2, <1>3, <1>12, <1>13, SameLeft
  <2>8. Tally(console, v, u)'
    BY <1>11, <1>16
  <2>9. YieldingAt(k, kid, v, u)'
    BY <1>2, <2>6, <2>7, <2>8 DEF YieldingAt
  <2>10. marked' = 0
    BY <1>12
  <2>. QED BY <1>14, <2>9, <2>10 DEF Yielding
<1>17. Tally(text, r, s) /\ Cardinality(Complete(r)) \in Nat
  <2>1. PICK v : v = [r EXCEPT ![i] = r[i] + 1]
    OBVIOUS
  <2>. QED BY <1>2, <1>4, <1>11, <2>1, OneMoreComplete
<1>18. NL \in Tokens
  BY TokenTypes
<1>19. ASSUME s[i] \in {0, 2}, s[i] + 1 = Pieces,
              Tally(text2, [r EXCEPT ![i] = r[i] + 1], [s EXCEPT ![i] = 0])
       PROVE  Yielding' /\ Family'
  <2>1. PICK v, u : v = [r EXCEPT ![i] = r[i] + 1] /\ u = [s EXCEPT ![i] = 0]
    OBVIOUS
  <2>2. /\ v \in [Ids -> 0 .. ROUNDS] /\ u \in [Ids -> 0 .. 2]
        /\ v[i] = r[i] + 1 /\ u[i] = 0 /\ \A j \in Ids \ {i} : v[j] = r[j] /\ u[j] = s[j]
    BY <1>4, <2>1, ConsoleAssumption
  <2>3. u[i] < Pieces /\ t = Left(i, c, v[i], u[i])
    BY <1>4, <1>5, <1>6, <1>19, <2>2
  <2>4. Tally(text2, v, u)
    BY <1>19, <2>1
  <2>. QED BY <1>16, <2>2, <2>3, <2>4
<1>20. ASSUME NEW n \in {1, 2}, n = s[i] + 1, n < Pieces, Tally(text2, r, [s EXCEPT ![i] = n])
       PROVE  Yielding' /\ Family'
  <2>1. PICK u : u = [s EXCEPT ![i] = n]
    OBVIOUS
  <2>2. u \in [Ids -> 0 .. 2] /\ u[i] = n /\ \A j \in Ids \ {i} : u[j] = s[j]
    BY <2>1
  <2>3. t = Left(i, c, r[i], u[i])
    BY <1>5, <1>6, <1>20, <2>2
  <2>4. Tally(text2, r, u)
    BY <1>20, <2>1
  <2>. QED BY <1>4, <1>16, <1>20, <2>2, <2>3, <2>4
<1>21. CASE whole
  <2>1. s[i] = 0 /\ Pieces = 1 /\ arg = <<a, b, d, NL>>
    BY <1>4, <1>9, <1>21 DEF Pieces
  <2>2. PICK t1 \in Seq(Tokens) : t1 = text \o <<a>>
    BY MoreToken
  <2>3. PICK t2 \in Seq(Tokens) : t2 = t1 \o <<b>>
    BY MoreToken
  <2>4. PICK t3 \in Seq(Tokens) : t3 = t2 \o <<d>>
    BY MoreToken
  <2>5. PICK t4 \in Seq(Tokens) : t4 = t3 \o <<NL>>
    BY <1>18, MoreToken
  <2>6. text2 = t4
    <3>0. Four(text, a, b, d, NL)
      BY <1>18, FourByFour
    <3>1. text \o <<a, b, d, NL>> = ((text \o <<a>>) \o <<b>>) \o <<d, NL>>
      BY <3>0, Zenon DEF Four
    <3>2. t2 \o <<d, NL>> = t4
      BY <1>18, <2>4, <2>5, OneByOne, Zenon
    <3>. QED BY <1>11, <2>1, <2>2, <2>3, <3>1, <3>2, Zenon
  <2>7. Grows(text, a, t1)
    BY <2>2, OneToken, Zenon
  <2>8. Grows(t1, b, t2)
    BY <2>3, OneToken, Zenon
  <2>9. Grows(t2, d, t3)
    BY <2>4, OneToken, Zenon
  <2>10. Grows(t3, NL, t4)
    BY <1>18, <2>5, OneToken, Zenon
  <2>11. Tally(t4, [r EXCEPT ![i] = r[i] + 1], [s EXCEPT ![i] = 0])
    <3>1. LineOpen(t2, r, s, i)
      BY <1>7, <1>17, <2>1, <2>7, <2>8, LineBegins
    <3>. QED BY <1>4, <1>7, <2>9, <2>10, <3>1, TallyLine
  <2>. QED BY <1>19, <2>1, <2>6, <2>11
<1>22. CASE ~whole /\ s[i] = 2
  <2>1. Pieces = 3 /\ arg = <<d, NL>>
    BY <1>9, <1>22 DEF Pieces
  <2>2. PICK t3 \in Seq(Tokens) : t3 = text \o <<d>>
    BY MoreToken
  <2>3. PICK t4 \in Seq(Tokens) : t4 = t3 \o <<NL>>
    BY <1>18, MoreToken
  <2>4. text2 = t4
    BY <1>11, <1>18, <2>1, <2>2, <2>3, OneByOne, Zenon
  <2>5. Grows(text, d, t3)
    BY <2>2, OneToken, Zenon
  <2>6. Grows(t3, NL, t4)
    BY <1>18, <2>3, OneToken, Zenon
  <2>7. Tally(t4, [r EXCEPT ![i] = r[i] + 1], [s EXCEPT ![i] = 0])
    <3>1. LineOpen(text, r, s, i)
      BY <1>17, <1>22 DEF Tally, LineOpen
    <3>. QED BY <1>4, <1>7, <2>5, <2>6, <3>1, TallyLine
  <2>. QED BY <1>19, <1>22, <2>1, <2>4, <2>7
<1>23. CASE ~whole /\ s[i] \in {0, 1}
  <2>1. PICK n \in {1, 2} : n = s[i] + 1 /\ n < Pieces
    BY <1>23 DEF Pieces
  <2>2. PICK x \in Tokens : x = (IF s[i] = 0 THEN a ELSE b) /\ arg = <<x>> /\ x # NL
                            /\ (n = 2 => x = Num(i))
    <3>1. CASE s[i] = 0
      BY <1>7, <1>9, <1>23, <2>1, <3>1
    <3>2. CASE s[i] = 1
      BY <1>7, <1>9, <1>23, <2>1, <3>2
    <3>. QED BY <1>23, <3>1, <3>2
  <2>3. Grows(text, x, text2)
    BY <1>11, <2>2, OneToken, Zenon
  <2>4. Tally(text2, r, [s EXCEPT ![i] = n])
    BY <1>17, <2>1, <2>2, <2>3, TallyNumber
  <2>. QED BY <1>20, <2>1, <2>4
<1>. QED BY <1>4, <1>21, <1>22, <1>23

(* A child exits.                                                          *)
LEMMA YieldExits ==
  ASSUME TypesOK, Family, program = "yield", NEW k \in 0 .. 2 * CHILDREN,
         NEW kid \in [Ids -> Pid \cup {NoPid}], NEW r \in [Ids -> 0 .. ROUNDS],
         NEW s \in [Ids -> 0 .. 2], marked = 0, YieldingAt(k, kid, r, s),
         NEW i \in Ids, kid[i] # NoPid, status[kid[i]] = "live", r[i] = ROUNDS,
         Step(kid[i])
  PROVE  Yielding' /\ Family'
<1>1. /\ Main \in Pid /\ todo \in [Pid -> Seq(CallSet)] /\ program \in Programs
      /\ status \in [Pid -> {"free", "live", "zombie"}] /\ parent \in [Pid -> Pid \cup {NoPid}]
      /\ NoPid \notin Pid /\ Pid \subseteq Int /\ k \in Int /\ i \in Int
  BY PidAssumption DEF TypesOK, ProcTypeOK, NoPid, Ids
<1>2. /\ todo[Main] = MainLeft(k) /\ KidsOK(k, kid, r, s) /\ Tally(console, r, s)
      /\ k >= CHILDREN => Cardinality(There(kid)) <= 2 * CHILDREN - k
  BY DEF YieldingAt
<1>3. PICK c \in Pid :
        /\ c = kid[i] /\ c # Main /\ parent[c] = Main /\ status[c] = "live" /\ Step(c)
        /\ todo[c] = Left(i, c, ROUNDS, 0) /\ s[i] = 0 /\ i < k /\ c \in Int
  <2>1. k \in Int /\ KidsOK(k, kid, r, s)
    BY <1>1, <1>2
  <2>2. /\ kid[i] \in Pid \ {Main} /\ parent[kid[i]] = Main /\ i < k
        /\ status[kid[i]] = "live" => todo[kid[i]] = Left(i, kid[i], r[i], s[i])
        /\ r[i] = ROUNDS => s[i] = 0
    <3>1. KidIsThere(i, k, kid[i], r[i], s[i])
      BY <2>1, KidThere, Zenon
    <3>. QED BY <3>1 DEF KidIsThere
  <2>. QED BY <1>1, <2>2
<1>4. ExitProcess(c)
  <2>1. todo[c] = exit(0)
    BY <1>1, <1>3, ChildLeft
  <2>2. Head(todo[c]).op = "exit"
    BY <2>1, ExitHead
  <2>. QED BY <1>3, <2>2, Steps
<1>5. /\ todo' = [todo EXCEPT ![c] = <<>>]
      /\ UNCHANGED <<program, whole, console, failed, marked>>
  BY <1>4 DEF ExitProcess
<1>6. /\ status' = [q \in Pid |->
                  IF q = c THEN IF parent[c] = NoPid THEN "free" ELSE "zombie"
                  ELSE IF parent[q] = c /\ status[q] = "zombie" THEN "free"
                  ELSE status[q]]
      /\ parent' = [q \in Pid |-> IF parent[q] = c THEN NoPid ELSE parent[q]]
  BY <1>4 DEF ExitProcess, Exit
<1>7. \A q \in Pid : parent[q] # c /\ parent[q] \in {NoPid, Main}
  BY <1>1, <1>3 DEF Family
<1>8. /\ status'[c] = "zombie" /\ todo'[c] = <<>> /\ \A q \in Pid : parent'[q] = parent[q]
      /\ \A q \in Pid \ {c} : status'[q] = status[q] /\ todo'[q] = todo[q]
  BY <1>1, <1>3, <1>5, <1>6, <1>7
<1>9. Family'
  BY <1>1, <1>3, <1>8 DEF Family
<1>10. /\ \A j, l \in Ids : kid[j] = kid[l] /\ kid[j] # NoPid => j = l
       /\ \A p \in Pid \ {Main} : Unused(p) \/ \E j \in Ids : kid[j] = p
       /\ \A j \in Ids : KidOK(j, k, kid[j], r[j], s[j])
       /\ failed => \E j \in Ids : j < k /\ kid[j] = NoPid /\ r[j] = 0
  BY <1>2 DEF KidsOK
<1>11. ASSUME NEW j \in Ids PROVE KidOK(j, k, kid[j], r[j], s[j])'
  <2>1. CASE j = i
    <3>1. ~(i >= k) /\ c # NoPid /\ s[i] < Pieces'
      BY <1>1, <1>3 DEF Pieces
    <3>2. KidOK(i, k, c, ROUNDS, 0)'
      BY <1>3, <1>8, <3>1 DEF KidOK
    <3>. QED BY <1>3, <2>1, <3>2
  <2>2. CASE j # i
    <3>1. kid[j] # NoPid => /\ status'[kid[j]] = status[kid[j]]
                            /\ parent'[kid[j]] = parent[kid[j]]
                            /\ todo'[kid[j]] = todo[kid[j]]
      <4>1. ASSUME kid[j] # NoPid PROVE kid[j] \in Pid \ {c}
        BY <1>3, <1>10, <2>2, <4>1
      <4>. QED BY <1>8, <4>1
    <3>2. k \in Nat /\ k \in {k, k + 1} /\ KidOK(j, k, kid[j], r[j], s[j])
      BY <1>10
    <3>. QED BY <1>5, <3>1, <3>2, KidStays
  <2>. QED BY <2>1, <2>2
<1>12. \A p \in Pid \ {Main} : Unused(p)' \/ \E j \in Ids : kid[j] = p
  <2>1. ASSUME NEW p \in Pid \ {Main}, p # c PROVE Unused(p)' \/ \E j \in Ids : kid[j] = p
    BY <1>8, <1>10, <2>1 DEF Unused
  <2>. QED BY <1>3, <2>1
<1>13. KidsOK(k, kid, r, s)'
  BY <1>5, <1>10, <1>11, <1>12 DEF KidsOK
<1>14. todo'[Main] = MainLeft(k)'
  BY <1>1, <1>2, <1>3, <1>5, <1>8, SameLeft
<1>15. Tally(console, r, s)'
  BY <1>2, <1>5
<1>16. YieldingAt(k, kid, r, s)'
  BY <1>2, <1>13, <1>14, <1>15 DEF YieldingAt
<1>17. marked' = 0
  BY <1>5
<1>. QED BY <1>9, <1>16, <1>17 DEF Yielding

(* The stages of yield.c follow each other.                                *)
LEMMA YieldSteps ==
  ASSUME TypesOK, Family, program = "yield", YieldInv, NEW p \in Pid, Step(p)
  PROVE  YieldInv' /\ Family' /\ TypesOK'
<1>1. CASE Yielded
  <2>1. YieldInv' /\ Family'
    BY <1>1, YieldedSteps DEF YieldInv
  <2>. QED BY <2>1, TypesKept
<1>2. CASE Yielding
  <2>1. marked = 0
    BY <1>2 DEF Yielding
  <2>2. PICK k \in 0 .. 2 * CHILDREN, kid \in [Ids -> Pid \cup {NoPid}],
             r \in [Ids -> 0 .. ROUNDS], s \in [Ids -> 0 .. 2] : YieldingAt(k, kid, r, s)
    BY <1>2 DEF Yielding
  <2>3. k \in Int /\ CHILDREN \in Nat
    BY ConsoleAssumption
  <2>4. CASE p = Main /\ k < CHILDREN
    <3>1. k \in 0 .. CHILDREN - 1
      BY <2>3, <2>4
    <3>2. Yielding' /\ Family'
      BY <2>1, <2>2, <2>4, <3>1, YieldForks
    <3>. QED BY <3>2, TypesKept DEF YieldInv
  <2>5. CASE p = Main /\ k >= CHILDREN /\ k < 2 * CHILDREN
    <3>1. k \in CHILDREN .. 2 * CHILDREN - 1
      BY <2>3, <2>5
    <3>2. Yielding' /\ Family'
      BY <2>1, <2>2, <2>5, <3>1, YieldWaits
    <3>. QED BY <3>2, TypesKept DEF YieldInv
  <2>6. CASE p = Main /\ k = 2 * CHILDREN
    <3>1. Yielded
      BY <2>1, <2>2, <2>6, YieldEnds
    <3>2. Yielded' /\ Family'
      BY <3>1, YieldedSteps
    <3>. QED BY <3>2, TypesKept DEF YieldInv
  <2>7. CASE p # Main
    <3>1. todo[p] # <<>>
      BY Steps
    <3>2. KidsOK(k, kid, r, s)
      BY <2>2 DEF YieldingAt
    <3>3. PICK i \in Ids : kid[i] = p
      BY <2>7, <3>1, <3>2 DEF KidsOK, Unused
    <3>4. p # NoPid
      BY PidAssumption DEF NoPid
    <3>5. status[p] = "live"
      <4>1. KidIsThere(i, k, kid[i], r[i], s[i])
        <5>1. k \in Int
          OBVIOUS
        <5>. QED BY <3>2, <3>3, <3>4, <5>1, KidThere, Zenon
      <4>. QED BY <2>3, <3>1, <3>3, <4>1 DEF KidIsThere
    <3>6. Yielding' /\ Family'
      <4>1. CASE r[i] = ROUNDS
        BY <2>1, <2>2, <3>3, <3>4, <3>5, <4>1, YieldExits
      <4>2. CASE r[i] # ROUNDS
        BY <2>1, <2>2, <3>3, <3>4, <3>5, <4>2, YieldWrites
      <4>. QED BY <4>1, <4>2
    <3>. QED BY <3>6, TypesKept DEF YieldInv
  <2>. QED BY <2>3, <2>4, <2>5, <2>6, <2>7
<1>. QED BY <1>1, <1>2 DEF YieldInv

-----------------------------------------------------------------------------
(* The invariant holds.                                                    *)

(* Nothing has been printed in the beginning.                              *)
LEMMA TallyNone == Tally(<<>>, [i \in Ids |-> 0], [i \in Ids |-> 0])
<1>1. PICK r : r = [i \in Ids |-> 0]
  OBVIOUS
<1>2. LineStarts(<<>>) = {} /\ Complete(r) = {} /\ LastIsNL(<<>>)
  <2>1. LineStarts(<<>>) = {}
    BY DEF LineStarts
  <2>2. Complete(r) = {}
    BY <1>1 DEF Complete
  <2>. QED BY <2>1, <2>2 DEF LastIsNL
<1>3. \A token : Places(<<>>, token) = {}
  BY DEF Places
<1>4. Cardinality({}) = 0
  BY FS_EmptySet
<1>5. \A i \in Ids : r[i] = 0
  BY <1>1
<1>6. Tally(<<>>, r, r)
  <2>1. PICK e : e = <<>>
    OBVIOUS
  <2>2. ASSUME NEW i \in Ids
        PROVE  Cardinality(Places(e, Num(i))) >= r[i] + (IF r[i] = 2 THEN 1 ELSE 0)
    <3>1. Cardinality(Places(e, Num(i))) = 0
      BY <1>3, <1>4, <2>1, Zenon
    <3>2. r[i] = 0
      BY <1>5
    <3>. QED BY <3>1, <3>2
  <2>3. Cardinality(LineStarts(e)) = 0 /\ Cardinality(Complete(r)) = 0 /\ LastIsNL(e)
    BY <1>2, <1>4, <2>1, Zenon
  <2>4. Tally(e, r, r)
    BY <2>2, <2>3 DEF Tally
  <2>. QED BY <2>1, <2>4, Zenon
<1>. QED BY <1>1, <1>6

(* No child has been forked in the beginning.                              *)
LEMMA YieldBegins ==
  ASSUME Init, TypesOK, program = "yield"
  PROVE  Yielding
<1>1. /\ todo[Main] = main /\ console = <<>> /\ marked = 0 /\ failed = FALSE
      /\ \A p \in Pid \ {Main} : Unused(p)
  BY PidAssumption DEF Init, ProcInit, Unused
<1>2. /\ CHILDREN \in Nat \ {0} /\ ROUNDS \in Nat \ {0} /\ 0 \in 0 .. 2 * CHILDREN
      /\ Ids \subseteq Nat /\ Pieces \in {1, 3}
  BY ConsoleAssumption DEF Ids, Pieces
<1>3. PICK kid, r : kid = [i \in Ids |-> NoPid] /\ r = [i \in Ids |-> 0]
  OBVIOUS
<1>4. kid \in [Ids -> Pid \cup {NoPid}] /\ r \in [Ids -> 0 .. ROUNDS] /\ r \in [Ids -> 0 .. 2]
  BY <1>2, <1>3
<1>5. \A i \in Ids : KidOK(i, 0, kid[i], r[i], r[i])
  BY <1>1, <1>2, <1>3 DEF KidOK
<1>6. KidsOK(0, kid, r, r)
  BY <1>1, <1>3, <1>5 DEF KidsOK
<1>7. todo[Main] = MainLeft(0)
  BY <1>1, MainLefts DEF TypesOK
<1>8. YieldingAt(0, kid, r, r)
  BY <1>1, <1>2, <1>3, <1>6, <1>7, TallyNone DEF YieldingAt
<1>. QED BY <1>1, <1>2, <1>4, <1>8 DEF Yielding

(* The invariant holds in the beginning, and every step keeps it.          *)
LEMMA ConsoleBegins == Init => ConsoleInv
<1> SUFFICES ASSUME Init PROVE ConsoleInv
  OBVIOUS
<1>1. /\ \A p \in Pid : parent[p] = NoPid
      /\ \A p \in Pid : status[p] = IF p = Main THEN "live" ELSE "free"
      /\ \A p \in Pid : todo[p] = IF p = Main THEN main ELSE <<>>
      /\ program \in Programs /\ whole \in BOOLEAN /\ console = <<>> /\ buffer = <<>>
      /\ writers = {} /\ cpid = 0 /\ failed = FALSE /\ marked = 0 /\ Main \in Pid
  BY PidAssumption DEF Init, ProcInit, NoPid
<1>2. /\ program \in Simple => main = <<Call("fork", 0)>>
      /\ program = "pipe" => main = <<Call("pipe", 0), Call("fork", 0)>>
  BY DEF main, Simple
<1>3. main \in Seq(CallSet) /\ main # <<>>
  <2>1. program \in Simple \/ program = "pipe" \/ program = "yield"
    BY <1>1, SixPrograms DEF Simple
  <2>2. Call("fork", 0) \in CallSet /\ Call("pipe", 0) \in CallSet
    BY CallTypes
  <2>3. CASE program = "yield"
    <3>1. Len(main) = 2 * CHILDREN + 4 /\ main \in Seq(CallSet) /\ CHILDREN \in Nat
      BY <1>1, <2>3, YieldMain, ConsoleAssumption
    <3>. QED BY <3>1
  <2>4. CASE program = "pipe"
    <3>1. PICK a, b \in CallSet : a = Call("pipe", 0) /\ b = Call("fork", 0)
      BY <2>2
    <3>2. <<a, b>> \in Seq(CallSet) /\ <<a, b>> # <<>>
      OBVIOUS
    <3>. QED BY <1>2, <2>4, <3>1, <3>2
  <2>5. CASE program \in Simple
    <3>1. PICK a \in CallSet : a = Call("fork", 0)
      BY <2>2
    <3>2. <<a>> \in Seq(CallSet) /\ <<a>> # <<>>
      OBVIOUS
    <3>. QED BY <1>2, <2>5, <3>1, <3>2
  <2>. QED BY <2>1, <2>3, <2>4, <2>5
<1>4. TypesOK
  <2>1. ProcTypeOK
    BY DEF Init, ProcInit, ProcTypeOK
  <2>2. todo \in [Pid -> Seq(CallSet)]
    BY <1>3 DEF Init
  <2>3. <<>> \in Seq(Tokens) /\ 0 \in Int /\ 0 \in Nat
    OBVIOUS
  <2>. QED BY <1>1, <2>1, <2>2, <2>3 DEF TypesOK
<1>5. Family
  BY <1>1, <1>3 DEF Family
<1>6. Alone
  BY <1>1 DEF Alone, Unused
<1>7. program \in Simple => SimpleInv
  BY <1>1, <1>2, <1>6 DEF SimpleInv, Beginning
<1>8. program = "pipe" => PipeInv
  BY <1>1, <1>2, <1>6 DEF PipeInv, Opening
<1>9. program = "yield" => YieldInv
  BY <1>4, YieldBegins DEF YieldInv
<1>. QED BY <1>4, <1>5, <1>7, <1>8, <1>9 DEF ConsoleInv

(* Each program has its stages.                                            *)
LEMMA ConsoleSteps ==
  ASSUME ConsoleInv, NEW p \in Pid, Step(p)
  PROVE  ConsoleInv'
<1>1. TypesOK /\ Family
  BY DEF ConsoleInv
<1>2. program' = program
  <2>1. program \in Programs
    BY <1>1 DEF TypesOK
  <2>. QED BY DEF Step, Write, ForkChild, ForkError, Wait, ExitProcess, Pipe, Put, Close, Copy
<1>3. program \in Simple \/ program = "pipe" \/ program = "yield"
  <2>1. program \in Programs
    BY <1>1 DEF TypesOK
  <2>. QED BY <2>1, SixPrograms DEF Simple
<1>4. /\ program \in Simple => program # "pipe" /\ program # "yield"
      /\ program = "pipe" => program # "yield"
  BY DEF Simple
<1>5. CASE program \in Simple
  <2>1. SimpleInv' /\ Family' /\ TypesOK'
    BY <1>1, <1>5, SimpleSteps DEF ConsoleInv
  <2>. QED BY <1>2, <1>4, <1>5, <2>1 DEF ConsoleInv
<1>6. CASE program = "pipe"
  <2>1. PipeInv' /\ Family' /\ TypesOK'
    BY <1>1, <1>6, PipeSteps DEF ConsoleInv
  <2>2. program' \notin Simple /\ program' = "pipe" /\ program' # "yield"
    BY <1>2, <1>4, <1>6
  <2>. QED BY <2>1, <2>2 DEF ConsoleInv
<1>7. CASE program = "yield"
  <2>1. YieldInv' /\ Family' /\ TypesOK'
    BY <1>1, <1>7, YieldSteps DEF ConsoleInv
  <2>2. program' \notin Simple /\ program' # "pipe"
    BY <1>2, <1>4, <1>7
  <2>. QED BY <2>1, <2>2 DEF ConsoleInv
<1>. QED BY <1>3, <1>5, <1>6, <1>7

(* Nothing changes when nothing does.                                      *)
LEMMA SameStages ==
  ASSUME ConsoleInv,
         UNCHANGED <<status, parent, code, program, whole, todo, console, buffer, writers, cpid,
                     failed, marked>>
  PROVE  ConsoleInv'
<1>1. /\ status' = status /\ parent' = parent /\ code' = code /\ program' = program
      /\ whole' = whole /\ todo' = todo /\ console' = console /\ buffer' = buffer
      /\ writers' = writers /\ cpid' = cpid /\ failed' = failed /\ marked' = marked
      /\ (failed' <=> failed) /\ (whole' <=> whole)
  OBVIOUS
<1>2. (TypesOK' <=> TypesOK) /\ (Family' <=> Family)
  BY <1>1, Zenon DEF TypesOK, ProcTypeOK, Family
<1>3. /\ \A p : (Unused(p)' <=> Unused(p)) /\ (Alone' <=> Alone)
      /\ \A c : (OneChild(c)' <=> OneChild(c))
  BY <1>1, Zenon DEF Unused, Alone, OneChild
<1>4. /\ \A p, text, after : (Prints(p, text, after)' <=> Prints(p, text, after))
      /\ \A p, after : (Awaits(p, after)' <=> Awaits(p, after))
      /\ \A text, word : (AfterMark(text, word)' <=> AfterMark(text, word))
      /\ \A who : (Waits(who)' <=> Waits(who))
  BY <1>1, Zenon DEF Prints, Awaits, AfterMark, Waits
<1>5. /\ ChildText' = ChildText /\ ChildCode' = ChildCode /\ \A r : ParentText(r)' = ParentText(r)
      /\ \A w : Marker(w)' = Marker(w) /\ WaitAndPass' = WaitAndPass /\ CopyAndPass' = CopyAndPass
  BY <1>1, SameTexts, SamePass
<1>6. /\ \A p, text, x : (PrintsAndExits(p, text, x)' <=> PrintsAndExits(p, text, x))
      /\ \A text, word : (Reports(text, word)' <=> Reports(text, word))
  BY <1>1, <1>4, <1>5, Zenon DEF PrintsAndExits, Reports
<1>7. SimpleInv => SimpleInv'
  <2>1. (Beginning' <=> Beginning)
    BY <1>1, <1>3, Zenon DEF Beginning
  <2>2. Waiting => Waiting'
    BY <1>1, <1>3, <1>4, <1>5, Zenon DEF Waiting
  <2>3. (Reporting' <=> Reporting)
    BY <1>1, <1>3, <1>5, <1>6, Zenon DEF Reporting
  <2>4. Failing => Failing'
    BY <1>1, <1>3, <1>4, <1>5, <1>6, Zenon DEF Failing
  <2>. QED BY <2>1, <2>2, <2>3, <2>4 DEF SimpleInv
<1>8. PipeInv => PipeInv'
  <2>1. (Opening' <=> Opening)
    BY <1>1, <1>3, Zenon DEF Opening
  <2>2. PipeFailing => PipeFailing'
    BY <1>1, <1>3, <1>6, Zenon DEF PipeFailing
  <2>3. \A c : InOrder(c) => InOrder(c)'
    <3>1. \A c, n : MainRest(c, n)' = MainRest(c, n) /\ ChildRest(c, n)' = ChildRest(c, n)
      BY <1>1, SameRests
    <3>2. SUFFICES ASSUME NEW c, InOrder(c) PROVE InOrder(c)'
      OBVIOUS
    <3> DEFINE Shown(n, m, shown, held) ==
                 \E intro \in Intros(c, n, m), part \in Seq(Tokens) :
                   /\ part \o held = IF n >= 3 THEN Data ELSE <<>>
                   /\ m = 1 => part = <<>>
                   /\ shown = IF m = 5 THEN (intro \o part) \o <<NL>> ELSE intro \o part
    <3>3. PICK n \in 1 .. 5, m \in 1 .. 5 :
            /\ todo[c] = ChildRest(c, n) /\ todo[Main] = MainRest(c, m)
            /\ n <= 3 => c \in writers
            /\ m >= 4 => n >= 4 /\ buffer = <<>>
            /\ Shown(n, m, console, buffer)
      BY <3>2, Zenon DEF InOrder
    <3>4. /\ todo'[c] = ChildRest(c, n)' /\ todo'[Main] = MainRest(c, m)'
          /\ n <= 3 => c \in writers'
          /\ m >= 4 => n >= 4 /\ buffer' = <<>>
          /\ Shown(n, m, console', buffer')
      <4> HIDE DEF Shown
      <4>. QED BY <1>1, <3>1, <3>3, Zenon
    <3>. QED BY <3>4, Zenon DEF InOrder
  <2>4. Sharing => Sharing'
    BY <1>1, <1>3, <1>4, <1>5, <2>3, Zenon DEF Sharing
  <2>5. Passing => Passing'
    BY <1>1, <1>3, <1>6, Zenon DEF Passing
  <2>. QED BY <2>1, <2>2, <2>4, <2>5 DEF PipeInv
<1>9. program = "yield" /\ YieldInv => YieldInv'
  <2> SUFFICES ASSUME program = "yield", YieldInv PROVE YieldInv'
    OBVIOUS
  <2>1. /\ \A k : MainLeft(k)' = MainLeft(k)
        /\ \A i, c, r, s : Left(i, c, r, s)' = Left(i, c, r, s)
        /\ Pieces' = Pieces
    BY <1>1, SameLeft
  <2>2. \A i, k, c, r, s : KidOK(i, k, c, r, s) => KidOK(i, k, c, r, s)'
    <3> SUFFICES ASSUME NEW i, NEW k, NEW c, NEW r, NEW s, KidOK(i, k, c, r, s)
                 PROVE  KidOK(i, k, c, r, s)'
      OBVIOUS
    <3>1. Left(i, c, r, s)' = Left(i, c, r, s)
      BY <2>1
    <3>. QED BY <1>1, <2>1, <3>1 DEF KidOK
  <2>3. \A k, kid, r, s : KidsOK(k, kid, r, s) => KidsOK(k, kid, r, s)'
    BY <1>1, <1>3, <2>2, Zenon DEF KidsOK
  <2>4. \A k, kid, r, s : YieldingAt(k, kid, r, s) => YieldingAt(k, kid, r, s)'
    BY <1>1, <2>1, <2>3, Zenon DEF YieldingAt
  <2>5. Yielding => Yielding'
    BY <1>1, <2>4, Zenon DEF Yielding
  <2>6. \A text : YieldText(text) => YieldText(text)'
    BY <1>1, Zenon DEF YieldText
  <2>7. Yielded => Yielded'
    BY <1>3, <1>6, <2>6, Zenon DEF Yielded
  <2>. QED BY <2>5, <2>7 DEF YieldInv
<1>. QED BY <1>1, <1>2, <1>7, <1>8, <1>9, Zenon DEF ConsoleInv

(* Every program runs through its stages, whatever the schedule and        *)
(* whichever of the calls that may fail fails: what is printed in each     *)
(* stage and what is still to be called is what its source says (fork.c,   *)
(* wait.c, waitpid.c, clone.c, yield.c and pipe.c).                        *)
THEOREM ConsoleInductive == Spec => []ConsoleInv
<1>1. Init => ConsoleInv
  BY ConsoleBegins
<1>2. ConsoleInv /\ [Next]_vars => ConsoleInv'
  <2> SUFFICES ASSUME ConsoleInv, [Next]_vars PROVE ConsoleInv'
    OBVIOUS
  <2>1. ASSUME NEW p \in Pid, Step(p) PROVE ConsoleInv'
    BY <2>1, ConsoleSteps
  <2>2. CASE UNCHANGED vars
    <3>1. UNCHANGED <<status, parent, code, program, whole, todo, console, buffer, writers,
                      cpid, failed, marked>>
      BY <2>2 DEF vars, procVars, pipe
    <3>. QED BY <3>1, SameStages
  <2>. QED BY <2>1, <2>2 DEF Next
<1>. QED BY <1>1, <1>2, PTL DEF Spec

-----------------------------------------------------------------------------
(* The lines of a text.                                                    *)

(* How many begin before k.                                                *)
Rank(text, k) == Cardinality({j \in LineStarts(text) : j < k})

(* As many lines as places where one begins.                               *)
LEMMA StartsFinite ==
  ASSUME NEW text \in Seq(Tokens)
  PROVE  /\ LineStarts(text) \subseteq 1 .. Len(text) /\ IsFiniteSet(LineStarts(text))
         /\ Cardinality(LineStarts(text)) \in Nat
         /\ DOMAIN Lines(text) = 1 .. Cardinality(LineStarts(text))
         /\ Len(Lines(text)) = Cardinality(LineStarts(text))
<1>1. LineStarts(text) \subseteq 1 .. Len(text)
  BY DEF LineStarts
<1>2. IsFiniteSet(1 .. Len(text))
  <2>1. 1 \in Int /\ Len(text) \in Int
    OBVIOUS
  <2>. QED BY <2>1, FS_Interval
<1>3. IsFiniteSet(LineStarts(text)) /\ Cardinality(LineStarts(text)) \in Nat
  BY <1>1, <1>2, FS_Subset, FS_CardinalityType
<1>4. DOMAIN Lines(text) = 1 .. Cardinality(LineStarts(text))
  BY Zenon DEF Lines
<1>. QED BY <1>1, <1>3, <1>4

(* No two lines have the same number, and every number is that of a line.  *)
LEMMA Ranks ==
  ASSUME NEW text \in Seq(Tokens)
  PROVE  /\ \A k \in LineStarts(text) : Rank(text, k) \in 0 .. Cardinality(LineStarts(text)) - 1
         /\ \A j, k \in LineStarts(text) : Rank(text, j) = Rank(text, k) => j = k
         /\ \A n \in 0 .. Cardinality(LineStarts(text)) - 1 :
              \E k \in LineStarts(text) : Rank(text, k) = n
<1>1. PICK S, N :
        /\ S = LineStarts(text) /\ N = Cardinality(S) /\ S \subseteq Int /\ IsFiniteSet(S)
        /\ N \in Nat
  BY StartsFinite
<1>2. ASSUME NEW k \in S
      PROVE  Rank(text, k) \in 0 .. N - 1
  <2>1. PICK A : A = {j \in S : j < k}
    OBVIOUS
  <2>2. A \subseteq S /\ k \notin A /\ k \in Int
    BY <1>1, <2>1
  <2>3. IsFiniteSet(A) /\ Cardinality(A) \in Nat /\ Cardinality(A) <= N /\ A # S
    BY <1>1, <2>2, FS_Subset, FS_CardinalityType
  <2>4. Cardinality(A) # N
    BY <1>1, <2>2, <2>3, FS_Subset
  <2>. QED BY <1>1, <2>1, <2>3, <2>4 DEF Rank
<1>3. ASSUME NEW j \in S, NEW k \in S, j < k
      PROVE  Rank(text, j) < Rank(text, k)
  <2>1. PICK A, B : A = {i \in S : i < j} /\ B = {i \in S : i < k}
    OBVIOUS
  <2>2. A \subseteq B /\ j \in B /\ j \notin A /\ B \subseteq S
    BY <1>1, <1>3, <2>1
  <2>3. IsFiniteSet(B) /\ Cardinality(B) \in Nat
    BY <1>1, <2>2, FS_Subset, FS_CardinalityType
  <2>4. IsFiniteSet(A) /\ Cardinality(A) \in Nat /\ Cardinality(A) <= Cardinality(B)
        /\ Cardinality(A) # Cardinality(B)
    BY <2>2, <2>3, FS_Subset, FS_CardinalityType
  <2>. QED BY <1>1, <2>1, <2>3, <2>4 DEF Rank
<1>4. \A j, k \in S : Rank(text, j) = Rank(text, k) => j = k
  <2> SUFFICES ASSUME NEW j \in S, NEW k \in S, Rank(text, j) = Rank(text, k), j # k PROVE FALSE
    OBVIOUS
  <2>1. j < k \/ k < j
    BY <1>1
  <2>2. Rank(text, j) \in Int /\ Rank(text, k) \in Int
    BY <1>2
  <2>. QED BY <1>3, <2>1, <2>2
<1>5. PICK f : f = [k \in S |-> Rank(text, k)]
  OBVIOUS
<1>6. f \in Injection(S, 0 .. N - 1)
  BY <1>2, <1>4, <1>5 DEF Injection, IsInjective
<1>7. IsFiniteSet(0 .. N - 1) /\ Cardinality(0 .. N - 1) = N
  <2>1. 0 \in Int /\ N - 1 \in Int /\ N \in Nat
    BY <1>1
  <2>2. IsFiniteSet(0 .. N - 1)
        /\ Cardinality(0 .. N - 1) = IF 0 > N - 1 THEN 0 ELSE (N - 1) - 0 + 1
    BY <2>1, FS_Interval
  <2>. QED BY <2>1, <2>2
<1>8. f \in Surjection(S, 0 .. N - 1)
  BY <1>1, <1>6, <1>7, FS_Injection
<1>9. \A n \in 0 .. N - 1 : \E k \in S : Rank(text, k) = n
  BY <1>5, <1>8 DEF Surjection
<1>. QED BY <1>1, <1>2, <1>4, <1>9

(* The line that begins at k, and where it ends.                           *)
LEMMA LineAt ==
  ASSUME NEW text \in Seq(Tokens), NEW k \in LineStarts(text), NEW e \in k .. Len(text),
         EndsLine(text, k, e)
  PROVE  /\ Rank(text, k) + 1 \in DOMAIN Lines(text)
         /\ Lines(text)[Rank(text, k) + 1] = SubSeq(text, k, e)
<1>1. PICK S, N :
        /\ S = LineStarts(text) /\ N = Cardinality(S) /\ S \subseteq 1 .. Len(text)
        /\ N \in Nat /\ DOMAIN Lines(text) = 1 .. N
  BY StartsFinite
<1>2. PICK l \in 1 .. N : l = Rank(text, k) + 1 /\ l - 1 = Rank(text, k)
  <2>1. PICK m \in 0 .. N - 1 : m = Rank(text, k)
    BY <1>1, Ranks
  <2>2. m + 1 \in 1 .. N /\ (m + 1) - 1 = m
    BY <1>1
  <2>. QED BY <2>1, <2>2
<1>3. k = CHOOSE j \in S : Rank(text, j) = l - 1
  <2>1. \A j \in S : Rank(text, j) = l - 1 => j = k
    BY <1>1, <1>2, Ranks
  <2>. QED BY <1>1, <1>2, <2>1, Zenon
<1>4. ASSUME NEW d \in k .. Len(text), EndsLine(text, k, d)
      PROVE  d = e
  <2>1. k \in Int /\ d \in Int /\ e \in Int /\ Len(text) \in Int
    BY <1>1
  <2>2. ~(d < e)
    <3> SUFFICES ASSUME d < e PROVE FALSE
      OBVIOUS
    <3>1. d + 1 \in k .. e /\ d # Len(text)
      BY <2>1
    <3>. QED BY <1>4, <3>1 DEF EndsLine
  <2>3. ~(e < d)
    <3> SUFFICES ASSUME e < d PROVE FALSE
      OBVIOUS
    <3>1. e + 1 \in k .. d /\ e # Len(text)
      BY <2>1
    <3>. QED BY <1>4, <3>1 DEF EndsLine
  <2>. QED BY <2>1, <2>2, <2>3
<1>5. e = CHOOSE d \in k .. Len(text) : EndsLine(text, k, d)
  BY <1>4, Zenon
<1>6. Lines(text)[l] = SubSeq(text, k, e)
  <2> DEFINE Line(j) == SubSeq(text, j, CHOOSE d \in j .. Len(text) : EndsLine(text, j, d))
  <2>1. Lines(text) = [i \in 1 .. Cardinality(LineStarts(text)) |->
                         Line(CHOOSE j \in LineStarts(text) : Rank(text, j) = i - 1)]
    BY Zenon DEF Lines, Rank
  <2>2. l \in 1 .. Cardinality(LineStarts(text))
    BY <1>1
  <2>3. Lines(text)[l] = Line(CHOOSE j \in S : Rank(text, j) = l - 1)
    <3> HIDE DEF Line
    <3>. QED BY <1>1, <2>1, <2>2, Zenon
  <2>4. Line(k) = SubSeq(text, k, e)
    BY <1>5, Zenon
  <2> HIDE DEF Line
  <2>. QED BY <1>3, <2>3, <2>4, Zenon
<1>. QED BY <1>1, <1>2, <1>6

(* The first two lines of a text: they end before b + 1 and d + 1.         *)
LEMMA TwoLines ==
  ASSUME NEW text \in Seq(Tokens), NEW b \in Int, NEW d \in Int,
         1 <= b, b + 2 <= d, d < Len(text), text[b + 1] = NL, text[d + 1] = NL,
         \A x \in 1 .. d : x # b + 1 => text[x] # NL
  PROVE  /\ {j \in LineStarts(text) : j <= d + 1} = {1, b + 2}
         /\ 1 \in DOMAIN Lines(text) /\ Lines(text)[1] = SubSeq(text, 1, b)
         /\ 2 \in DOMAIN Lines(text) /\ Lines(text)[2] = SubSeq(text, b + 2, d)
<1>1. PICK n \in Nat : n = Len(text) /\ DOMAIN text = 1 .. n
  OBVIOUS
<1>2. 1 \in LineStarts(text) /\ b + 2 \in LineStarts(text)
  <2>1. 1 \in DOMAIN text /\ b + 2 \in DOMAIN text /\ (b + 2) - 1 = b + 1
    BY <1>1
  <2>2. text[1] # NL /\ text[b + 2] # NL
    OBVIOUS
  <2>. QED BY <2>1, <2>2 DEF LineStarts
<1>3. ASSUME NEW j \in LineStarts(text), j <= d + 1
      PROVE  j = 1 \/ j = b + 2
  <2>1. j \in 1 .. n /\ text[j] # NL /\ (j = 1 \/ text[j - 1] = NL)
    BY <1>1 DEF LineStarts
  <2>2. ASSUME j # 1 PROVE j = b + 2
    <3>1. j - 1 \in 1 .. d
      BY <1>1, <1>3, <2>1, <2>2
    <3>2. text[j - 1] = NL
      BY <2>1, <2>2
    <3>3. j - 1 = b + 1
      BY <3>1, <3>2
    <3>. QED BY <2>1, <3>3
  <2>. QED BY <2>2
<1>4. {j \in LineStarts(text) : j <= d + 1} = {1, b + 2}
  BY <1>2, <1>3
<1>5. Rank(text, 1) = 0
  <2>1. {j \in LineStarts(text) : j < 1} = {}
    BY DEF LineStarts
  <2>. QED BY <2>1, FS_EmptySet DEF Rank
<1>6. Rank(text, b + 2) = 1
  <2>1. \A j \in LineStarts(text) : j \in Int
    BY DEF LineStarts
  <2>2. {j \in LineStarts(text) : j < b + 2} = {1}
    BY <1>2, <1>3, <2>1
  <2>. QED BY <2>2, FS_Singleton DEF Rank
<1>7. EndsLine(text, 1, b) /\ b \in 1 .. Len(text)
  BY <1>1 DEF EndsLine
<1>8. EndsLine(text, b + 2, d) /\ d \in b + 2 .. Len(text)
  BY <1>1 DEF EndsLine
<1>9. 0 + 1 = 1 /\ 1 + 1 = 2
  OBVIOUS
<1>10. 1 \in DOMAIN Lines(text) /\ Lines(text)[1] = SubSeq(text, 1, b)
  BY <1>2, <1>5, <1>7, <1>9, LineAt, Zenon
<1>11. 2 \in DOMAIN Lines(text) /\ Lines(text)[2] = SubSeq(text, b + 2, d)
  BY <1>2, <1>6, <1>8, <1>9, LineAt, Zenon
<1>. QED BY <1>4, <1>10, <1>11

(* The first three.                                                        *)
LEMMA ThreeLines ==
  ASSUME NEW text \in Seq(Tokens), NEW b \in Int, NEW d \in Int, NEW g \in Int,
         1 <= b, b + 2 <= d, d + 2 <= g, g < Len(text),
         text[b + 1] = NL, text[d + 1] = NL, text[g + 1] = NL,
         \A x \in 1 .. g : x # b + 1 /\ x # d + 1 => text[x] # NL
  PROVE  /\ 1 \in DOMAIN Lines(text) /\ Lines(text)[1] = SubSeq(text, 1, b)
         /\ 2 \in DOMAIN Lines(text) /\ Lines(text)[2] = SubSeq(text, b + 2, d)
         /\ 3 \in DOMAIN Lines(text) /\ Lines(text)[3] = SubSeq(text, d + 2, g)
<1>1. PICK n \in Nat : n = Len(text) /\ DOMAIN text = 1 .. n
  OBVIOUS
<1>2. /\ {j \in LineStarts(text) : j <= d + 1} = {1, b + 2}
      /\ 1 \in DOMAIN Lines(text) /\ Lines(text)[1] = SubSeq(text, 1, b)
      /\ 2 \in DOMAIN Lines(text) /\ Lines(text)[2] = SubSeq(text, b + 2, d)
  <2>1. d < Len(text) /\ \A x \in 1 .. d : x # b + 1 => text[x] # NL
    BY <1>1
  <2>. QED BY <2>1, TwoLines
<1>3. d + 2 \in LineStarts(text)
  <2>1. d + 2 \in DOMAIN text /\ (d + 2) - 1 = d + 1
    BY <1>1
  <2>2. text[d + 2] # NL
    OBVIOUS
  <2>. QED BY <2>1, <2>2 DEF LineStarts
<1>4. Rank(text, d + 2) = 2
  <2>1. \A j \in LineStarts(text) : j \in Int
    BY DEF LineStarts
  <2>2. {j \in LineStarts(text) : j < d + 2} = {j \in LineStarts(text) : j <= d + 1}
    BY <2>1
  <2>3. IsFiniteSet({1}) /\ Cardinality({1}) = 1
    BY FS_Singleton
  <2>4. Cardinality({1} \cup {b + 2}) = 1 + 1
    <3>1. b + 2 \notin {1}
      OBVIOUS
    <3>. QED BY <2>3, <3>1, FS_AddElement
  <2>5. {1} \cup {b + 2} = {1, b + 2}
    OBVIOUS
  <2>6. {j \in LineStarts(text) : j < d + 2} = {1} \cup {b + 2}
    BY <1>2, <2>2, <2>5, Zenon
  <2>7. 1 + 1 = 2
    OBVIOUS
  <2>. QED BY <2>4, <2>6, <2>7, Zenon DEF Rank
<1>5. EndsLine(text, d + 2, g) /\ g \in d + 2 .. Len(text)
  BY <1>1 DEF EndsLine
<1>6. 2 + 1 = 3
  OBVIOUS
<1>7. 3 \in DOMAIN Lines(text) /\ Lines(text)[3] = SubSeq(text, d + 2, g)
  BY <1>3, <1>4, <1>5, <1>6, LineAt, Zenon
<1>. QED BY <1>2, <1>7

(* Lines of one token and of two.                                          *)
LEMMA ShortLines ==
  ASSUME NEW text \in Seq(Tokens), NEW k \in 1 .. Len(text)
  PROVE  /\ SubSeq(text, k, k) = <<text[k]>>
         /\ k + 1 <= Len(text) => SubSeq(text, k, k + 1) = <<text[k], text[k + 1]>>
<1>1. PICK n \in Nat : n = Len(text) /\ k \in 1 .. n /\ \A x \in 1 .. n : text[x] \in Tokens
  OBVIOUS
<1>2. SubSeq(text, k, k) = <<text[k]>>
  <2>1. PICK s, t : s = SubSeq(text, k, k) /\ t = <<text[k]>>
    OBVIOUS
  <2>2. s \in Seq(Tokens) /\ Len(s) = 1 /\ s[1] = text[k]
    BY <1>1, <2>1
  <2>3. t \in Seq(Tokens) /\ Len(t) = 1 /\ t[1] = text[k]
    BY <1>1, <2>1
  <2>4. \A x \in 1 .. Len(s) : s[x] = t[x]
    BY <2>2, <2>3
  <2>. QED BY <2>1, <2>2, <2>3, <2>4, SeqEqual
<1>3. ASSUME k + 1 <= Len(text) PROVE SubSeq(text, k, k + 1) = <<text[k], text[k + 1]>>
  <2>1. PICK s, t : s = SubSeq(text, k, k + 1) /\ t = <<text[k], text[k + 1]>>
    OBVIOUS
  <2>2. s \in Seq(Tokens) /\ Len(s) = 2 /\ s[1] = text[k] /\ s[2] = text[k + 1]
    BY <1>1, <1>3, <2>1
  <2>3. t \in Seq(Tokens) /\ Len(t) = 2 /\ t[1] = text[k] /\ t[2] = text[k + 1]
    BY <1>1, <1>3, <2>1
  <2>4. \A x \in 1 .. Len(s) : s[x] = t[x]
    BY <2>2, <2>3
  <2>. QED BY <2>1, <2>2, <2>3, <2>4, SeqEqual
<1>. QED BY <1>2, <1>3

(* No more lines than places where one can begin.                          *)
LEMMA FewLines ==
  ASSUME NEW text \in Seq(Tokens), NEW a, NEW b, LineStarts(text) \subseteq {a, b}
  PROVE  /\ Len(Lines(text)) \in Nat /\ Len(Lines(text)) <= 2
         /\ a = b => Len(Lines(text)) <= 1
<1>1. IsFiniteSet({a}) /\ Cardinality({a}) = 1
  BY FS_Singleton
<1>2. IsFiniteSet({a} \cup {b})
      /\ Cardinality({a} \cup {b}) = IF b \in {a} THEN 1 ELSE 1 + 1
  BY <1>1, FS_AddElement
<1>3. LineStarts(text) \subseteq {a} \cup {b}
  OBVIOUS
<1>4. Cardinality(LineStarts(text)) <= Cardinality({a} \cup {b})
  BY <1>2, <1>3, FS_Subset
<1>5. Cardinality(LineStarts(text)) \in Nat /\ Len(Lines(text)) = Cardinality(LineStarts(text))
  BY StartsFinite
<1>6. Cardinality({a} \cup {b}) = IF b = a THEN 1 ELSE 2
  <2>1. CASE b = a
    <3>1. b \in {a}
      BY <2>1
    <3>. QED BY <1>2, <2>1, <3>1, Zenon
  <2>2. CASE b # a
    <3>1. b \notin {a}
      BY <2>2
    <3>2. Cardinality({a} \cup {b}) = 1 + 1
      BY <1>2, <3>1, Zenon
    <3>3. 1 + 1 = 2
      OBVIOUS
    <3>. QED BY <2>2, <3>2, <3>3, Zenon
  <2>. QED BY <2>1, <2>2
<1>7. Len(Lines(text)) \in Nat /\ Len(Lines(text)) <= IF b = a THEN 1 ELSE 2
  BY <1>4, <1>5, <1>6
<1>. QED BY <1>7

-----------------------------------------------------------------------------
(* The marker.                                                             *)

(* What is printed from the marker on ends the line.                       *)
LEMMA AfterTheMark ==
  ASSUME TypesOK, NEW text \in Seq(Tokens), NEW word \in Texts, AfterMark(text, word)
  PROVE  IsPrefix(SubSeq(console, marked + 1, Len(console)), <<program, "=", NL>>)
<1>1. PICK a, b, c, w \in Tokens : a = program /\ b = "=" /\ c = NL /\ w = word
  <2>1. program \in Tokens
    BY TokenTypes DEF TypesOK
  <2>. QED BY <2>1, TokenTypes, Zenon DEF Texts
<1>2. PICK r : r = <<a, b, c>>
  OBVIOUS
<1>3. r \in Seq(Tokens) /\ Len(r) = 3 /\ r[1] = a /\ r[2] = b /\ r[3] = c
  BY <1>2
<1>4. PICK q : console = text \o q /\ q \in {<<w>>, <<w, a>>, <<w, a, b, c>>}
  BY <1>1, Zenon DEF AfterMark
<1>5. PICK n \in 0 .. 3 : q \in Seq(Tokens) /\ Len(q) = n + 1 /\ \A j \in 1 .. n : q[j + 1] = r[j]
  <2>1. CASE q = <<w>>
    <3>1. q \in Seq(Tokens) /\ Len(q) = 0 + 1 /\ \A j \in 1 .. 0 : q[j + 1] = r[j]
      BY <2>1
    <3>. QED BY <3>1
  <2>2. CASE q = <<w, a>>
    <3>1. q \in Seq(Tokens) /\ Len(q) = 1 + 1 /\ \A j \in 1 .. 1 : q[j + 1] = r[j]
      BY <1>3, <2>2
    <3>. QED BY <3>1
  <2>3. CASE q = <<w, a, b, c>>
    <3>1. q \in Seq(Tokens) /\ Len(q) = 3 + 1 /\ \A j \in 1 .. 3 : q[j + 1] = r[j]
      BY <1>3, <2>3
    <3>. QED BY <3>1
  <2>. QED BY <1>4, <2>1, <2>2, <2>3
<1>14. PICK con, l : con = console /\ l = Len(text)
  OBVIOUS
<1>6. /\ con = console /\ con \in Seq(Tokens) /\ l \in Nat /\ l = Len(text)
      /\ Len(con) = l + (n + 1) /\ \A j \in 1 .. n + 1 : con[l + j] = q[j]
  <2>1. /\ text \o q \in Seq(Tokens) /\ Len(text \o q) = Len(text) + (n + 1)
        /\ \A j \in 1 .. n + 1 : (text \o q)[Len(text) + j] = q[j]
    BY <1>5, Joined
  <2>2. l \in Nat
    BY <1>14
  <2>. QED BY <1>4, <1>14, <2>1, <2>2, Zenon
<1>7. marked = l + 1
  <2>1. marked = Len(text) + 1
    BY Zenon DEF AfterMark
  <2>. QED BY <1>6, <2>1, Zenon
<1>8. PICK u : u = SubSeq(con, l + 2, l + (n + 1))
  OBVIOUS
<1>9. u \in Seq(Tokens) /\ Len(u) = n /\ \A j \in 1 .. n : u[j] = con[l + (j + 1)]
  <2>1. PICK a1 \in Int, b1 \in Int : a1 = l + 2 /\ b1 = l + (n + 1)
    BY <1>6
  <2>2. \A i \in a1 .. b1 : con[i] \in Tokens
    BY <1>6, <2>1
  <2>3. /\ u \in Seq(Tokens) /\ Len(u) = IF a1 <= b1 THEN b1 - a1 + 1 ELSE 0
        /\ \A j \in 1 .. b1 - a1 + 1 : u[j] = con[a1 + j - 1]
    BY <1>8, <2>1, <2>2, SubSeqProperties
  <2>4. Len(u) = n
    BY <1>6, <2>1, <2>3
  <2>5. ASSUME NEW j \in 1 .. n PROVE u[j] = con[l + (j + 1)]
    <3>1. j \in 1 .. b1 - a1 + 1 /\ a1 + j - 1 = l + (j + 1)
      BY <1>6, <2>1
    <3>. QED BY <2>3, <3>1
  <2>. QED BY <2>3, <2>4, <2>5
<1>10. \A j \in 1 .. n : u[j] = r[j]
  <2> SUFFICES ASSUME NEW j \in 1 .. n PROVE u[j] = r[j]
    OBVIOUS
  <2>1. j + 1 \in 1 .. n + 1
    OBVIOUS
  <2>. QED BY <1>5, <1>6, <1>9, <2>1
<1>11. SubSeq(u, 1, n) = SubSeq(r, 1, n)
  <2>1. PICK x, y : x = SubSeq(u, 1, n) /\ y = SubSeq(r, 1, n)
    OBVIOUS
  <2>2. x \in Seq(Tokens) /\ Len(x) = n /\ \A j \in 1 .. n : x[j] = u[j]
    BY <1>9, <2>1
  <2>3. y \in Seq(Tokens) /\ Len(y) = n /\ \A j \in 1 .. n : y[j] = r[j]
    BY <1>3, <2>1
  <2>. QED BY <1>10, <2>1, <2>2, <2>3, SeqEqual
<1>12. IsPrefix(u, r)
  BY <1>3, <1>9, <1>11 DEF IsPrefix
<1>13. (l + 1) + 1 = l + 2
  BY <1>6
<1>. QED BY <1>1, <1>2, <1>6, <1>7, <1>8, <1>12, <1>13, Zenon

(* A marker is that of a text that has been completed.                     *)
LEMMA Marked ==
  ASSUME ConsoleInv, marked > 0
  PROVE  \E text \in Seq(Tokens), word \in Texts : AfterMark(text, word)
<1>1. TypesOK /\ program \in Programs /\ marked # 0
  BY DEF ConsoleInv, TypesOK
<1>2. PICK e, p, f \in Texts : e = "END" /\ p = "PASS" /\ f = "FAIL"
  BY Zenon DEF Texts
<1>3. \A text, word : Reports(text, word) => AfterMark(text, word)
  BY <1>1, Zenon DEF Reports
<1>4. CASE program \in Simple
  <2>1. CASE Reporting
    <3>1. PICK t \in Seq(Tokens) : t = ChildText \o ParentText(cpid)
      <4>1. ChildText \in Seq(Tokens) /\ ParentText(cpid) \in Seq(Tokens)
        BY <1>1, <1>4, ChildCalls, ParentTextType DEF TypesOK, Simple
      <4>. QED BY <4>1, Joined
    <3>. QED BY <1>2, <1>3, <2>1, <3>1, Zenon DEF Reporting
  <2>2. CASE Failing
    <3>1. PICK t \in Seq(Tokens) : t = <<"clone process error.", NL>>
      BY TokenTypes, TupleTypes, Zenon DEF Texts
    <3>2. Reports(<<"clone process error.", NL>>, "END")
      BY <1>1, <2>2, Zenon DEF Failing
    <3>. QED BY <1>2, <1>3, <3>1, <3>2, Zenon
  <2>. QED BY <1>1, <1>4, <2>1, <2>2 DEF ConsoleInv, SimpleInv, Beginning, Waiting
<1>5. CASE program = "pipe"
  <2>1. CASE PipeFailing
    <3>1. PICK t \in Seq(Tokens) : t = ErrorText
      BY TokenTypes, TupleTypes, Zenon DEF Texts, ErrorText
    <3>2. Reports(ErrorText, "FAIL")
      BY <1>1, <2>1, Zenon DEF PipeFailing
    <3>. QED BY <1>2, <1>3, <3>1, <3>2, Zenon
  <2>2. CASE Passing
    BY <1>2, <1>3, <2>2, Zenon DEF Passing
  <2>. QED BY <1>1, <1>5, <2>1, <2>2 DEF ConsoleInv, PipeInv, Opening, Sharing
<1>6. CASE program = "yield"
  <2>1. Yielded
    BY <1>1, <1>6 DEF ConsoleInv, YieldInv, Yielding
  <2>. QED BY <1>2, <1>3, <2>1, Zenon DEF Yielded
<1>. QED BY <1>1, <1>4, <1>5, <1>6, SixPrograms DEF Simple

(* Nothing comes after the marker of a program but the rest of its line,   *)
(* on any schedule and whichever call fails: main() prints it when its     *)
(* children have ended, or has none (yield.c:23-26, pipe.c:43).            *)
THEOREM NothingFollowsTheMarker == Spec => []MarkerIsLast
<1>1. ConsoleInv => MarkerIsLast
  <2> SUFFICES ASSUME ConsoleInv, marked > 0
               PROVE  IsPrefix(SubSeq(console, marked + 1, Len(console)), <<program, "=", NL>>)
    BY DEF MarkerIsLast
  <2>. QED BY Marked, AfterTheMark DEF ConsoleInv
<1>. QED BY <1>1, ConsoleInductive, PTL

-----------------------------------------------------------------------------
(* What a failing call costs.                                              *)

(* What is on the console at the end, and what of it is graded.            *)
LEMMA ReportEnds ==
  ASSUME TypesOK, Ended, NEW text \in Seq(Tokens), NEW word \in Texts, Reports(text, word)
  PROVE  /\ console = text \o <<word, program, "=", NL>> /\ marked > 0
         /\ GradedLines = IF word = "END" THEN Lines(text) ELSE Lines(console)
<1>1. program \in Programs /\ todo[Main] = <<>>
  BY PidAssumption DEF TypesOK, Ended
<1>2. ~Prints(Main, text, Marker(word))
  <2> SUFFICES ASSUME Prints(Main, text, Marker(word)) PROVE FALSE
    OBVIOUS
  <2>1. PICK m \in Seq(CallSet) : m = Marker(word) /\ m # <<>>
    BY <1>1, MarkerCalls
  <2>2. PICK q \in Seq(CallSet) : todo[Main] = q \o m
    BY <2>1, Zenon DEF Prints
  <2>3. q \o m # <<>>
    BY <2>1
  <2>. QED BY <1>1, <2>2, <2>3
<1>3. AfterMark(text, word)
  BY <1>2, Zenon DEF Reports
<1>4. marked = Len(text) + 1 /\ console = text \o <<word, program, "=", NL>>
  <2>1. /\ todo[Main] # <<Call("write", <<program>>), Call("write", <<"=", NL>>), Call("exit", 0)>>
        /\ todo[Main] # <<Call("write", <<"=", NL>>), Call("exit", 0)>>
    <3>1. \A x, y, z : <<>> # <<x, y, z>> /\ <<>> # <<x, y>>
      OBVIOUS
    <3>. QED BY <1>1, <3>1, Zenon
  <2>. QED BY <1>3, <2>1, Zenon DEF AfterMark
<1>5. PICK a, b, w \in Tokens, c \in Tokens : a = program /\ b = "=" /\ w = word /\ c = NL
  <2>1. program \in Tokens
    BY <1>1, TokenTypes
  <2>. QED BY <2>1, TokenTypes, Zenon DEF Texts
<1>6. PICK con : con = console /\ con = text \o <<w, a, b, c>>
  BY <1>4, <1>5, Zenon
<1>7. con[Len(text) + 1] = w /\ SubSeq(con, 1, Len(text)) = text
  <2>1. <<w, a, b, c>> \in Seq(Tokens) /\ Len(<<w, a, b, c>>) = 4 /\ <<w, a, b, c>>[1] = w
    OBVIOUS
  <2>2. con[Len(text) + 1] = w
    BY <1>6, <2>1, Joined
  <2>3. SubSeq(con, 1, Len(text)) = SubSeq(text, 1, Len(text))
    BY <1>6, <2>1, SubSeqOfConcat1
  <2>4. SubSeq(text, 1, Len(text)) = text
    BY SubSeqFull
  <2>. QED BY <2>2, <2>3, <2>4
<1>8. marked > 0 /\ marked - 1 = Len(text)
  BY <1>4
<1>9. GradedLines = Lines(IF w = "END" THEN text ELSE con)
  <2>1. console[marked] = w /\ SubSeq(console, 1, marked - 1) = text
    BY <1>4, <1>6, <1>7, <1>8, Zenon
  <2>. QED BY <1>6, <1>8, <2>1, Zenon DEF GradedLines
<1>. QED BY <1>4, <1>5, <1>6, <1>8, <1>9, Zenon

(* At the end of a process that prints and exits, all is printed.          *)
LEMMA ExitEnds ==
  ASSUME TypesOK, Ended, marked = 0, NEW text, NEW x \in Int, PrintsAndExits(Main, text, x)
  PROVE  console = text /\ GradedLines = Lines(text)
<1>1. todo[Main] = <<>>
  BY PidAssumption DEF Ended
<1>2. ~Prints(Main, text, exit(x))
  <2> SUFFICES ASSUME Prints(Main, text, exit(x)) PROVE FALSE
    OBVIOUS
  <2>1. PICK m \in Seq(CallSet) : m = exit(x) /\ m # <<>>
    BY ExitType
  <2>2. PICK q \in Seq(CallSet) : todo[Main] = q \o m
    BY <2>1, Zenon DEF Prints
  <2>3. q \o m # <<>>
    BY <2>1
  <2>. QED BY <1>1, <2>2, <2>3
<1>3. console = text
  BY <1>2, Zenon DEF PrintsAndExits
<1>4. ~(marked > 0)
  OBVIOUS
<1>. QED BY <1>3, <1>4, Zenon DEF GradedLines

(* How many lines full marks ask for.                                      *)
LEMMA LinesAskedFor ==
  ASSUME NEW data, FullMarks(data)
  PROVE  /\ program = "fork" => Len(data) >= 2
         /\ program \in {"wait", "waitpid", "clone", "pipe"} => Len(data) >= 3
         /\ program = "yield" => Len(data) = CHILDREN * ROUNDS
<1>1. /\ program = "fork" => Len(data) >= 2
      /\ program \in {"clone", "pipe"} => Len(data) >= 3
      /\ program = "yield" => Len(data) = CHILDREN * ROUNDS
  BY Zenon DEF FullMarks
<1>2. program \in {"wait", "waitpid"} => \E x, y, z : IsPrefix(<<x, y, z>>, data)
  BY Zenon DEF FullMarks, StartsWith
<1>3. \A x, y, z : IsPrefix(<<x, y, z>>, data) => 3 <= Len(data)
  BY DEF IsPrefix
<1>. QED BY <1>1, <1>2, <1>3

(* The parts of two texts put together.                                    *)
LEMMA JoinedTokens ==
  \A s, t \in Seq(Tokens) :
    /\ s \o t \in Seq(Tokens) /\ Len(s \o t) = Len(s) + Len(t)
    /\ \A i \in 1 .. Len(s) : (s \o t)[i] = s[i]
    /\ \A i \in 1 .. Len(t) : (s \o t)[Len(s) + i] = t[i]
BY Joined

(* A text has as many lines as begin in it: these have few.                *)
LEMMA FailingLines ==
  /\ Len(Lines(PanicText)) <= 1 /\ Len(Lines(ForklessText)) <= 1
  /\ Len(Lines(<<"clone process error.", NL>>)) <= 1
  /\ program \in Simple => Len(Lines(ChildText)) <= 1
<1>1. ASSUME NEW a \in Tokens
      PROVE  /\ Len(Lines(<<a, NL>>)) <= 1 /\ Len(Lines(<<NL, a, NL>>)) <= 1
             /\ \A b \in Tokens : a # NL /\ b # NL => Len(Lines(<<a, b, NL>>)) <= 1
  <2>1. NL \in Tokens
    BY TokenTypes
  <2>2. Len(Lines(<<a, NL>>)) <= 1
    <3>1. PICK t \in Seq(Tokens) : t = <<a, NL>>
      BY <2>1, TupleTypes, Zenon
    <3>2. DOMAIN t = 1 .. 2 /\ t[2] = NL
      BY <3>1
    <3>3. ASSUME NEW k \in LineStarts(t) PROVE k = 1
      <4>1. k \in DOMAIN t /\ t[k] # NL /\ (k = 1 \/ t[k - 1] = NL)
        BY DEF LineStarts
      <4>. QED BY <3>2, <4>1
    <3>4. LineStarts(t) \subseteq {1, 1}
      BY <3>3
    <3>. QED BY <3>1, <3>4, FewLines
  <2>3. Len(Lines(<<NL, a, NL>>)) <= 1
    <3>1. PICK t \in Seq(Tokens) : t = <<NL, a, NL>>
      BY <2>1, TupleTypes, Zenon
    <3>2. DOMAIN t = 1 .. 3 /\ t[1] = NL /\ t[3] = NL
      BY <3>1
    <3>3. ASSUME NEW k \in LineStarts(t) PROVE k = 2
      <4>1. k \in DOMAIN t /\ t[k] # NL /\ (k = 1 \/ t[k - 1] = NL)
        BY DEF LineStarts
      <4>. QED BY <3>2, <4>1
    <3>4. LineStarts(t) \subseteq {2, 2}
      BY <3>3
    <3>. QED BY <3>1, <3>4, FewLines
  <2>4. ASSUME NEW b \in Tokens, a # NL, b # NL PROVE Len(Lines(<<a, b, NL>>)) <= 1
    <3>1. PICK t \in Seq(Tokens) : t = <<a, b, NL>>
      BY <2>1, TupleTypes, Zenon
    <3>2. DOMAIN t = 1 .. 3 /\ t[1] # NL /\ t[2] # NL /\ t[3] = NL
      BY <2>4, <3>1
    <3>3. ASSUME NEW k \in LineStarts(t) PROVE k = 1
      <4>1. k \in DOMAIN t /\ t[k] # NL /\ (k = 1 \/ t[k - 1] = NL)
        BY DEF LineStarts
      <4>. QED BY <3>2, <4>1
    <3>4. LineStarts(t) \subseteq {1, 1}
      BY <3>3
    <3>. QED BY <3>1, <3>4, FewLines
  <2>. QED BY <2>2, <2>3, <2>4
<1>2. PICK a, b, c, d \in Tokens : a = "Assert Fatal" /\ b = "cpid: " /\ c = "-N"
                                   /\ d = "clone process error."
  BY TokenTypes, Zenon DEF Texts
<1>3. b # NL /\ c # NL
  BY <1>2, Zenon DEF NL
<1>4. Len(Lines(PanicText)) <= 1 /\ Len(Lines(<<d, NL>>)) <= 1
  BY <1>1, <1>2, Zenon DEF PanicText
<1>5. Len(Lines(ForklessText)) <= 1
  BY <1>1, <1>2, <1>3, Zenon DEF ForklessText
<1>6. program \in Simple => \E e \in Tokens : ChildText = <<e, NL>>
  <2>1. PICK e, f, g \in Tokens : /\ e = "  child process." /\ f = "  Child says successfully!"
                                  /\ g = "This is child process"
    BY TokenTypes, Zenon DEF Texts
  <2>2. ChildText = <<e, NL>> \/ ChildText = <<f, NL>> \/ ChildText = <<g, NL>>
    BY <2>1, Zenon DEF ChildText
  <2>. QED BY <2>2, Zenon
<1>7. program \in Simple => Len(Lines(ChildText)) <= 1
  BY <1>1, <1>6, Zenon
<1>. QED BY <1>2, <1>4, <1>5, <1>7, Zenon

(* The message of pipe() and its marker are two lines.                     *)
LEMMA ErrorLines ==
  ASSUME program = "pipe", program \in Programs
  PROVE  ErrorText \o <<"FAIL", program, "=", NL>> \in Seq(Tokens)
         /\ Len(Lines(ErrorText \o <<"FAIL", program, "=", NL>>)) <= 2
<1>1. PICK a, b, c, w, p, e \in Tokens :
        /\ a = "ERROR: pipe returned " /\ b = "-N" /\ c = ")" /\ w = "FAIL"
        /\ p = program /\ e = "="
  <2>1. program \in Tokens
    BY TokenTypes
  <2>. QED BY <2>1, TokenTypes, Zenon DEF Texts
<1>2. a # NL /\ b # NL /\ c # NL /\ w # NL /\ e # NL
  BY <1>1, Zenon DEF NL
<1>3. p # NL
  <2>1. p = "pipe"
    BY <1>1, Zenon
  <2>. QED BY <2>1, Zenon DEF NL
<1>4. NL \in Tokens
  BY TokenTypes
<1>5. PICK s, t : s = <<a, b, c, NL>> /\ t = <<w, p, e, NL>>
  OBVIOUS
<1>6. /\ s \in Seq(Tokens) /\ Len(s) = 4 /\ s[1] = a /\ s[2] = b /\ s[3] = c /\ s[4] = NL
      /\ t \in Seq(Tokens) /\ Len(t) = 4 /\ t[1] = w /\ t[2] = p /\ t[3] = e /\ t[4] = NL
  BY <1>4, <1>5
<1>7. PICK u : u = s \o t
  OBVIOUS
<1>8. /\ u \in Seq(Tokens) /\ Len(u) = 8 /\ \A i \in 1 .. 4 : u[i] = s[i]
      /\ \A i \in 1 .. 4 : u[4 + i] = t[i]
  <2>1. /\ s \o t \in Seq(Tokens) /\ Len(s \o t) = Len(s) + Len(t)
        /\ \A i \in 1 .. Len(s) : (s \o t)[i] = s[i]
        /\ \A i \in 1 .. Len(t) : (s \o t)[Len(s) + i] = t[i]
    BY <1>6, JoinedTokens, Zenon
  <2>2. 4 + 4 = 8
    OBVIOUS
  <2>. QED BY <1>6, <1>7, <2>1, <2>2, Zenon
<1>9. /\ u[1] # NL /\ u[2] # NL /\ u[3] # NL /\ u[4] = NL
      /\ u[5] # NL /\ u[6] # NL /\ u[7] # NL /\ u[8] = NL
  <2>1. /\ 1 \in 1 .. 4 /\ 2 \in 1 .. 4 /\ 3 \in 1 .. 4 /\ 4 \in 1 .. 4
        /\ 4 + 1 = 5 /\ 4 + 2 = 6 /\ 4 + 3 = 7 /\ 4 + 4 = 8
    OBVIOUS
  <2>2. u[1] = s[1] /\ u[2] = s[2] /\ u[3] = s[3] /\ u[4] = s[4]
    BY <1>8, <2>1, Zenon
  <2>3. u[5] = t[1] /\ u[6] = t[2] /\ u[7] = t[3] /\ u[8] = t[4]
    <3>1. u[4 + 1] = t[1] /\ u[4 + 2] = t[2] /\ u[4 + 3] = t[3] /\ u[4 + 4] = t[4]
      BY <1>8, <2>1, Zenon
    <3>. QED BY <2>1, <3>1, Zenon
  <2>. QED BY <1>2, <1>3, <1>6, <2>2, <2>3, Zenon
<1>10. LineStarts(u) \subseteq {1, 5}
  <2> SUFFICES ASSUME NEW k \in LineStarts(u) PROVE k \in {1, 5}
    OBVIOUS
  <2>1. k \in 1 .. 8 /\ u[k] # NL /\ (k = 1 \/ u[k - 1] = NL)
    BY <1>8 DEF LineStarts
  <2>. QED BY <1>9, <2>1
<1>11. Len(Lines(u)) <= 2
  BY <1>8, <1>10, FewLines
<1>12. u = ErrorText \o <<"FAIL", program, "=", NL>>
  BY <1>1, <1>5, <1>7, Zenon DEF ErrorText
<1>. QED BY <1>8, <1>11, <1>12, Zenon

(* yield: a child that is not there prints nothing.                        *)
LEMMA CompleteLines ==
  ASSUME NEW r \in [Ids -> {0, ROUNDS}]
  PROVE  /\ Cardinality(Complete(r)) \in Nat
         /\ (\A i \in Ids : r[i] # 0) => Cardinality(Complete(r)) = CHILDREN * ROUNDS
         /\ (\E i \in Ids : r[i] = 0) => Cardinality(Complete(r)) # CHILDREN * ROUNDS
<1>1. CHILDREN \in Nat /\ ROUNDS \in Nat \ {0}
  BY ConsoleAssumption
<1>2. IsFiniteSet(Ids) /\ Cardinality(Ids) = CHILDREN
  <2>1. 0 \in Int /\ CHILDREN - 1 \in Int
    BY <1>1
  <2>2. IsFiniteSet(0 .. CHILDREN - 1)
        /\ Cardinality(0 .. CHILDREN - 1)
             = IF 0 > CHILDREN - 1 THEN 0 ELSE (CHILDREN - 1) - 0 + 1
    BY <2>1, FS_Interval
  <2>. QED BY <1>1, <2>2 DEF Ids
<1>3. IsFiniteSet(1 .. ROUNDS) /\ Cardinality(1 .. ROUNDS) = ROUNDS
  <2>1. 1 \in Int /\ ROUNDS \in Int
    BY <1>1
  <2>2. IsFiniteSet(1 .. ROUNDS)
        /\ Cardinality(1 .. ROUNDS) = IF 1 > ROUNDS THEN 0 ELSE ROUNDS - 1 + 1
    BY <2>1, FS_Interval
  <2>. QED BY <1>1, <2>2
<1>4. PICK all : all = Ids \X (1 .. ROUNDS)
  OBVIOUS
<1>5. IsFiniteSet(all) /\ Cardinality(all) = CHILDREN * ROUNDS
  BY <1>2, <1>3, <1>4, FS_Product
<1>6. Complete(r) \in SUBSET all
  BY <1>4 DEF Complete
<1>7. /\ IsFiniteSet(Complete(r)) /\ Cardinality(Complete(r)) \in Nat
      /\ Cardinality(all) = Cardinality(Complete(r)) => Complete(r) = all
  BY <1>5, <1>6, FS_Subset, FS_CardinalityType
<1>8. (\A i \in Ids : r[i] # 0) => Complete(r) = all
  <2> SUFFICES ASSUME \A i \in Ids : r[i] # 0, NEW line \in all PROVE line \in Complete(r)
    BY <1>6
  <2>1. line \in Ids \X (1 .. ROUNDS) /\ line[1] \in Ids /\ line[2] \in 1 .. ROUNDS
    BY <1>4
  <2>2. r[line[1]] = ROUNDS
    BY <2>1
  <2>. QED BY <1>1, <2>1, <2>2 DEF Complete
<1>9. (\E i \in Ids : r[i] = 0) => Complete(r) # all
  <2> SUFFICES ASSUME NEW i \in Ids, r[i] = 0 PROVE Complete(r) # all
    OBVIOUS
  <2>1. PICK line : line = <<i, 1>>
    OBVIOUS
  <2>2. line \in all /\ line[1] = i /\ line[2] = 1
    BY <1>1, <1>4, <2>1
  <2>3. line \notin Complete(r)
    BY <2>2 DEF Complete
  <2>. QED BY <2>2, <2>3
<1>. QED BY <1>5, <1>7, <1>8, <1>9

(* The lines of the children of yield.c, when all have ended.              *)
LEMMA YieldLinesCount ==
  ASSUME NEW text \in Seq(Tokens), YieldText(text)
  PROVE  Len(Lines(text)) = CHILDREN * ROUNDS <=> ~failed
<1>1. PICK r \in [Ids -> {0, ROUNDS}] :
        /\ Tally(text, r, [i \in Ids |-> 0])
        /\ failed <=> \E i \in Ids : r[i] = 0
  BY DEF YieldText
<1>2. Cardinality(LineStarts(text)) = Cardinality(Complete(r))
  <2>1. PICK s : s = [i \in Ids |-> 0]
    OBVIOUS
  <2>2. \A i \in Ids : s[i] = 0
    BY <2>1
  <2>3. LastIsNL(text)
    BY <1>1, <2>1, <2>2 DEF Tally
  <2>4. /\ Cardinality(LineStarts(text)) \in Nat /\ Cardinality(Complete(r)) \in Nat
        /\ Cardinality(LineStarts(text)) = Cardinality(Complete(r)) + 0
    BY <1>1, <2>3, StartsFinite, CompleteLines DEF Tally
  <2>. QED BY <2>4
<1>3. Len(Lines(text)) = Cardinality(Complete(r))
  BY <1>2, StartsFinite
<1>. QED BY <1>1, <1>3, CompleteLines

(* While yield.c runs, main() has calls to make.                           *)
LEMMA NotYielding ==
  ASSUME TypesOK, program = "yield", todo[Main] = <<>>
  PROVE  ~Yielding
<1>1. PICK e \in Texts : e = "END"
  BY Zenon DEF Texts
<1>2. program \in Programs
  BY DEF TypesOK
<1>3. MainLeft(2 * CHILDREN) # <<>>
  <2>1. MainLeft(2 * CHILDREN) = Marker("END")
    BY <1>2, MainLefts
  <2>. QED BY <1>1, <1>2, <2>1, MarkerCalls
<1>4. \A k \in 0 .. 2 * CHILDREN : MainLeft(k) # <<>>
  <2> SUFFICES ASSUME NEW k \in 0 .. 2 * CHILDREN, k # 2 * CHILDREN PROVE MainLeft(k) # <<>>
    BY <1>3
  <2>1. k \in 0 .. 2 * CHILDREN - 1
    BY ConsoleAssumption
  <2>. QED BY <1>2, <2>1, MainLefts
<1>. QED BY <1>4 DEF Yielding, YieldingAt

(* Whatever its error number, a call that fails costs full marks: no       *)
(* program prints as many lines then as its oracle asks for (fork.c:18,    *)
(* clone.c:19, waitpid.c:11, with fork_test.py and so on).                 *)
THEOREM FailuresCostMarks == Spec => []FailureCostsMarks
<1>1. ConsoleInv => FailureCostsMarks
  <2> SUFFICES ASSUME ConsoleInv, Ended, failed, FullMarks(GradedLines) PROVE FALSE
    BY DEF FailureCostsMarks
  <2>1. TypesOK /\ program \in Programs /\ todo[Main] = <<>>
    BY PidAssumption DEF ConsoleInv, TypesOK, Ended
  <2>2. PICK e, f \in Texts : e = "END" /\ f = "FAIL" /\ e # f
    BY Zenon DEF Texts
  <2>3. /\ program = "fork" => Len(GradedLines) >= 2
        /\ program \in {"wait", "waitpid", "clone", "pipe"} => Len(GradedLines) >= 3
        /\ program = "yield" => Len(GradedLines) = CHILDREN * ROUNDS
    BY LinesAskedFor
  <2>4. CASE program \in Simple
    <3>1. Failing
      <4>1. todo[Main] # <<Call("fork", 0)>>
        BY <2>1
      <4>2. \A who : ~Waits(who)
        BY <2>1 DEF Waits
      <4>. QED BY <2>4, <4>1, <4>2 DEF ConsoleInv, SimpleInv, Beginning, Waiting, Reporting
    <3>2. Len(GradedLines) >= 2
      BY <2>3, <2>4 DEF Simple
    <3>3. ~(Len(GradedLines) <= 1)
      <4>1. PICK d : d = Len(GradedLines)
        OBVIOUS
      <4>. QED BY <3>2, <4>1
    <3>4. ~(marked = 0 /\ PrintsAndExits(Main, PanicText, -100))
      <4>1. -100 \in Int
        OBVIOUS
      <4>. QED BY <2>1, <3>3, <4>1, ExitEnds, FailingLines, Zenon
    <3>5. ~(marked = 0 /\ program = "fork" /\ PrintsAndExits(Main, ChildText, 0))
      <4>1. 0 \in Int
        OBVIOUS
      <4>. QED BY <2>1, <2>4, <3>3, <4>1, ExitEnds, FailingLines, Zenon
    <3>6. \A who : ~Waits(who)
      BY <2>1 DEF Waits
    <3>7. program = "clone" /\ Reports(<<"clone process error.", NL>>, "END")
      BY <3>1, <3>4, <3>5, <3>6, Zenon DEF Failing
    <3>8. PICK t \in Seq(Tokens) : t = <<"clone process error.", NL>>
      BY TokenTypes, TupleTypes, Zenon DEF Texts
    <3>9. GradedLines = Lines(t)
      BY <2>1, <2>2, <3>7, <3>8, ReportEnds, Zenon
    <3>. QED BY <3>3, <3>8, <3>9, FailingLines, Zenon
  <2>5. CASE program = "pipe"
    <3>1. PipeFailing
      <4>1. /\ todo[Main] # <<Call("pipe", 0), Call("fork", 0)>>
            /\ todo[Main] # <<Call("fork", 0)>>
        BY <2>1
      <4>. QED BY <2>5, <4>1 DEF ConsoleInv, PipeInv, Opening, Sharing, Passing
    <3>2. Len(GradedLines) >= 3
      BY <2>3, <2>5
    <3>3. ~(Len(GradedLines) <= 2) /\ ~(Len(GradedLines) <= 1)
      <4>1. PICK d : d = Len(GradedLines)
        OBVIOUS
      <4>. QED BY <3>2, <4>1
    <3>4. ~(marked = 0 /\ PrintsAndExits(Main, ForklessText, 0))
      <4>1. 0 \in Int
        OBVIOUS
      <4>. QED BY <2>1, <3>3, <4>1, ExitEnds, FailingLines, Zenon
    <3>5. Reports(ErrorText, "FAIL")
      BY <3>1, <3>4, Zenon DEF PipeFailing
    <3>6. PICK t \in Seq(Tokens) : t = ErrorText
      BY TokenTypes, TupleTypes, Zenon DEF Texts, ErrorText
    <3>7. console = ErrorText \o <<"FAIL", program, "=", NL>> /\ GradedLines = Lines(console)
      BY <2>1, <2>2, <3>5, <3>6, ReportEnds, Zenon
    <3>. QED BY <2>1, <2>5, <3>3, <3>7, ErrorLines, Zenon
  <2>6. CASE program = "yield"
    <3>1. ~Yielding
      BY <2>1, <2>6, NotYielding
    <3>2. Yielded
      BY <2>6, <3>1 DEF ConsoleInv, YieldInv
    <3>3. PICK text \in Seq(Tokens) : Reports(text, "END") /\ YieldText(text)
      BY <3>2, Zenon DEF Yielded
    <3>4. GradedLines = Lines(text)
      BY <2>1, <2>2, <3>3, ReportEnds, Zenon
    <3>. QED BY <2>3, <2>6, <3>3, <3>4, YieldLinesCount
  <2>. QED BY <2>1, <2>4, <2>5, <2>6, SixPrograms DEF Simple
<1>. QED BY <1>1, ConsoleInductive, PTL

-----------------------------------------------------------------------------
(* Full marks: programs that wait for one child.                           *)

(* What fork.c prints, and what the other three print.                     *)
TwoLinesAre(data, x, y, n) ==
  /\ 1 \in DOMAIN data /\ data[1] = <<x>>
  /\ 2 \in DOMAIN data /\ data[2] = <<y, n>>

ThreeLinesAre(data, x, y, z, n) ==
  /\ 1 \in DOMAIN data /\ data[1] = <<x>>
  /\ 2 \in DOMAIN data /\ data[2] = <<y>>
  /\ 3 \in DOMAIN data /\ data[3] = <<z, n>>

(* The text of fork.c, and that of the other three.                        *)
LEMMA TwoLineText ==
  \A x, y, n \in Tokens \ {NL} :
    /\ <<x, NL>> \o <<y, n, NL>> \in Seq(Tokens)
    /\ TwoLinesAre(Lines(<<x, NL>> \o <<y, n, NL>>), x, y, n)
<1> SUFFICES ASSUME NEW x \in Tokens \ {NL}, NEW y \in Tokens \ {NL}, NEW n \in Tokens \ {NL}
             PROVE  /\ <<x, NL>> \o <<y, n, NL>> \in Seq(Tokens)
                    /\ TwoLinesAre(Lines(<<x, NL>> \o <<y, n, NL>>), x, y, n)
  BY Zenon
<1>1. PICK s, t, u : s = <<x, NL>> /\ t = <<y, n, NL>> /\ u = s \o t
  OBVIOUS
<1>2. NL \in Tokens
  BY TokenTypes
<1>3. /\ s \in Seq(Tokens) /\ Len(s) = 2 /\ s[1] = x /\ s[2] = NL
      /\ t \in Seq(Tokens) /\ Len(t) = 3 /\ t[1] = y /\ t[2] = n /\ t[3] = NL
  BY <1>1, <1>2
<1>4. /\ u \in Seq(Tokens) /\ Len(u) = 2 + 3 /\ \A i \in 1 .. 2 : u[i] = s[i]
      /\ \A i \in 1 .. 3 : u[2 + i] = t[i]
  <2>1. /\ s \o t \in Seq(Tokens) /\ Len(s \o t) = Len(s) + Len(t)
        /\ \A i \in 1 .. Len(s) : (s \o t)[i] = s[i]
        /\ \A i \in 1 .. Len(t) : (s \o t)[Len(s) + i] = t[i]
    BY <1>3, JoinedTokens, Zenon
  <2>. QED BY <1>1, <1>3, <2>1, Zenon
<1>5. u[1] = x /\ u[2] = NL /\ u[3] = y /\ u[4] = n /\ u[5] = NL /\ Len(u) = 5
  <2>1. /\ 1 \in 1 .. 2 /\ 2 \in 1 .. 2 /\ 1 \in 1 .. 3 /\ 2 \in 1 .. 3 /\ 3 \in 1 .. 3
        /\ 2 + 1 = 3 /\ 2 + 2 = 4 /\ 2 + 3 = 5
    OBVIOUS
  <2>2. u[1] = s[1] /\ u[2] = s[2] /\ u[2 + 1] = t[1] /\ u[2 + 2] = t[2] /\ u[2 + 3] = t[3]
    BY <1>4, <2>1, Zenon
  <2>. QED BY <1>3, <1>4, <2>1, <2>2, Zenon
<1>6. PICK b \in Int, d \in Int : b = 1 /\ d = 4
  OBVIOUS
<1>7. /\ 1 <= b /\ b + 2 <= d /\ d < Len(u) /\ u[b + 1] = NL /\ u[d + 1] = NL
      /\ \A i \in 1 .. d : i # b + 1 => u[i] # NL
  BY <1>5, <1>6
<1>8. /\ 1 \in DOMAIN Lines(u) /\ Lines(u)[1] = SubSeq(u, 1, b)
      /\ 2 \in DOMAIN Lines(u) /\ Lines(u)[2] = SubSeq(u, b + 2, d)
  BY <1>4, <1>7, TwoLines
<1>9. SubSeq(u, 1, 1) = <<x>> /\ SubSeq(u, 3, 3 + 1) = <<y, n>>
  <2>1. 1 \in 1 .. Len(u) /\ 3 \in 1 .. Len(u) /\ 3 + 1 <= Len(u) /\ 3 + 1 = 4
    BY <1>5
  <2>2. SubSeq(u, 1, 1) = <<u[1]>>
    BY <1>4, <2>1, ShortLines
  <2>3. SubSeq(u, 3, 3 + 1) = <<u[3], u[3 + 1]>>
    BY <1>4, <2>1, ShortLines
  <2>. QED BY <1>5, <2>1, <2>2, <2>3, Zenon
<1>10. b + 2 = 3 /\ d = 3 + 1
  BY <1>6
<1>11. u = <<x, NL>> \o <<y, n, NL>>
  BY <1>1, Zenon
<1>. QED BY <1>4, <1>6, <1>8, <1>9, <1>10, <1>11, Zenon DEF TwoLinesAre

(* The first line is the child's, the others are the parent's.             *)
LEMMA ThreeLineText ==
  \A x, y, z, n \in Tokens \ {NL} :
    /\ <<x, NL>> \o <<y, NL, z, n, NL>> \in Seq(Tokens)
    /\ ThreeLinesAre(Lines(<<x, NL>> \o <<y, NL, z, n, NL>>), x, y, z, n)
<1> SUFFICES ASSUME NEW x \in Tokens \ {NL}, NEW y \in Tokens \ {NL}, NEW z \in Tokens \ {NL},
                    NEW n \in Tokens \ {NL}
             PROVE  /\ <<x, NL>> \o <<y, NL, z, n, NL>> \in Seq(Tokens)
                    /\ ThreeLinesAre(Lines(<<x, NL>> \o <<y, NL, z, n, NL>>), x, y, z, n)
  BY Zenon
<1>1. PICK s, t, u : s = <<x, NL>> /\ t = <<y, NL, z, n, NL>> /\ u = s \o t
  OBVIOUS
<1>2. NL \in Tokens
  BY TokenTypes
<1>3. /\ s \in Seq(Tokens) /\ Len(s) = 2 /\ s[1] = x /\ s[2] = NL
      /\ t \in Seq(Tokens) /\ Len(t) = 5 /\ t[1] = y /\ t[2] = NL /\ t[3] = z /\ t[4] = n
      /\ t[5] = NL
  BY <1>1, <1>2
<1>4. /\ u \in Seq(Tokens) /\ Len(u) = 2 + 5 /\ \A i \in 1 .. 2 : u[i] = s[i]
      /\ \A i \in 1 .. 5 : u[2 + i] = t[i]
  <2>1. /\ s \o t \in Seq(Tokens) /\ Len(s \o t) = Len(s) + Len(t)
        /\ \A i \in 1 .. Len(s) : (s \o t)[i] = s[i]
        /\ \A i \in 1 .. Len(t) : (s \o t)[Len(s) + i] = t[i]
    BY <1>3, JoinedTokens, Zenon
  <2>. QED BY <1>1, <1>3, <2>1, Zenon
<1>5. /\ u[1] = x /\ u[2] = NL /\ u[3] = y /\ u[4] = NL /\ u[5] = z /\ u[6] = n /\ u[7] = NL
      /\ Len(u) = 7
  <2>1. /\ 1 \in 1 .. 2 /\ 2 \in 1 .. 2 /\ 1 \in 1 .. 5 /\ 2 \in 1 .. 5 /\ 3 \in 1 .. 5
        /\ 4 \in 1 .. 5 /\ 5 \in 1 .. 5
        /\ 2 + 1 = 3 /\ 2 + 2 = 4 /\ 2 + 3 = 5 /\ 2 + 4 = 6 /\ 2 + 5 = 7
    OBVIOUS
  <2>2. /\ u[1] = s[1] /\ u[2] = s[2] /\ u[2 + 1] = t[1] /\ u[2 + 2] = t[2] /\ u[2 + 3] = t[3]
        /\ u[2 + 4] = t[4] /\ u[2 + 5] = t[5]
    BY <1>4, <2>1, Zenon
  <2>. QED BY <1>3, <1>4, <2>1, <2>2, Zenon
<1>6. PICK b \in Int, d \in Int, g \in Int : b = 1 /\ d = 3 /\ g = 6
  OBVIOUS
<1>7. /\ 1 <= b /\ b + 2 <= d /\ d + 2 <= g /\ g < Len(u)
      /\ u[b + 1] = NL /\ u[d + 1] = NL /\ u[g + 1] = NL
      /\ \A i \in 1 .. g : i # b + 1 /\ i # d + 1 => u[i] # NL
  BY <1>5, <1>6
<1>8. /\ 1 \in DOMAIN Lines(u) /\ Lines(u)[1] = SubSeq(u, 1, b)
      /\ 2 \in DOMAIN Lines(u) /\ Lines(u)[2] = SubSeq(u, b + 2, d)
      /\ 3 \in DOMAIN Lines(u) /\ Lines(u)[3] = SubSeq(u, d + 2, g)
  <2>1. u \in Seq(Tokens)
    BY <1>4
  <2>2. 1 <= b /\ b + 2 <= d /\ d + 2 <= g /\ g < Len(u)
    BY <1>7
  <2>3. u[b + 1] = NL /\ u[d + 1] = NL /\ u[g + 1] = NL
    BY <1>7
  <2>4. \A i \in 1 .. g : i # b + 1 /\ i # d + 1 => u[i] # NL
    BY <1>7
  <2>. QED BY <2>1, <2>2, <2>3, <2>4, ThreeLines
<1>9. SubSeq(u, 1, 1) = <<x>> /\ SubSeq(u, 3, 3) = <<y>> /\ SubSeq(u, 5, 5 + 1) = <<z, n>>
  <2>1. /\ 1 \in 1 .. Len(u) /\ 3 \in 1 .. Len(u) /\ 5 \in 1 .. Len(u) /\ 5 + 1 <= Len(u)
        /\ 5 + 1 = 6
    BY <1>5
  <2>2. SubSeq(u, 1, 1) = <<u[1]>> /\ SubSeq(u, 3, 3) = <<u[3]>>
    BY <1>4, <2>1, ShortLines
  <2>3. SubSeq(u, 5, 5 + 1) = <<u[5], u[5 + 1]>>
    BY <1>4, <2>1, ShortLines
  <2>. QED BY <1>5, <2>1, <2>2, <2>3, Zenon
<1>10. b + 2 = 3 /\ d = 3 /\ d + 2 = 5 /\ g = 5 + 1
  BY <1>6
<1>11. SubSeq(u, 1, b) = <<x>> /\ SubSeq(u, b + 2, d) = <<y>> /\ SubSeq(u, d + 2, g) = <<z, n>>
  BY <1>6, <1>9, <1>10, Zenon
<1>12. u = <<x, NL>> \o <<y, NL, z, n, NL>>
  BY <1>1, Zenon
<1>. QED BY <1>4, <1>8, <1>11, <1>12, Zenon DEF ThreeLinesAre

(* Where the oracles find a text, or a text and a number.                  *)
LEMMA Found ==
  /\ \A data, l, a : l \in DOMAIN data /\ data[l] = <<a>> => In(a, data)
  /\ \A data, l, a, n :
       l \in DOMAIN data /\ data[l] = <<a, n>> /\ n \in Numbers => InN(a, data)
<1>1. ASSUME NEW data, NEW l, NEW a, l \in DOMAIN data, data[l] = <<a>>
      PROVE  In(a, data)
  <2>1. a \in Range(data[l])
    <3>1. 1 \in DOMAIN data[l] /\ data[l][1] = a
      BY <1>1
    <3>. QED BY <3>1, Zenon DEF Range
  <2>. QED BY <1>1, <2>1, Zenon DEF In
<1>2. ASSUME NEW data, NEW l, NEW a, NEW n, l \in DOMAIN data, data[l] = <<a, n>>, n \in Numbers
      PROVE  InN(a, data)
  <2>1. 1 \in 1 .. Len(data[l]) - 1 /\ data[l][1] = a /\ data[l][1 + 1] = n
    BY <1>2
  <2>. QED BY <1>2, <2>1, Zenon DEF InN
<1>. QED BY <1>1, <1>2

(* Three lines in a row, where startswith() looks for them.                *)
LEMMA PrefixThree ==
  ASSUME NEW data, Len(data) \in Nat, Len(data) >= 3, NEW a, NEW b, NEW c,
         data[1] = a, data[2] = b, data[3] = c
  PROVE  IsPrefix(<<a, b, c>>, data)
<1>1. PICK T, t, x, y : T = {a, b, c} /\ t = <<a, b, c>> /\ x = SubSeq(t, 1, 3)
                        /\ y = SubSeq(data, 1, 3)
  OBVIOUS
<1>2. t \in Seq(T) /\ Len(t) = 3 /\ t[1] = a /\ t[2] = b /\ t[3] = c
  BY <1>1
<1>3. /\ x \in Seq(T) /\ Len(x) = 3 /\ x[1] = a /\ x[2] = b /\ x[3] = c
  BY <1>1, <1>2
<1>4. /\ y \in Seq(T) /\ Len(y) = 3 /\ y[1] = a /\ y[2] = b /\ y[3] = c
  <2>1. \A i \in 1 .. 3 : data[i] \in T
    BY <1>1
  <2>2. 1 \in Int /\ 3 \in Int
    OBVIOUS
  <2>3. /\ y \in Seq(T) /\ Len(y) = IF 1 <= 3 THEN 3 - 1 + 1 ELSE 0
        /\ \A i \in 1 .. 3 - 1 + 1 : y[i] = data[1 + i - 1]
    BY <1>1, <2>1, <2>2, SubSeqProperties
  <2>. QED BY <2>3
<1>5. x = y
  <2>1. \A i \in 1 .. Len(x) : x[i] = y[i]
    BY <1>3, <1>4
  <2>. QED BY <1>3, <1>4, <2>1, SeqEqual
<1>. QED BY <1>1, <1>2, <1>5 DEF IsPrefix
(* A text that has a k-th line has k lines.                                *)
LEMMA SoManyLines ==
  ASSUME NEW text \in Seq(Tokens), NEW k \in DOMAIN Lines(text)
  PROVE  Len(Lines(text)) \in Nat /\ Len(Lines(text)) >= k
<1>1. /\ DOMAIN Lines(text) = 1 .. Cardinality(LineStarts(text))
      /\ Len(Lines(text)) = Cardinality(LineStarts(text)) /\ Cardinality(LineStarts(text)) \in Nat
  BY StartsFinite
<1>. QED BY <1>1

(* fork, wait, waitpid and clone get full marks.                           *)
LEMMA SimpleMarks ==
  ASSUME TypesOK, Ended, program \in Simple, Reporting
  PROVE  FullMarks(GradedLines)
<1>1. cpid \in Pid /\ cpid \in Int /\ Reports(ChildText \o ParentText(cpid), "END")
  BY PidAssumption, Zenon DEF Reporting, TypesOK
<1>2. PICK u \in Seq(Tokens) : u = ChildText \o ParentText(cpid)
  <2>1. ChildText \in Seq(Tokens) /\ ParentText(cpid) \in Seq(Tokens)
    BY <1>1, ChildCalls, ParentTextType
  <2>. QED BY <2>1, Joined
<1>3. PICK data : data = Lines(u) /\ data = GradedLines
  <2>1. "END" \in Texts
    BY Zenon DEF Texts
  <2>. QED BY <1>1, <1>2, <2>1, ReportEnds, Zenon
<1>4. \A t \in Texts : t \in Tokens \ {NL}
  <2>1. NL \notin Texts
    BY Zenon DEF Texts, NL
  <2>. QED BY <2>1, TokenTypes, Zenon
<1>5. PICK z \in Tokens \ {NL}, h \in Tokens \ {NL}, n \in Tokens \ {NL} :
        z = Num(0) /\ h = Num(3) /\ n = Num(cpid)
  <2>1. /\ 0 \in Pid \cup 0 .. CHILDREN - 1 \cup {3} /\ 3 \in Pid \cup 0 .. CHILDREN - 1 \cup {3}
        /\ cpid \in Pid \cup 0 .. CHILDREN - 1 \cup {3}
    BY <1>1, ConsoleAssumption
  <2>2. 0 \in Int /\ 3 \in Int
    OBVIOUS
  <2>3. Num(0) # NL /\ Num(3) # NL /\ Num(cpid) # NL
    BY <2>1, NumAssumption, Zenon
  <2>4. Num(0) \in Tokens /\ Num(3) \in Tokens /\ Num(cpid) \in Tokens
    BY <1>1, <2>2, TokenTypes, Zenon
  <2>. QED BY <2>3, <2>4, Zenon
<1>6. z \in Numbers /\ n \in Numbers
  BY <1>1, <1>5, Zenon DEF Numbers
<1>7. CASE program = "fork"
  <2>1. PICK x \in Tokens \ {NL}, y \in Tokens \ {NL} :
          x = "  child process." /\ y = "  parent process. wstatus:"
    <3>1. "  child process." \in Texts /\ "  parent process. wstatus:" \in Texts
      BY Zenon DEF Texts
    <3>. QED BY <1>4, <3>1, Zenon
  <2>2. ChildText = <<x, NL>> /\ ParentText(cpid) = <<y, z, NL>>
    BY <1>5, <1>7, <2>1, Zenon DEF ChildText, ParentText
  <2>3. TwoLinesAre(data, x, y, z)
    BY <1>2, <1>3, <2>2, TwoLineText, Zenon
  <2>4. In(x, data) /\ InN(y, data)
    BY <1>6, <2>3, Found, Zenon DEF TwoLinesAre
  <2>5. Len(data) >= 2
    BY <1>3, <2>3, SoManyLines, Zenon DEF TwoLinesAre
  <2>6. FullMarks(data)
    BY <1>7, <2>1, <2>4, <2>5, Zenon DEF FullMarks
  <2>. QED BY <1>3, <2>6, Zenon
<1>8. CASE program = "wait"
  <2>1. PICK x \in Tokens \ {NL}, y \in Tokens \ {NL}, t \in Tokens \ {NL} :
          x = "This is child process" /\ y = "wait child success." /\ t = "wstatus: "
    <3>1. /\ "This is child process" \in Texts /\ "wait child success." \in Texts
          /\ "wstatus: " \in Texts
      BY Zenon DEF Texts
    <3>. QED BY <1>4, <3>1, Zenon
  <2>2. ChildText = <<x, NL>> /\ ParentText(cpid) = <<y, NL, t, z, NL>>
    BY <1>5, <1>8, <2>1, Zenon DEF ChildText, ParentText
  <2>3. ThreeLinesAre(data, x, y, t, z)
    BY <1>2, <1>3, <2>2, ThreeLineText, Zenon
  <2>4. Len(data) >= 3 /\ Len(data) \in Nat
    BY <1>3, <2>3, SoManyLines, Zenon DEF ThreeLinesAre
  <2>5. StartsWith(data, <<<<x>>, <<y>>, <<t, z>>>>)
    BY <2>3, <2>4, PrefixThree, Zenon DEF StartsWith, ThreeLinesAre
  <2>6. FullMarks(data)
    BY <1>5, <1>8, <2>1, <2>5, Zenon DEF FullMarks
  <2>. QED BY <1>3, <2>6, Zenon
<1>9. CASE program = "waitpid"
  <2>1. PICK x \in Tokens \ {NL}, y \in Tokens \ {NL}, t \in Tokens \ {NL} :
          x = "This is child process" /\ y = "waitpid successfully." /\ t = "wstatus: "
    <3>1. /\ "This is child process" \in Texts /\ "waitpid successfully." \in Texts
          /\ "wstatus: " \in Texts
      BY Zenon DEF Texts
    <3>. QED BY <1>4, <3>1, Zenon
  <2>2. ChildText = <<x, NL>> /\ ParentText(cpid) = <<y, NL, t, h, NL>>
    BY <1>5, <1>9, <2>1, Zenon DEF ChildText, ParentText
  <2>3. ThreeLinesAre(data, x, y, t, h)
    BY <1>2, <1>3, <2>2, ThreeLineText, Zenon
  <2>4. Len(data) >= 3 /\ Len(data) \in Nat
    BY <1>3, <2>3, SoManyLines, Zenon DEF ThreeLinesAre
  <2>5. StartsWith(data, <<<<x>>, <<y>>, <<t, h>>>>)
    BY <2>3, <2>4, PrefixThree, Zenon DEF StartsWith, ThreeLinesAre
  <2>6. FullMarks(data)
    BY <1>5, <1>9, <2>1, <2>5, Zenon DEF FullMarks
  <2>. QED BY <1>3, <2>6, Zenon
<1>10. CASE program = "clone"
  <2>1. PICK x \in Tokens \ {NL}, y \in Tokens \ {NL}, t \in Tokens \ {NL} :
          /\ x = "  Child says successfully!" /\ y = "clone process successfully."
          /\ t = "pid:"
    <3>1. /\ "  Child says successfully!" \in Texts /\ "clone process successfully." \in Texts
          /\ "pid:" \in Texts
      BY Zenon DEF Texts
    <3>. QED BY <1>4, <3>1, Zenon
  <2>2. ChildText = <<x, NL>> /\ ParentText(cpid) = <<y, NL, t, n, NL>>
    BY <1>5, <1>10, <2>1, Zenon DEF ChildText, ParentText
  <2>3. ThreeLinesAre(data, x, y, t, n)
    BY <1>2, <1>3, <2>2, ThreeLineText, Zenon
  <2>4. Len(data) >= 3
    BY <1>3, <2>3, SoManyLines, Zenon DEF ThreeLinesAre
  <2>5. In(x, data) /\ InN(t, data) /\ In(y, data)
    BY <1>6, <2>3, Found, Zenon DEF ThreeLinesAre
  <2>6. FullMarks(data)
    BY <1>10, <2>1, <2>4, <2>5, Zenon DEF FullMarks
  <2>. QED BY <1>3, <2>6, Zenon
<1>. QED BY <1>7, <1>8, <1>9, <1>10 DEF Simple

-----------------------------------------------------------------------------
(* Full marks: pipe.                                                       *)

(* The lines of a text that begins as that of pipe.c does.                 *)
LEMMA PipeStarts ==
  ASSUME NEW u \in Seq(Tokens), u[1] # NL, u[2] # NL, u[3] = NL, u[4] # NL, u[5] # NL,
         u[6] = NL, u[7] # NL, u[8] = NL, 9 <= Len(u)
  PROVE  /\ 1 \in DOMAIN Lines(u) /\ Lines(u)[1] = <<u[1], u[2]>>
         /\ 2 \in DOMAIN Lines(u) /\ Lines(u)[2] = <<u[4], u[5]>>
         /\ 3 \in DOMAIN Lines(u) /\ Lines(u)[3] = <<u[7]>>
<1>1. PICK b \in Int, d \in Int, g \in Int : b = 2 /\ d = 5 /\ g = 7
  OBVIOUS
<1>2. /\ 1 \in DOMAIN Lines(u) /\ Lines(u)[1] = SubSeq(u, 1, b)
      /\ 2 \in DOMAIN Lines(u) /\ Lines(u)[2] = SubSeq(u, b + 2, d)
      /\ 3 \in DOMAIN Lines(u) /\ Lines(u)[3] = SubSeq(u, d + 2, g)
  <2>1. u \in Seq(Tokens)
    OBVIOUS
  <2>2. 1 <= b /\ b + 2 <= d /\ d + 2 <= g /\ g < Len(u)
    BY <1>1
  <2>3. u[b + 1] = NL /\ u[d + 1] = NL /\ u[g + 1] = NL
    BY <1>1
  <2>4. \A i \in 1 .. g : i # b + 1 /\ i # d + 1 => u[i] # NL
    BY <1>1
  <2>. QED BY <2>1, <2>2, <2>3, <2>4, ThreeLines
<1>3. /\ SubSeq(u, 1, 1 + 1) = <<u[1], u[2]>> /\ SubSeq(u, 4, 4 + 1) = <<u[4], u[5]>>
      /\ SubSeq(u, 7, 7) = <<u[7]>>
  <2>1. /\ 1 \in 1 .. Len(u) /\ 4 \in 1 .. Len(u) /\ 7 \in 1 .. Len(u)
        /\ 1 + 1 <= Len(u) /\ 4 + 1 <= Len(u) /\ 1 + 1 = 2 /\ 4 + 1 = 5
    OBVIOUS
  <2>2. SubSeq(u, 1, 1 + 1) = <<u[1], u[1 + 1]>>
    BY <2>1, ShortLines
  <2>3. SubSeq(u, 4, 4 + 1) = <<u[4], u[4 + 1]>>
    BY <2>1, ShortLines
  <2>4. SubSeq(u, 7, 7) = <<u[7]>>
    BY <2>1, ShortLines
  <2>. QED BY <2>1, <2>2, <2>3, <2>4, Zenon
<1>4. b = 1 + 1 /\ b + 2 = 4 /\ d = 4 + 1 /\ d + 2 = 7 /\ g = 7
  BY <1>1
<1>5. /\ SubSeq(u, 1, b) = <<u[1], u[2]>> /\ SubSeq(u, b + 2, d) = <<u[4], u[5]>>
      /\ SubSeq(u, d + 2, g) = <<u[7]>>
  BY <1>1, <1>3, <1>4, Zenon
<1>. QED BY <1>2, <1>5, Zenon

(* What pipe.c prints, and where its lines are.                            *)
PipePrints(a, m, n, w) == ((<<a, m, NL>> \o <<a, n, NL>>) \o <<w, NL>>) \o <<NL>>

PipeLinesAre(data, a, m, n, w) ==
  /\ 1 \in DOMAIN data /\ data[1] = <<a, m>>
  /\ 2 \in DOMAIN data /\ data[2] = <<a, n>>
  /\ 3 \in DOMAIN data /\ data[3] = <<w>>

(* Its first three lines.                                                  *)
LEMMA PipeLines ==
  \A a, m, n, w \in Tokens \ {NL}, tail \in Seq(Tokens) :
    /\ PipePrints(a, m, n, w) \o tail \in Seq(Tokens)
    /\ PipeLinesAre(Lines(PipePrints(a, m, n, w) \o tail), a, m, n, w)
<1> SUFFICES ASSUME NEW a \in Tokens \ {NL}, NEW m \in Tokens \ {NL}, NEW n \in Tokens \ {NL},
                    NEW w \in Tokens \ {NL}, NEW tail \in Seq(Tokens)
             PROVE  /\ PipePrints(a, m, n, w) \o tail \in Seq(Tokens)
                    /\ PipeLinesAre(Lines(PipePrints(a, m, n, w) \o tail), a, m, n, w)
  BY Zenon
<1>1. PICK s, t, v, z, u :
        /\ s = <<a, m, NL>> /\ t = <<a, n, NL>> /\ v = <<w, NL>> /\ z = <<NL>>
        /\ u = (((s \o t) \o v) \o z) \o tail
  OBVIOUS
<1>2. NL \in Tokens
  BY TokenTypes
<1>3. /\ s \in Seq(Tokens) /\ Len(s) = 3 /\ s[1] = a /\ s[2] = m /\ s[3] = NL
      /\ t \in Seq(Tokens) /\ Len(t) = 3 /\ t[1] = a /\ t[2] = n /\ t[3] = NL
      /\ v \in Seq(Tokens) /\ Len(v) = 2 /\ v[1] = w /\ v[2] = NL
      /\ z \in Seq(Tokens) /\ Len(z) = 1
  BY <1>1, <1>2
<1>11. s \in Seq(Tokens) /\ t \in Seq(Tokens) /\ v \in Seq(Tokens) /\ z \in Seq(Tokens)
  BY <1>3
<1>4. PICK p \in Seq(Tokens) :
        /\ p = s \o t /\ Len(p) = 6
        /\ p[1] = a /\ p[2] = m /\ p[3] = NL /\ p[4] = a /\ p[5] = n /\ p[6] = NL
  <2>1. PICK p : p = s \o t
    OBVIOUS
  <2>2. /\ p \in Seq(Tokens) /\ Len(p) = Len(s) + Len(t)
        /\ \A i \in 1 .. Len(s) : p[i] = s[i]
        /\ \A i \in 1 .. Len(t) : p[Len(s) + i] = t[i]
    <3>1. /\ s \o t \in Seq(Tokens) /\ Len(s \o t) = Len(s) + Len(t)
          /\ \A i \in 1 .. Len(s) : (s \o t)[i] = s[i]
          /\ \A i \in 1 .. Len(t) : (s \o t)[Len(s) + i] = t[i]
      BY <1>11, JoinedTokens, Zenon
    <3>. QED BY <2>1, <3>1, Zenon
  <2>3. p[3 + 1] = t[1] /\ p[3 + 2] = t[2] /\ p[3 + 3] = t[3] /\ Len(p) = 6
    BY <1>3, <2>2
  <2>4. p[4] = a /\ p[5] = n /\ p[6] = NL
    BY <1>3, <2>3
  <2>5. p[1] = a /\ p[2] = m /\ p[3] = NL
    BY <1>3, <2>2
  <2>. QED BY <2>1, <2>2, <2>3, <2>4, <2>5, Zenon
<1>5. PICK q \in Seq(Tokens) :
        /\ q = p \o v /\ Len(q) = 8 /\ q[7] = w /\ q[8] = NL
        /\ \A i \in 1 .. 6 : q[i] = p[i]
  <2>1. PICK q : q = p \o v
    OBVIOUS
  <2>2. /\ q \in Seq(Tokens) /\ Len(q) = Len(p) + Len(v)
        /\ \A i \in 1 .. Len(p) : q[i] = p[i]
        /\ \A i \in 1 .. Len(v) : q[Len(p) + i] = v[i]
    <3>1. /\ p \o v \in Seq(Tokens) /\ Len(p \o v) = Len(p) + Len(v)
          /\ \A i \in 1 .. Len(p) : (p \o v)[i] = p[i]
          /\ \A i \in 1 .. Len(v) : (p \o v)[Len(p) + i] = v[i]
      BY <1>11, JoinedTokens, Zenon
    <3>. QED BY <2>1, <3>1, Zenon
  <2>3. q[6 + 1] = v[1] /\ q[6 + 2] = v[2] /\ Len(q) = 8
    BY <1>3, <1>4, <2>2
  <2>4. q[7] = w /\ q[8] = NL
    BY <1>3, <2>3
  <2>5. \A i \in 1 .. 6 : q[i] = p[i]
    BY <1>4, <2>2, Zenon
  <2>6. Len(q) = 8
    BY <2>3
  <2>7. q \in Seq(Tokens)
    BY <2>2
  <2>. QED BY <2>1, <2>4, <2>5, <2>6, <2>7, Zenon
<1>6. PICK o \in Seq(Tokens) : o = q \o z /\ Len(o) = 9 /\ \A i \in 1 .. 8 : o[i] = q[i]
  <2>1. PICK o : o = q \o z
    OBVIOUS
  <2>2. /\ o \in Seq(Tokens) /\ Len(o) = Len(q) + Len(z)
        /\ \A i \in 1 .. Len(q) : o[i] = q[i]
    BY <1>11, <2>1, JoinedTokens, Zenon
  <2>3. Len(o) = 9
    BY <1>3, <1>5, <2>2
  <2>. QED BY <1>5, <2>1, <2>2, <2>3, Zenon
<1>7. /\ u \in Seq(Tokens) /\ Len(u) = Len(o) + Len(tail) /\ \A i \in 1 .. 9 : u[i] = o[i]
  <2>1. u = o \o tail
    BY <1>1, <1>4, <1>5, <1>6, Zenon
  <2>2. /\ u \in Seq(Tokens) /\ Len(u) = Len(o) + Len(tail)
        /\ \A i \in 1 .. Len(o) : u[i] = o[i]
    BY <2>1, JoinedTokens, Zenon
  <2>. QED BY <1>6, <2>2, Zenon
<1>8. /\ u[1] = a /\ u[2] = m /\ u[3] = NL /\ u[4] = a /\ u[5] = n /\ u[6] = NL
      /\ u[7] = w /\ u[8] = NL /\ 9 <= Len(u) /\ Len(u) \in Nat
  <2>1. \A i \in 1 .. 8 : u[i] = q[i]
    <3> SUFFICES ASSUME NEW i \in 1 .. 8 PROVE u[i] = q[i]
      OBVIOUS
    <3>1. i \in 1 .. 9
      OBVIOUS
    <3>. QED BY <1>6, <1>7, <3>1, Zenon
  <2>2. /\ u[1] = p[1] /\ u[2] = p[2] /\ u[3] = p[3] /\ u[4] = p[4] /\ u[5] = p[5]
        /\ u[6] = p[6] /\ u[7] = q[7] /\ u[8] = q[8]
    <3>1. /\ 1 \in 1 .. 6 /\ 2 \in 1 .. 6 /\ 3 \in 1 .. 6 /\ 4 \in 1 .. 6 /\ 5 \in 1 .. 6
          /\ 6 \in 1 .. 6
          /\ 1 \in 1 .. 8 /\ 2 \in 1 .. 8 /\ 3 \in 1 .. 8 /\ 4 \in 1 .. 8 /\ 5 \in 1 .. 8
          /\ 6 \in 1 .. 8 /\ 7 \in 1 .. 8 /\ 8 \in 1 .. 8
      OBVIOUS
    <3>. QED BY <1>5, <2>1, <3>1, Zenon
  <2>3. 9 <= Len(u) /\ Len(u) \in Nat
    BY <1>6, <1>7
  <2>. QED BY <1>4, <1>5, <2>2, <2>3, Zenon
<1>9. /\ 1 \in DOMAIN Lines(u) /\ Lines(u)[1] = <<a, m>>
      /\ 2 \in DOMAIN Lines(u) /\ Lines(u)[2] = <<a, n>>
      /\ 3 \in DOMAIN Lines(u) /\ Lines(u)[3] = <<w>>
  <2>1. u \in Seq(Tokens) /\ 9 <= Len(u)
    BY <1>7, <1>8
  <2>2. u[1] # NL /\ u[2] # NL /\ u[4] # NL /\ u[5] # NL /\ u[7] # NL
    BY <1>8
  <2>3. u[3] = NL /\ u[6] = NL /\ u[8] = NL
    BY <1>8
  <2>4. /\ 1 \in DOMAIN Lines(u) /\ Lines(u)[1] = <<u[1], u[2]>>
        /\ 2 \in DOMAIN Lines(u) /\ Lines(u)[2] = <<u[4], u[5]>>
        /\ 3 \in DOMAIN Lines(u) /\ Lines(u)[3] = <<u[7]>>
    BY <2>1, <2>2, <2>3, PipeStarts
  <2>. QED BY <1>8, <2>4, Zenon
<1>10. u = PipePrints(a, m, n, w) \o tail
  BY <1>1, Zenon DEF PipePrints
<1>. QED BY <1>7, <1>9, <1>10, Zenon DEF PipeLinesAre

(* The number of a process is positive.                                    *)
LEMMA PositiveLine ==
  ASSUME NEW n \in Numbers \ {Num(0)}
  PROVE  PositiveCpid(<<"cpid: ", n>>)
<1>1. PICK a : a = "cpid: "
  OBVIOUS
<1>4. PICK line : line = <<a, n>>
  OBVIOUS
<1>2. 1 \in DOMAIN line /\ 2 \in DOMAIN line /\ 1 < 2 /\ line[1] = a /\ line[2] = n
  BY <1>4
<1>3. \A j \in 1 + 1 .. 2 - 1 : line[j] \in Numbers
  OBVIOUS
<1>. QED BY <1>1, <1>2, <1>3, <1>4, Zenon DEF PositiveCpid

(* pipe.c gets full marks if the kernel keeps its lines together.          *)
LEMMA PipeMarks ==
  ASSUME TypesOK, Ended, program = "pipe", whole, Passing
  PROVE  FullMarks(GradedLines)
<1>1. PICK text \in Seq(Tokens) : Reports(text, "PASS") /\ text \in PipeTexts(cpid)
  BY Zenon DEF Passing
<1>2. cpid \in Pid /\ cpid \in Int
  BY PidAssumption DEF Passing, TypesOK
<1>3. PICK a \in Tokens, w \in Tokens, pass \in Texts :
        a = "cpid: " /\ w = "  Write to pipe successfully." /\ pass = "PASS" /\ pass # "END"
  BY TokenTypes, Zenon DEF Texts
<1>4. a # NL /\ w # NL
  BY <1>3, Zenon DEF NL
<1>5. PICK z \in Tokens, n \in Tokens : z = Num(0) /\ n = Num(cpid)
  BY <1>2, TokenTypes
<1>6. z # NL /\ n # NL /\ n # z /\ n \in Numbers
  <2>1. 0 \in Pid \cup 0 .. CHILDREN - 1 \cup {3} /\ cpid \in Pid \cup 0 .. CHILDREN - 1 \cup {3}
    BY <1>2, ConsoleAssumption
  <2>2. /\ Num(0) # NL /\ Num(cpid) # NL /\ Num(cpid) # Num(0) /\ Num(cpid) \in Numbers
    BY <1>2, <2>1, NumAssumption, Zenon DEF Numbers
  <2>. QED BY <1>5, <2>2, Zenon
<1>7. PICK tail \in Seq(Tokens) : tail = <<"PASS", program, "=", NL>>
  <2>1. "=" \in Tokens /\ "PASS" \in Tokens /\ program \in Tokens /\ NL \in Tokens
    BY TokenTypes, Zenon DEF Texts, TypesOK
  <2>. QED BY <2>1, TupleTypes, Zenon
<1>8. console = text \o tail /\ GradedLines = Lines(console)
  BY <1>1, <1>3, <1>7, ReportEnds, Zenon
<1>9. PICK p \in Tokens, q \in Tokens :
        /\ (p = z /\ q = n) \/ (p = n /\ q = z)
        /\ text = ((<<a, p, NL>> \o <<a, q, NL>>) \o <<w, NL>>) \o <<NL>>
  <2>1. 5 > 1 /\ 5 \in 1 .. 5
    OBVIOUS
  <2>2. Intros(cpid, 5, 5) = {CpidText(0) \o CpidText(cpid), CpidText(cpid) \o CpidText(0)}
    BY <2>1, IntrosOf, Zenon
  <2>3. PICK intro \in Intros(cpid, 5, 5) : text = (intro \o Data) \o <<NL>>
    BY <1>1, Zenon DEF PipeTexts
  <2>4. /\ CpidText(0) = <<a, z, NL>> /\ CpidText(cpid) = <<a, n, NL>> /\ Data = <<w, NL>>
    BY <1>3, <1>5, Zenon DEF CpidText, Data
  <2>5. /\ CpidText(0) \o CpidText(cpid) = <<a, z, NL>> \o <<a, n, NL>>
        /\ CpidText(cpid) \o CpidText(0) = <<a, n, NL>> \o <<a, z, NL>>
    BY <2>4, Zenon
  <2>6. CASE intro = CpidText(0) \o CpidText(cpid)
    <3>1. text = ((<<a, z, NL>> \o <<a, n, NL>>) \o <<w, NL>>) \o <<NL>>
      BY <2>3, <2>4, <2>5, <2>6, Zenon
    <3> WITNESS z \in Tokens, n \in Tokens
    <3>. QED BY <3>1, Zenon
  <2>7. CASE intro = CpidText(cpid) \o CpidText(0)
    BY <2>3, <2>4, <2>5, <2>7, Zenon
  <2>. QED BY <2>2, <2>3, <2>6, <2>7, Zenon
<1>10. PICK u \in Seq(Tokens) :
         /\ u = console
         /\ 1 \in DOMAIN Lines(u) /\ Lines(u)[1] = <<a, p>>
         /\ 2 \in DOMAIN Lines(u) /\ Lines(u)[2] = <<a, q>>
         /\ 3 \in DOMAIN Lines(u) /\ Lines(u)[3] = <<w>>
  <2>1. p # NL /\ q # NL
    BY <1>6, <1>9
  <2>2. PICK u : u = PipePrints(a, p, q, w) \o tail
    OBVIOUS
  <2>3. /\ u \in Seq(Tokens)
        /\ 1 \in DOMAIN Lines(u) /\ Lines(u)[1] = <<a, p>>
        /\ 2 \in DOMAIN Lines(u) /\ Lines(u)[2] = <<a, q>>
        /\ 3 \in DOMAIN Lines(u) /\ Lines(u)[3] = <<w>>
    <3>1. /\ PipePrints(a, p, q, w) \o tail \in Seq(Tokens)
          /\ PipeLinesAre(Lines(PipePrints(a, p, q, w) \o tail), a, p, q, w)
      <4>1. /\ a \in Tokens \ {NL} /\ p \in Tokens \ {NL} /\ q \in Tokens \ {NL}
            /\ w \in Tokens \ {NL}
        BY <1>4, <2>1
      <4>. QED BY <4>1, PipeLines, Zenon
    <3>. QED BY <2>2, <3>1, Zenon DEF PipeLinesAre
  <2>4. u = console
    BY <1>8, <1>9, <2>2, Zenon DEF PipePrints
  <2>. QED BY <2>3, <2>4, Zenon
<1>11. PICK data : data = Lines(u) /\ data = GradedLines
  BY <1>8, <1>10, Zenon
<1>12. Len(data) >= 3
  <2>1. DOMAIN data = 1 .. Len(data) /\ 3 \in DOMAIN data /\ Len(data) \in Nat
    <3>1. /\ DOMAIN Lines(u) = 1 .. Cardinality(LineStarts(u))
          /\ Len(Lines(u)) = Cardinality(LineStarts(u)) /\ Cardinality(LineStarts(u)) \in Nat
      BY StartsFinite
    <3>. QED BY <1>10, <1>11, <3>1, Zenon
  <2>. QED BY <2>1
<1>13. /\ \E l \in 1 .. 3 : data[l] = <<a, z>>
       /\ \E l \in 1 .. 3 : data[l] = <<a, n>>
  <2>1. 1 \in 1 .. 3 /\ 2 \in 1 .. 3
    OBVIOUS
  <2>2. data[1] = <<a, p>> /\ data[2] = <<a, q>>
    BY <1>10, <1>11, Zenon
  <2>. QED BY <1>9, <2>1, <2>2, Zenon
<1>14. \E l \in 1 .. 3 : data[l] = <<"cpid: ", Num(0)>>
  BY <1>3, <1>5, <1>13, Zenon
<1>15. \E l \in 1 .. 3 : PositiveCpid(data[l])
  <2>1. PositiveCpid(<<a, n>>)
    BY <1>3, <1>5, <1>6, PositiveLine, Zenon
  <2>. QED BY <1>13, <2>1, Zenon
<1>16. data[3] = <<"  Write to pipe successfully.">>
  BY <1>3, <1>10, <1>11, Zenon
<1>17. FullMarks(data)
  BY <1>12, <1>14, <1>15, <1>16, Zenon DEF FullMarks
<1>. QED BY <1>11, <1>17, Zenon

-----------------------------------------------------------------------------
(* Full marks: yield.                                                      *)

(* A set of natural numbers has a least one.                               *)
LEMMA LeastOne ==
  ASSUME NEW S \in SUBSET Nat, S # {}
  PROVE  \E k \in S : \A j \in S : k <= j
<1> DEFINE LT == {x \in Nat \X Nat : x[1] < x[2]}
<1>1. IsWellFoundedOn(LT, Nat)
  BY NatLessThanWellFounded DEF OpToRel
<1>2. PICK k \in S : \A j \in S : ~(<<j, k>> \in LT)
  <2> HIDE DEF LT
  <2>. QED BY <1>1, WFMin
<1>3. ASSUME NEW j \in S PROVE k <= j
  <2>1. j \in Nat /\ k \in Nat
    OBVIOUS
  <2>2. j < k => <<j, k>> \in LT
    BY <2>1
  <2>. QED BY <1>2, <2>1, <2>2
<1>. QED BY <1>3

(* Whatever is not a line feed is in a line.                               *)
LEMMA InALine ==
  ASSUME NEW text \in Seq(Tokens), NEW x \in 1 .. Len(text), text[x] # NL
  PROVE  \E k \in LineStarts(text), e \in 1 .. Len(text) :
           k <= x /\ x <= e /\ EndsLine(text, k, e)
<1>1. PICK n \in Nat : n = Len(text) /\ DOMAIN text = 1 .. n /\ x \in 1 .. n
  OBVIOUS
<1>2. PICK k \in 1 .. x :
        /\ \A i \in k .. x : text[i] # NL
        /\ k = 1 \/ text[k - 1] = NL
  <2>1. PICK S : S = {j \in 1 .. x : \A i \in j .. x : text[i] # NL}
    OBVIOUS
  <2>6. S \in SUBSET Nat
    BY <1>1, <2>1
  <2>2. x \in S
    BY <1>1, <2>1
  <2>3. PICK k \in S : \A j \in S : k <= j
    BY <2>2, <2>6, LeastOne
  <2>4. k \in 1 .. x /\ \A i \in k .. x : text[i] # NL
    BY <2>1
  <2>5. ASSUME k # 1 PROVE text[k - 1] = NL
    <3>1. k - 1 \in 1 .. x /\ ~(k <= k - 1)
      BY <2>4, <2>5
    <3>2. k - 1 \notin S
      BY <2>3, <3>1
    <3>3. PICK i \in k - 1 .. x : text[i] = NL
      BY <2>1, <3>1, <3>2
    <3>4. i = k - 1 \/ i \in k .. x
      BY <2>4, <3>1
    <3>. QED BY <2>4, <3>3, <3>4
  <2>. QED BY <2>4, <2>5
<1>3. PICK e \in x .. n :
        /\ e = n \/ text[e + 1] = NL
        /\ \A i \in x .. e : text[i] # NL
  <2>1. PICK S : S = {j \in x .. n : j = n \/ text[j + 1] = NL}
    OBVIOUS
  <2>6. S \in SUBSET Nat
    BY <1>1, <2>1
  <2>2. n \in S
    BY <1>1, <2>1
  <2>3. PICK e \in S : \A j \in S : e <= j
    BY <2>2, <2>6, LeastOne
  <2>4. e \in x .. n /\ (e = n \/ text[e + 1] = NL)
    BY <2>1
  <2>5. ASSUME NEW i \in x .. e PROVE text[i] # NL
    <3>1. CASE i = x
      BY <3>1
    <3>2. CASE i # x
      <4>1. i - 1 \in x .. n /\ ~(e <= i - 1) /\ i - 1 # n /\ (i - 1) + 1 = i
        BY <1>1, <2>4, <3>2
      <4>2. i - 1 \notin S
        BY <2>3, <4>1
      <4>. QED BY <2>1, <4>1, <4>2
    <3>. QED BY <3>1, <3>2
  <2>. QED BY <2>4, <2>5
<1>4. k \in LineStarts(text)
  <2>1. k \in DOMAIN text /\ text[k] # NL
    BY <1>1, <1>2
  <2>. QED BY <1>2, <2>1 DEF LineStarts
<1>5. EndsLine(text, k, e)
  <2>1. ASSUME NEW i \in k .. e PROVE text[i] # NL
    <3>1. i \in k .. x \/ i \in x .. e
      BY <1>1
    <3>. QED BY <1>2, <1>3, <3>1
  <2>. QED BY <1>1, <1>3, <2>1 DEF EndsLine
<1>6. e \in 1 .. Len(text) /\ k <= x /\ x <= e
  BY <1>1
<1>. QED BY <1>4, <1>5, <1>6

(* Line l is a part of the text.                                           *)
LEMMA PartOfText ==
  ASSUME NEW text \in Seq(Tokens), NEW l \in DOMAIN Lines(text)
  PROVE  DOMAIN Lines(text)[l] \subseteq 1 .. Len(text)
<1>1. PICK N \in Nat : N = Cardinality(LineStarts(text)) /\ DOMAIN Lines(text) = 1 .. N
  BY StartsFinite
<1>2. PICK k \in LineStarts(text) : Rank(text, k) = l - 1
  <2>1. l - 1 \in 0 .. N - 1
    BY <1>1
  <2>. QED BY <1>1, <2>1, Ranks
<1>3. k \in 1 .. Len(text) /\ text[k] # NL
  BY DEF LineStarts
<1>4. PICK j \in LineStarts(text), e \in 1 .. Len(text) :
        j <= k /\ k <= e /\ EndsLine(text, j, e)
  BY <1>3, InALine
<1>5. EndsLine(text, k, e) /\ e \in k .. Len(text)
  <2>1. j \in Int /\ k \in Int
    BY <1>3 DEF LineStarts
  <2>2. \A i \in k .. e : i \in j .. e
    BY <1>4, <2>1
  <2>. QED BY <1>3, <1>4, <2>2 DEF EndsLine
<1>6. Lines(text)[Rank(text, k) + 1] = SubSeq(text, k, e)
  BY <1>5, LineAt
<1>7. Rank(text, k) + 1 = l
  BY <1>1, <1>2
<1>8. DOMAIN SubSeq(text, k, e) \subseteq 1 .. Len(text)
  BY <1>3, <1>5
<1>. QED BY <1>6, <1>7, <1>8

(* The oracle finds each digit as often as it has been printed.            *)
LEMMA DigitsFound ==
  ASSUME NEW text \in Seq(Tokens), NEW d, Num(d) # NL
  PROVE  /\ DigitCount(d, Lines(text)) \in Nat /\ Cardinality(Places(text, Num(d))) \in Nat
         /\ Cardinality(Places(text, Num(d))) <= DigitCount(d, Lines(text))
<1> DEFINE O ==
      UNION {{<<l, k>> : k \in {j \in DOMAIN Lines(text)[l] : Lines(text)[l][j] = Num(d)}} :
             l \in DOMAIN Lines(text)}
<1>1. PICK t : t = Num(d) /\ t # NL
  OBVIOUS
<1>2. PICK N, data :
        /\ N \in Nat
        /\ N = Cardinality(LineStarts(text)) /\ data = Lines(text) /\ DOMAIN data = 1 .. N
  BY StartsFinite
<1>3. \A l, k : l \in DOMAIN data /\ k \in DOMAIN data[l] /\ data[l][k] = t => <<l, k>> \in O
  <2> SUFFICES ASSUME NEW l, NEW k, l \in DOMAIN data, k \in DOMAIN data[l], data[l][k] = t
               PROVE  <<l, k>> \in O
    BY Zenon
  <2>1. k \in {j \in DOMAIN Lines(text)[l] : Lines(text)[l][j] = Num(d)}
    BY <1>1, <1>2, Zenon
  <2>2. <<l, k>> \in {<<l, i>> : i \in {j \in DOMAIN Lines(text)[l] : Lines(text)[l][j] = Num(d)}}
    BY <2>1, Zenon
  <2>3. l \in DOMAIN Lines(text)
    BY <1>2, Zenon
  <2>. QED BY <2>2, <2>3, Zenon
<1>4. O \subseteq (1 .. N) \X (1 .. Len(text))
  <2> SUFFICES ASSUME NEW o \in O PROVE o \in (1 .. N) \X (1 .. Len(text))
    BY Zenon
  <2>1. PICK l, k : l \in DOMAIN data /\ k \in DOMAIN data[l] /\ o = <<l, k>>
    BY <1>2, Zenon
  <2>2. k \in 1 .. Len(text)
    BY <1>2, <2>1, PartOfText, Zenon
  <2>. QED BY <1>2, <2>1, <2>2
<1>5. IsFiniteSet(O) /\ Cardinality(O) \in Nat
  <2> HIDE DEF O
  <2>1. IsFiniteSet(1 .. N) /\ IsFiniteSet(1 .. Len(text))
    <3>1. 1 \in Int /\ N \in Int /\ Len(text) \in Int
      BY <1>2
    <3>. QED BY <3>1, FS_Interval
  <2>2. IsFiniteSet((1 .. N) \X (1 .. Len(text)))
    BY <2>1, FS_Product
  <2>. QED BY <1>4, <2>2, FS_Subset, FS_CardinalityType
<1>6. DigitCount(d, Lines(text)) = Cardinality(O)
  BY Zenon DEF DigitCount
<1> HIDE DEF O
<1>7. PICK P : P = Places(text, t) /\ P \subseteq 1 .. Len(text)
  <2>1. Places(text, t) \subseteq 1 .. Len(text)
    BY DEF Places
  <2>. QED BY <2>1
<1>8. \A x \in P : \E k \in LineStarts(text) :
        k <= x /\ <<Rank(text, k) + 1, x - k + 1>> \in O
  <2> SUFFICES ASSUME NEW x \in P
               PROVE  \E k \in LineStarts(text) :
                        k <= x /\ <<Rank(text, k) + 1, x - k + 1>> \in O
    OBVIOUS
  <2>1. x \in 1 .. Len(text) /\ text[x] = t
    BY <1>7 DEF Places
  <2>2. PICK k \in LineStarts(text), e \in 1 .. Len(text) :
          k <= x /\ x <= e /\ EndsLine(text, k, e)
    BY <1>1, <2>1, InALine
  <2>3. k \in 1 .. Len(text) /\ e \in k .. Len(text)
    BY <2>1, <2>2 DEF LineStarts
  <2>4. PICK l : l = Rank(text, k) + 1 /\ l \in DOMAIN data /\ data[l] = SubSeq(text, k, e)
    BY <1>2, <2>2, <2>3, LineAt
  <2>5. PICK s : s = SubSeq(text, k, e)
    OBVIOUS
  <2>6. x - k + 1 \in DOMAIN s /\ s[x - k + 1] = text[x]
    BY <2>1, <2>2, <2>3, <2>5
  <2>7. <<l, x - k + 1>> \in O
    BY <1>3, <2>1, <2>4, <2>5, <2>6, Zenon
  <2>. QED BY <2>2, <2>4, <2>7
<1>9. PICK start \in [P -> LineStarts(text)] :
        \A x \in P : start[x] <= x /\ <<Rank(text, start[x]) + 1, x - start[x] + 1>> \in O
  <2> DEFINE Start(x) == CHOOSE k \in LineStarts(text) :
                           k <= x /\ <<Rank(text, k) + 1, x - k + 1>> \in O
  <2>1. \A x \in P : /\ Start(x) \in LineStarts(text) /\ Start(x) <= x
                     /\ <<Rank(text, Start(x)) + 1, x - Start(x) + 1>> \in O
    BY <1>8, Zenon
  <2> HIDE DEF Start
  <2>2. PICK f : f = [x \in P |-> Start(x)]
    OBVIOUS
  <2>3. f \in [P -> LineStarts(text)] /\ \A x \in P : f[x] = Start(x)
    BY <2>1, <2>2
  <2>. QED BY <2>1, <2>3, Zenon
<1>10. PICK g : g = [x \in P |-> <<Rank(text, start[x]) + 1, x - start[x] + 1>>]
  OBVIOUS
<1>11. g \in Injection(P, O)
  <2>1. g \in [P -> O]
    BY <1>9, <1>10
  <2>2. ASSUME NEW x \in P, NEW y \in P, g[x] = g[y]
        PROVE  x = y
    <3>1. g[x] = <<Rank(text, start[x]) + 1, x - start[x] + 1>>
          /\ g[y] = <<Rank(text, start[y]) + 1, y - start[y] + 1>>
      BY <1>10
    <3>2. Rank(text, start[x]) + 1 = Rank(text, start[y]) + 1 /\ x - start[x] + 1 = y - start[y] + 1
      <4>1. PICK a, b, c, e :
              /\ a = Rank(text, start[x]) + 1 /\ b = x - start[x] + 1
              /\ c = Rank(text, start[y]) + 1 /\ e = y - start[y] + 1
        OBVIOUS
      <4>2. <<a, b>> = <<c, e>>
        BY <2>2, <3>1, <4>1, Zenon
      <4>3. a = c /\ b = e
        BY <4>2
      <4>. QED BY <4>1, <4>3, Zenon
    <3>3. start[x] \in LineStarts(text) /\ start[y] \in LineStarts(text)
      OBVIOUS
    <3>4. Rank(text, start[x]) \in Int /\ Rank(text, start[y]) \in Int
      <4>1. \A k \in LineStarts(text) : Rank(text, k) \in 0 .. N - 1
        BY <1>2, Ranks
      <4>. QED BY <3>3, <4>1
    <3>5. Rank(text, start[x]) = Rank(text, start[y])
      BY <3>2, <3>4
    <3>6. start[x] = start[y]
      BY <3>3, <3>5, Ranks
    <3>7. PICK k \in Int : k = start[x] /\ k = start[y]
      BY <3>3, <3>6 DEF LineStarts
    <3>8. x \in Int /\ y \in Int
      BY <1>7
    <3>. QED BY <3>2, <3>7, <3>8
  <2>. QED BY <2>1, <2>2 DEF Injection, IsInjective
<1>12. Cardinality(P) <= Cardinality(O) /\ Cardinality(P) \in Nat
  BY <1>5, <1>11, FS_Injection, FS_CardinalityType
<1>. QED BY <1>1, <1>5, <1>6, <1>7, <1>12, Zenon

(* yield.c gets full marks.                                                *)
LEMMA YieldMarks ==
  ASSUME TypesOK, Ended, ~failed, program = "yield", Yielded
  PROVE  FullMarks(GradedLines)
<1>1. PICK text \in Seq(Tokens) : Reports(text, "END") /\ YieldText(text)
  BY Zenon DEF Yielded
<1>2. GradedLines = Lines(text)
  <2>1. "END" \in Texts
    BY Zenon DEF Texts
  <2>. QED BY <1>1, <2>1, ReportEnds, Zenon
<1>3. Len(Lines(text)) = CHILDREN * ROUNDS
  BY <1>1, YieldLinesCount
<1>4. PICK r \in [Ids -> {0, ROUNDS}] :
        /\ Tally(text, r, [i \in Ids |-> 0])
        /\ \A i \in Ids : r[i] # 0
  BY <1>1 DEF YieldText
<1>5. ASSUME NEW d \in 0 .. CHILDREN - 1
      PROVE  DigitCount(d, Lines(text)) >= DIGITS
  <2>1. d \in Ids /\ r[d] = ROUNDS
    BY <1>4 DEF Ids
  <2>4. Num(d) # NL
    BY NumAssumption
  <2>2. PICK c \in Nat : c = Cardinality(Places(text, Num(d)))
    BY <2>4, DigitsFound
  <2>3. c >= ROUNDS
    <3>1. PICK s : s = [i \in Ids |-> 0]
      OBVIOUS
    <3>2. s[d] = 0
      BY <2>1, <3>1
    <3>3. Tally(text, r, s)
      BY <1>4, <3>1
    <3>4. Cardinality(Places(text, Num(d))) >= r[d] + (IF s[d] = 2 THEN 1 ELSE 0)
      BY <2>1, <3>3 DEF Tally
    <3>. QED BY <2>1, <2>2, <3>2, <3>4, ConsoleAssumption
  <2>5. DigitCount(d, Lines(text)) \in Nat /\ c <= DigitCount(d, Lines(text))
    BY <2>2, <2>4, DigitsFound
  <2>. QED BY <2>3, <2>5, ConsoleAssumption
<1>6. FullMarks(Lines(text))
  <2>1. \A d \in 0 .. CHILDREN - 1 : DigitCount(d, Lines(text)) >= DIGITS
    BY <1>5
  <2>. QED BY <1>3, <2>1, Zenon DEF FullMarks
<1>. QED BY <1>2, <1>6, Zenon

(* If no call fails, every schedule of parent and children gives full      *)
(* marks: of pipe.c, if the kernel keeps the writes of a line together     *)
(* (stdio.c:74-130, fork.c, wait.c, waitpid.c, clone.c, yield.c, pipe.c    *)
(* and their oracles).                                                     *)
THEOREM EveryScheduleFullMarks == Spec => []MarksOnEverySchedule
<1>1. ConsoleInv => MarksOnEverySchedule
  <2> SUFFICES ASSUME ConsoleInv, Ended, ~failed, program = "pipe" => whole
               PROVE  FullMarks(GradedLines)
    BY DEF MarksOnEverySchedule
  <2>1. TypesOK /\ program \in Programs /\ todo[Main] = <<>>
    BY PidAssumption DEF ConsoleInv, TypesOK, Ended
  <2>2. CASE program \in Simple
    <3>1. todo[Main] # <<Call("fork", 0)>> /\ \A who : ~Waits(who)
      BY <2>1 DEF Waits
    <3>2. Reporting
      BY <2>2, <3>1 DEF ConsoleInv, SimpleInv, Beginning, Waiting, Failing
    <3>. QED BY <2>1, <2>2, <3>2, SimpleMarks
  <2>3. CASE program = "pipe"
    <3>1. /\ todo[Main] # <<Call("pipe", 0), Call("fork", 0)>>
          /\ todo[Main] # <<Call("fork", 0)>>
      BY <2>1
    <3>2. ~Sharing
      <4>1. \A c \in Pid : status[c] # "live" /\ status[c] # "zombie"
        BY DEF Ended
      <4>. QED BY <4>1, Zenon DEF Sharing
    <3>3. Passing
      BY <2>3, <3>1, <3>2 DEF ConsoleInv, PipeInv, Opening, PipeFailing
    <3>. QED BY <2>1, <2>3, <3>3, PipeMarks
  <2>4. CASE program = "yield"
    <3>1. Yielded
      BY <2>1, <2>4, NotYielding DEF ConsoleInv, YieldInv
    <3>. QED BY <2>1, <2>4, <3>1, YieldMarks
  <2>. QED BY <2>1, <2>2, <2>3, <2>4, SixPrograms DEF Simple
<1>. QED BY <1>1, ConsoleInductive, PTL

=============================================================================
