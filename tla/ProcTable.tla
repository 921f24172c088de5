----------------------------- MODULE ProcTable ------------------------------
(***************************************************************************)
(* The part of the RendezvOS kernel that fork, exit and wait4 are used     *)
(* for, as the test programs rely on it: a process table with zombies that *)
(* their parent has to reap.  The kernel is not in this repository: this   *)
(* is what the calls in user/lib/syscall.c must mean for the tests to pass.*)
(***************************************************************************)
EXTENDS Integers

CONSTANTS
  Pid,  (* the process numbers the kernel hands out, and hands out again   *)
  Main  (* the process that runs the test program's main()                 *)

ASSUME PidAssumption ==
  /\ Pid \subseteq Nat \ {0}
  /\ Main \in Pid

NoPid == 0

VARIABLES
  status, (* "free", "live" or "zombie"                                    *)
  parent, (* who may wait for the process; NoPid once it is orphaned       *)
  code    (* the argument of its exit()                                    *)

procVars == <<status, parent, code>>

ProcInit ==
  /\ status = [p \in Pid |-> IF p = Main THEN "live" ELSE "free"]
  /\ parent = [p \in Pid |-> NoPid]
  /\ code = [p \in Pid |-> 0]

ProcTypeOK ==
  /\ status \in [Pid -> {"free", "live", "zombie"}]
  /\ parent \in [Pid -> Pid \cup {NoPid}]
  /\ code \in [Pid -> Int]

Children(p) == {c \in Pid : parent[c] = p /\ status[c] # "free"}

(* fork(): the child c is a process number that is not in use.             *)
Fork(p, c) ==
  /\ status[c] = "free"
  /\ status' = [status EXCEPT ![c] = "live"]
  /\ parent' = [parent EXCEPT ![c] = p]
  /\ UNCHANGED code

(* Mutant: the children of the caller keep their dead parent.              *)
ExitKeepsChildren(p, x) ==
  /\ status' = [status EXCEPT ![p] = IF parent[p] = NoPid THEN "free" ELSE "zombie"]
  /\ code' = [code EXCEPT ![p] = x]
  /\ UNCHANGED parent

(* exit(x): the caller becomes a zombie, unless nobody can wait for it;    *)
(* its children are orphaned and those already dead disappear.             *)
Exit(p, x) ==
  /\ status' = [q \in Pid |->
                  IF q = p THEN IF parent[p] = NoPid THEN "free" ELSE "zombie"
                  ELSE IF parent[q] = p /\ status[q] = "zombie" THEN "free"
                  ELSE status[q]]
  /\ parent' = [q \in Pid |-> IF parent[q] = p THEN NoPid ELSE parent[q]]
  /\ code' = [code EXCEPT ![p] = x]

(* What wait4(who, ...) may return: a dead child; -1 (wait4() in syscall.c *)
(* turns every negative return into -1) when no child qualifies; with      *)
(* WNOHANG, 0 when children qualify but none is dead.  An empty set means  *)
(* that the call blocks.                                                   *)
Wait4(p, who, nohang) ==
  LET kids == Children(p) \cap who
      dead == {c \in kids : status[c] = "zombie"}
  IN  IF kids = {} THEN {-1}
      ELSE IF dead # {} THEN dead
      ELSE IF nohang THEN {0} ELSE {}

(* The effect of a wait4 that returned r.                                  *)
Reap(r) ==
  IF r \in Pid
  THEN /\ status' = [status EXCEPT ![r] = "free"]
       /\ parent' = [parent EXCEPT ![r] = NoPid]
       /\ UNCHANGED code
  ELSE UNCHANGED procVars

(* WEXITSTATUS of the status word: the low eight bits of exit's argument.  *)
WEXITSTATUS(c) == code[c] % 256

=============================================================================
