-------------------------------- MODULE Slip --------------------------------
(***************************************************************************)
(* The bytes under an answer of KTool: ktool.py's SLIP frames (write,      *)
(* recv_one_return) on a serial line that may lose or add a byte.  The     *)
(* board frames its answers the way write() frames the requests.           *)
(***************************************************************************)
EXTENDS Integers, SequencesExt

CONSTANTS
  Packets,     (* what an answer may be; none is empty                     *)
  MaxPackets,  (* bound: answers of the board                              *)
  MaxCalls,    (* bound: calls of recv_one_return()                        *)
  MaxBytes     (* bound: bytes lost or added on the line                   *)

END     == "c0"
ESC     == "db"
ESC_END == "dc"
ESC_ESC == "dd"
Bytes   == {END, ESC, ESC_END, ESC_ESC, "00"}

ASSUME SlipAssumption ==
  /\ Packets \subseteq Seq(Bytes) \ {<<>>}
  /\ {MaxPackets, MaxCalls, MaxBytes} \subseteq Nat

VARIABLES
  sent,      (* the answers the board has written                          *)
  wire,      (* the bytes that have not been read                          *)
  loop,      (* of recv_one_return(): "start", "frame"; "idle", "closed"   *)
  in_escape,
  frame,     (* the bytes of the frame so far                              *)
  got,       (* what the calls have returned                               *)
  calls,     (* how many there were                                        *)
  disturbed  (* history: bytes lost or added                               *)

call == <<loop, in_escape, frame, got, calls>>
slipvars == <<sent, wire, call, disturbed>>

SlipInit ==
  /\ sent = <<>> /\ wire = <<>>
  /\ loop = "idle" /\ in_escape = FALSE /\ frame = <<>>
  /\ got = <<>> /\ calls = 0
  /\ disturbed = 0

-----------------------------------------------------------------------------
(* Sending.                                                                *)

replace(s, b, by) == FlattenSeq([i \in DOMAIN s |-> IF s[i] = b THEN by ELSE <<s[i]>>])

(* Mutant: the other order, which escapes escapes.                         *)
FrameSwapped(packet) ==
  <<END>> \o replace(replace(packet, END, <<ESC, ESC_END>>), ESC, <<ESC, ESC_ESC>>) \o <<END>>

Frame(packet) ==
  <<END>> \o replace(replace(packet, ESC, <<ESC, ESC_ESC>>), END, <<ESC, ESC_END>>) \o <<END>>

write ==
  /\ Len(sent) < MaxPackets
  /\ \E p \in Packets : sent' = Append(sent, p) /\ wire' = wire \o Frame(p)
  /\ UNCHANGED <<call, disturbed>>

(* A byte is lost, or one is added.                                        *)
Disturb ==
  /\ disturbed < MaxBytes
  /\ disturbed' = disturbed + 1
  /\ \/ \E i \in DOMAIN wire : wire' = RemoveAt(wire, i)
     \/ \E i \in 1 .. Len(wire) + 1, b \in Bytes : wire' = InsertAt(wire, i, b)
  /\ UNCHANGED <<sent, call>>

-----------------------------------------------------------------------------
(* recv_one_return().                                                      *)

(* Mutant: the bytes of the last frame are still there.                    *)
CallKeepsData ==
  /\ loop = "idle" /\ calls < MaxCalls
  /\ loop' = "start" /\ in_escape' = FALSE /\ calls' = calls + 1
  /\ UNCHANGED <<sent, wire, frame, got, disturbed>>

Call ==
  /\ loop = "idle" /\ calls < MaxCalls
  /\ loop' = "start" /\ in_escape' = FALSE /\ frame' = <<>> /\ calls' = calls + 1
  /\ UNCHANGED <<sent, wire, got, disturbed>>

Read(byte) == wire # <<>> /\ byte = Head(wire) /\ wire' = Tail(wire)

(* Mutant: only the first loop looks at the time.                          *)
StartDeadline ==
  /\ loop = "start"
  /\ loop' = "closed"
  /\ UNCHANGED <<sent, wire, in_escape, frame, got, calls, disturbed>>

(* Time is up, in either loop; whatever is raised closes the port.         *)
Deadline ==
  /\ loop \in {"start", "frame"}
  /\ loop' = "closed"
  /\ UNCHANGED <<sent, wire, in_escape, frame, got, calls, disturbed>>

WaitFrameStart ==
  /\ loop = "start"
  /\ \E b \in Bytes : Read(b) /\ loop' = IF b = END THEN "frame" ELSE "start"
  /\ UNCHANGED <<sent, in_escape, frame, got, calls, disturbed>>

(* The end code ends the frame, also after an escape code.                 *)
FrameEnd ==
  /\ loop = "frame" /\ Read(END)
  /\ loop' = "idle" /\ got' = Append(got, frame)
  /\ UNCHANGED <<sent, in_escape, frame, calls, disturbed>>

Unescaped(b) == CASE b = ESC_END -> END [] b = ESC_ESC -> ESC

FrameByte ==
  /\ loop = "frame"
  /\ \E b \in Bytes \ {END} :
       /\ Read(b)
       /\ IF in_escape
          THEN /\ b \in {ESC_END, ESC_ESC}
               /\ frame' = Append(frame, Unescaped(b)) /\ in_escape' = FALSE
          ELSE IF b = ESC THEN in_escape' = TRUE /\ UNCHANGED frame
          ELSE frame' = Append(frame, b) /\ UNCHANGED in_escape
  /\ UNCHANGED <<sent, loop, got, calls, disturbed>>

(* After an escape code comes neither of its two codes, or nothing within  *)
(* the 0.1 s that a read waits. Without an escape code such a read adds    *)
(* nothing.                                                                *)
BadEscape ==
  /\ loop = "frame" /\ in_escape
  /\ \/ wire = <<>> /\ UNCHANGED wire
     \/ \E b \in Bytes \ {END, ESC_END, ESC_ESC} : Read(b)
  /\ loop' = "closed" /\ in_escape' = FALSE
  /\ UNCHANGED <<sent, frame, got, calls, disturbed>>

recv_one_return ==
  Call \/ Deadline \/ WaitFrameStart \/ FrameEnd \/ FrameByte \/ BadEscape

SlipNext == write \/ Disturb \/ recv_one_return

(* The clock goes on.                                                      *)
SlipFairness == WF_slipvars(Deadline)

SlipSpec == SlipInit /\ [][SlipNext]_slipvars /\ SlipFairness

-----------------------------------------------------------------------------

(* While the line does no harm, the calls return the answers whole and in  *)
(* order, whatever bytes they are made of, and however the reads fall      *)
(* (ktool.py:761-804).                                                     *)
CleanLineIsFifo == disturbed = 0 => IsPrefix(got, sent)

(* One lost or added byte spoils at most one answer: what is returned      *)
(* besides it is empty or an answer, and the answers are in order. The     *)
(* faults of KTool's line are those.                                       *)
OneByteSpoilsOne ==
  disturbed <= 1 =>
    \E spoiled \in 1 .. Len(got) + 1 :
      LET others == {k \in DOMAIN got : k # spoiled /\ got[k] # <<>>}
      IN  \E at \in [others -> DOMAIN sent] :
            /\ \A k \in others : got[k] = sent[at[k]]
            /\ \A j, k \in others : j < k => at[j] < at[k]

(* Every call ends, though bytes may never stop or the end never come.     *)
CallsEnd == (loop \in {"start", "frame"}) ~> (loop \in {"idle", "closed"})

=============================================================================
