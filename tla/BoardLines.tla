----------------------------- MODULE BoardLines -----------------------------
(***************************************************************************)
(* How ktool.py drives the DTR and RTS lines of the serial adapter to bring*)
(* a K210 board into its ROM ISP and out of it again, and what the circuits*)
(* on the boards make of them.  A setting of the lines is <<DTR, RTS>>.    *)
(***************************************************************************)
EXTENDS Sequences

Settings == BOOLEAN \X BOOLEAN

Both == <<TRUE, TRUE>>    \* as after pyserial has opened the port
Idle == <<FALSE, FALSE>>
DTR  == <<TRUE, FALSE>>
RTS  == <<FALSE, TRUE>>

(* The settings each routine keeps for a tenth of a second. The two lines  *)
(* of a setting change one after the other; the circuits are slow enough   *)
(* not to see what lies between.                                           *)
reset_to_isp_kd233  == <<Idle, DTR, RTS>>
reset_to_boot_kd233 == <<Idle, DTR, Idle>>
reset_to_isp_dan    == <<Idle, RTS, DTR>>
reset_to_boot_dan   == <<Idle, RTS, Idle>>
reset_to_isp_goD    == <<Both, DTR, DTR>>
reset_to_boot_goD   == <<Idle, DTR, Both>>

(* Mutant: the lines of the dan boards.                                    *)
reset_to_boot_as_dan == <<Idle, RTS, Idle>>

reset_to_boot_maixgo == <<Idle, DTR, Idle>>

(* What -B accepts, and "none" when it is not given; maixduino and bit_mic *)
(* are goE by another name.                                                *)
Boards == {"kd233", "dan", "bit", "bit_mic", "goE", "goD", "maixduino", "trainer", "none"}
Normal(b) == IF b \in {"maixduino", "bit_mic"} THEN "goE" ELSE b

ResetToIsp(b) ==
  CASE b \in {"dan", "bit", "trainer"} -> reset_to_isp_dan
    [] b \in {"kd233", "goE"}          -> reset_to_isp_kd233
    [] b = "goD"                       -> reset_to_isp_goD

(* A board that is not known has to be reset by hand.                      *)
ResetToBoot(b) ==
  CASE b \in {"dan", "bit", "trainer"} -> reset_to_boot_dan
    [] b = "kd233"                     -> reset_to_boot_kd233
    [] b = "goE"                       -> reset_to_boot_maixgo
    [] b = "goD"                       -> reset_to_boot_goD
    [] OTHER                           -> <<>>

(* The boards tried one after the other when -B is not given.              *)
Probes(b) == IF b = "none" THEN <<"dan", "kd233", "goD", "kd233">> ELSE <<b>>

-----------------------------------------------------------------------------
(* The boards: one line holds the chip in reset, the other pulls IO16 low, *)
(* which the chip looks at when it leaves reset; kd233 has them the other  *)
(* way round. The adapter of goD answers to changes of the lines.          *)
Circuits == {"dan", "kd233", "goD"}

(* What the chip runs: nothing, the program in its flash, the ROM ISP, the *)
(* second stage ISP, something that is no program, the program in its RAM. *)
Stages == {"off", "app", "rom", "isp", "crashed", "user"}

InReset(c, l) == l = IF c = "dan" THEN RTS ELSE DTR
IO16Low(c, l) == l = IF c = "dan" THEN DTR ELSE RTS

NextStage(c, stage, old, new) ==
  IF c = "goD"
  THEN IF old = Both /\ new = DTR THEN "rom"
       ELSE IF old = DTR /\ new = Both THEN "app" ELSE stage
  ELSE IF InReset(c, new) THEN "off"
       ELSE IF ~InReset(c, old) THEN stage
       ELSE IF IO16Low(c, new) THEN "rom" ELSE "app"

=============================================================================
