------------------------------- MODULE SshRun -------------------------------
(***************************************************************************)
(* user/src/oscomp/ssh_run.py: up to three sessions of ktool.py put a      *)
(* program into the board's flash that fills its SD card; when that program*)
(* has said "finish", kflash puts the kernel there, and what the board then*)
(* prints is captured until it is silent.                                  *)
(***************************************************************************)
EXTENDS KTool

CONSTANTS
  ATTEMPTS, (* sessions of each kind, 3 in the source                      *)
  WAIT,     (* 180 s, in the shortest time in which readline() returns     *)
  MaxLines  (* bound: lines the kernel prints                              *)

ASSUME SshRunAssumption == {ATTEMPTS, WAIT, MaxLines} \subseteq Nat \ {0}

VARIABLES
  phase,   (* where prepare_sdcard() or ssh_run() is, or how it ended      *)
  session, (* i of the loops: which session it is                          *)
  reading, (* where readline() is: "no", at the "first" byte or the "next",*)
           (* or a "byte" has come                                         *)
  elapsed, (* use_time, in the unit of WAIT                                *)
  captured (* lines written to k210_serial_out.txt                         *)

sshvars == <<phase, session, reading, elapsed, captured>>

SshInit ==
  /\ Init
  /\ phase = "sdcard" /\ session = 0
  /\ reading = "no" /\ elapsed = 0 /\ captured = 0

Raise == phase' = "raised" /\ UNCHANGED <<session, reading, elapsed, captured>>

-----------------------------------------------------------------------------
(* readline(). The timeout of the port, 5 s or 2 s, is that of one byte: a *)
(* call ends with a line feed or when no byte has come for that long, and  *)
(* returns what has come by then. Nothing limits the line.                 *)

InReadline == phase \in {"wait", "capture"} /\ reading \in {"first", "next"}

(* Mutant: every call is given the whole time.                             *)
CallReadlineAfresh ==
  /\ phase \in {"wait", "capture"} /\ reading = "no"
  /\ reading' = "first" /\ elapsed' = 0
  /\ UNCHANGED <<vars, phase, session, captured>>

(* Only prepare_sdcard() looks at the clock, and before a call only.       *)
CallReadline ==
  /\ phase \in {"wait", "capture"} /\ reading = "no"
  /\ IF phase = "wait" /\ elapsed >= WAIT THEN Raise
     ELSE reading' = "first" /\ UNCHANGED <<phase, session, elapsed, captured>>
  /\ UNCHANGED vars

(* A byte that is no line feed, and the wait for the one behind it.        *)
ReadByte ==
  /\ \/ InReadline /\ (phase = "capture" => captured < MaxLines) /\ reading' = "byte"
     \/ reading = "byte" /\ reading' = "next"
  /\ UNCHANGED <<vars, phase, session, elapsed, captured>>

-----------------------------------------------------------------------------
(* prepare_sdcard().                                                       *)

KToolStep == phase = "sdcard" /\ Next /\ UNCHANGED sshvars

(* A process of its own; the board is as the last one left it.             *)
NewProcess ==
  /\ pc' = "start" /\ Board' = Normal(job.Board)
  /\ script' = <<>> /\ tries' = 0 /\ f' = 1 /\ n' = 1 /\ address' = 1
  /\ hostfast' = FALSE /\ dump' = <<>>
  /\ exit' = -1 /\ log' = FALSE
  /\ kinds' = {} /\ expected' = mem
  /\ UNCHANGED <<job, serial, device, faults>>

(* "[ERROR]" in what ktool.py printed, and nothing else, asks for another  *)
(* session.                                                                *)
EvaluateSession ==
  /\ phase = "sdcard" /\ pc = "exited" /\ log
  /\ IF session + 1 < ATTEMPTS
     THEN /\ session' = session + 1 /\ NewProcess
          /\ UNCHANGED <<phase, reading, elapsed, captured>>
     ELSE Raise /\ UNCHANGED vars

(* setDTR(False), setRTS(True), setRTS(False) on a port just opened.       *)
Pulse ==
  LET C(st, old, new) == NextStage(job.attached, st, old, new)
  IN  /\ stage' = C(C(C(stage, lines, Both), Both, RTS), RTS, Idle)
      /\ lines' = Idle

(* serial.Serial() raises when there is no port; isOpen() is then not      *)
(* reached.                                                                *)
OpenSerial(next) ==
  /\ \/ /\ Pulse /\ phase' = next
        /\ UNCHANGED <<faults, kinds, session, reading, elapsed, captured>>
     \/ Happens("noport") /\ Raise /\ UNCHANGED <<stage, lines>>
  /\ UNCHANGED <<job, pc, host, ended, port, rx, devfast, sram, mem, expected>>

StartWriter ==
  /\ phase = "sdcard" /\ pc = "exited" /\ ~log
  /\ OpenSerial("wait")

(* readline() has returned: a line, whole or not, or nothing.              *)
WaitForFinish ==
  /\ phase = "wait" /\ InReadline
  /\ reading' = "no"
  /\ elapsed' \in elapsed + 1 .. WAIT
  /\ \E finish \in IF stage = "app" /\ reading = "next" THEN BOOLEAN ELSE {FALSE} :
       IF finish THEN phase' = "kernel" /\ session' = 0 ELSE UNCHANGED <<phase, session>>
  /\ UNCHANGED <<vars, captured>>

-----------------------------------------------------------------------------
(* ssh_run(). kflash is not part of the repository: it prints "[ERROR]" or *)
(* not, and leaves the board in its program or in the ISP.                 *)

FlashKernel ==
  /\ phase = "kernel"
  /\ stage' \in {"app", "isp"}
  /\ \E error \in BOOLEAN :
       IF ~error THEN phase' = "flashed" /\ UNCHANGED <<session, captured>>
       ELSE IF session + 1 = ATTEMPTS THEN Raise
       ELSE session' = session + 1 /\ UNCHANGED <<phase, captured>>
  /\ UNCHANGED <<job, pc, host, ended, serial, devfast, sram, mem, hist, reading, elapsed>>

StartKernel == phase = "flashed" /\ OpenSerial("capture")

(* readline() has returned a line, or nothing after two seconds of silence.*)
CaptureLine ==
  /\ phase = "capture" /\ InReadline
  /\ reading' = "no"
  /\ \/ captured < MaxLines /\ captured' = captured + 1 /\ UNCHANGED phase
     \/ reading = "first" /\ phase' = "reported" /\ UNCHANGED captured
  /\ UNCHANGED <<vars, session, elapsed>>

SshNext ==
  \/ KToolStep \/ EvaluateSession \/ StartWriter
  \/ CallReadline \/ ReadByte \/ WaitForFinish
  \/ FlashKernel \/ StartKernel \/ CaptureLine

SshSpec ==
  /\ SshInit /\ [][SshNext]_<<vars, sshvars>>
  /\ WF_<<vars, sshvars>>(SshNext)

-----------------------------------------------------------------------------

(* A session on a quiet line flashes the board and starts what it flashed, *)
(* whatever the sessions before it left behind: a half loaded ISP, a board *)
(* at the wrong baudrate, packets nobody read. Another session is therefore*)
(* worth it (ssh_run.py:22-37).                                            *)
RightJob ==
  /\ job.mode = "flash" /\ job.found /\ job.form # "elf"
  /\ job.Board = "dan" /\ job.attached = "dan"

RetryStartsAfresh ==
  phase = "sdcard" /\ pc = "exited" /\ kinds = {} /\ RightJob =>
    exit = 0 /\ ~log /\ mem = expected /\ stage = "app"

(* prepare_sdcard() ends, though the board may print for ever without a    *)
(* "finish" or not at all, and though ktool.py may fail every time, if the *)
(* board does not print for ever without a line feed either: every call of *)
(* readline() returns (ssh_run.py:22, 59-62).                              *)
LinesEnd    == []<>(reading = "no")
PrepareEnds == LinesEnd => <>(phase \in {"kernel", "raised"})

(* ssh_run.py:59-61, "if use_time > 180: ... Flash time too long": the wait*)
(* for the writer ends, whatever the board prints.                         *)
WaitIsLimited == <>(phase \in {"kernel", "raised"})

(* ssh_run.py:34, "too many retries of flashing the SD card (more than 3)":*)
(* without that exception the last session has succeeded.                  *)
FlashedOrRaised == phase \in {"wait", "kernel", "flashed", "capture", "reported"} => exit = 0

=============================================================================
