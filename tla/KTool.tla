------------------------------- MODULE KTool --------------------------------
(***************************************************************************)
(* One session of user/src/oscomp/ktool.py: it brings a K210 board into its*)
(* ROM ISP, loads a second stage ISP into its SRAM, and through that writes*)
(* a flash chip or SRAM, erases the chip or reads it, over a serial line   *)
(* that loses, cuts or disturbs what the board answers.                    *)
(*                                                                         *)
(* The names of the actions are those of the methods. A request and the    *)
(* wait for its answer are one action: the board does nothing unasked.     *)
(***************************************************************************)
EXTENDS BoardLines, FlashImage, FiniteSets

CONSTANTS
  Jobs,            (* what ktool.py is called for                          *)
  LOADER,          (* chunks of 1 KB in the second stage ISP               *)
  MEM,             (* cells of the memory that is written or read          *)
  MAX_RETRY_TIMES, (* 4 in the source                                      *)
  MAX_ROUNDS,      (* rounds of greetings, 15 in the source                *)
  MaxFaults        (* bound: faults of the line or refusals in a behaviour *)

(* mode "sram" is -s, "erase" -E, "read" -R with rdlen; form and found are *)
(* what the file turns out to be; fast is a baudrate other than 115200;    *)
(* files are the firmware, the entries of a kfpkg or the segments of an ELF*)
(* that are not skipped; attached is the board at the other end.           *)
JobType == [mode : {"flash", "sram", "erase", "read"}, form : {"bin", "kfpkg", "elf"},
            found : BOOLEAN, Board : Boards, attached : Circuits, fast : BOOLEAN,
            rdlen : Nat, files : Seq(Files)]

ASSUME KToolAssumption ==
  /\ Jobs \subseteq JobType
  /\ \A j \in Jobs : j.mode \in {"flash", "sram"} => j.files # <<>>
  /\ {LOADER, MEM, MAX_ROUNDS} \subseteq Nat \ {0}
  /\ {MAX_RETRY_TIMES, MaxFaults} \subseteq Nat

VARIABLES
  job,     (* the call                                                     *)
  pc,      (* the method it is in                                          *)
  Board,   (* args.Board                                                   *)
  script,  (* settings of the lines still to come                          *)
  tries,   (* retry_count; in the greeting, probes made                    *)
  f, n,    (* file and chunk being sent, chunk being loaded, block read    *)
  address, (* where the loader's next chunk goes                           *)
  hostfast,(* the host has changed its baudrate                            *)
  dump,    (* what has been read from the flash                            *)
  exit,    (* exit status; -1 before                                       *)
  log,     (* an "[ERROR]" has been printed                                *)
  port,    (* "open" or "closed"                                           *)
  lines,   (* the setting of DTR and RTS                                   *)
  rx,      (* what has arrived from the board and has not been read        *)
  stage, devfast,
           (* what the board runs, and whether at the new baudrate         *)
  sram,    (* sram[i]: the chunk of the loader at i since the reset, or 0  *)
  mem,     (* the memory the job is about: the flash, or SRAM with -s      *)
  faults,  (* history: how many faults there were                          *)
  kinds,   (* history: of which kinds                                      *)
  expected (* history: mem with every frame ktool.py takes for written     *)

host   == <<Board, script, tries, f, n, address, hostfast, dump>>
ended  == <<exit, log>>
serial == <<port, lines, rx>>
device  == <<stage, devfast, sram, mem>>
hist   == <<faults, kinds, expected>>
vars   == <<job, pc, host, ended, serial, device, hist>>

-----------------------------------------------------------------------------
(* The line. An answer is C0, the body of the packet and C0.               *)

Body(op, ret, at) == <<op, ret, at>>
C0 == Body("C0", "OK", 0)

(* s and e delimit the first packet in q: a stray C0 makes the two C0s that*)
(* meet between packets a packet of their own.                             *)
PacketAt(q, s, e) ==
  /\ s < e /\ q[s] = C0 /\ q[e] = C0
  /\ \A i \in 1 .. e - 1 : q[i] = C0 => i = s

(* recv_one_return(): skip to a C0, take what comes before the next one.   *)
(* Without one the deadline passes and everything has been read.           *)
recv_one_return(q) ==
  IF \E s, e \in DOMAIN q : PacketAt(q, s, e)
  THEN LET p == CHOOSE p \in (DOMAIN q) \X (DOMAIN q) : PacketAt(q, p[1], p[2])
       IN  [got  |-> IF p[2] = p[1] + 1 THEN "empty" ELSE "packet",
            body |-> IF p[2] = p[1] + 1 THEN <<>> ELSE q[p[1] + 1],
            rest |-> SubSeq(q, p[2] + 1, Len(q))]
  ELSE [got |-> "timeout", body |-> <<>>, rest |-> <<>>]

(* The class of the exception: what raise_exception() throws is a plain    *)
(* Exception, an empty packet makes parse() throw an IndexError.           *)
Raised(got) == IF got = "empty" THEN "IndexError" ELSE "Exception"

Losses == {"unheard", "unanswered", "cut"}
Faults == Losses \cup {"refused", "noise", "garbled", "unasked", "noport"}
Kinds  == Faults \cup {"none"}
Asked  == Kinds \ {"unasked", "noport"}

(* What arrives when the board answers b, by kind of fault. A refusal is an*)
(* answer BAD_DATA_CHECKSUM; garbled bodies have an operation or a return  *)
(* code that is in no enumeration.                                         *)
Answers(kind, b) ==
  CASE kind = "none" -> {<<C0, b, C0>>}
    [] kind \in {"unheard", "unanswered"}   -> {<<>>}
    [] kind = "cut"     -> {<<C0, b>>, <<b, C0>>}
    [] kind = "refused" -> {<<C0, Body(b[1], "BAD", 0), C0>>}
    [] kind = "noise"   -> {<<C0, C0, b, C0>>, <<C0, C0, C0, b, C0>>}
    [] kind = "garbled" -> {<<C0, Body("?", "OK", 0), C0>>, <<C0, Body(b[1], "?", 0), C0>>}

RomOps == {"GREET", "MEMORY_WRITE", "MEMORY_BOOT"}

(* The board is at work on op: it runs what serves it, at the host's speed.*)
Serves(op) ==
  /\ stage = IF op \in RomOps THEN "rom" ELSE "isp"
  /\ devfast = hostfast

(* A fault of the given kind, or none, happens.                            *)
Happens(kind) ==
  IF kind = "none" THEN UNCHANGED <<faults, kinds>>
  ELSE /\ faults < MaxFaults
       /\ faults' = faults + 1
       /\ kinds' = kinds \cup {kind}

Obeys(op, kind) == Serves(op) /\ kind \notin {"unheard", "refused"}

(* What recv_one_return() may make of the answer to op.                    *)
Received(op, kind, at) ==
  {recv_one_return(rx \o a) :
     a \in IF Serves(op) THEN Answers(kind, Body(op, "OK", at))
          ELSE IF kind = "none" THEN {<<>>} ELSE {}}

(* A request has been written and an answer read: rest is still to be read.*)
Exchange(kind, rest) ==
  /\ port = "open"
  /\ Happens(kind)
  /\ rx' = rest
  /\ UNCHANGED lines

(* The process ends with exit status c; l: it prints "[ERROR]".            *)
Exit(c, l) ==
  /\ pc' = "exited"
  /\ exit' = c
  /\ log' = (log \/ l)
  /\ port' = "closed"

(* It goes on at p; a deadline that passed has closed the port.            *)
GoTo(p, r) ==
  /\ pc' = p
  /\ port' = IF r.got = "timeout" THEN "closed" ELSE port
  /\ UNCHANGED ended

Op(r)  == r.body[1]
Ret(r) == r.body[2]

-----------------------------------------------------------------------------
(* From the start of process() to the second stage ISP.                    *)

Init ==
  /\ job \in Jobs
  /\ pc = "start"
  /\ Board = Normal(job.Board)
  /\ script = <<>> /\ tries = 0
  /\ f = 1 /\ n = 1 /\ address = 1
  /\ hostfast = FALSE /\ dump = <<>>
  /\ exit = -1 /\ log = FALSE
  /\ port = "closed" /\ lines = Idle /\ rx = <<>>
  /\ stage = "app" /\ devfast = FALSE
  /\ sram = [i \in 1 .. LOADER |-> 0]
  /\ mem = [a \in 0 .. MEM - 1 |-> Old]
  /\ faults = 0 /\ kinds = {} /\ expected = mem

(* Mutant: what came in before is still there.                             *)
OpenPortUnflushed ==
  /\ pc = "start"
  /\ pc' = "file" /\ port' = "open"
  /\ lines' = Both
  /\ stage' = NextStage(job.attached, stage, lines, Both)
  /\ UNCHANGED <<job, host, ended, rx, devfast, sram, mem, hist>>

(* MAIXLoader(): the port is opened, or there is none: "[ERROR]" says so if*)
(* it was to be found, and only the exception's text if it was given.      *)
OpenPort ==
  /\ pc = "start"
  /\ \/ /\ pc' = "file" /\ port' = "open"
        /\ lines' = Both /\ rx' = <<>>
        /\ stage' = NextStage(job.attached, stage, lines, Both)
        /\ UNCHANGED <<ended, faults, kinds>>
     \/ /\ Happens("noport")
        /\ \E detect \in BOOLEAN : Exit(1, detect)
        /\ UNCHANGED <<lines, rx, stage>>
  /\ UNCHANGED <<job, host, devfast, sram, mem, expected>>

CheckFile ==
  /\ pc = "file"
  /\ IF job.mode \in {"flash", "sram"}
        /\ (~job.found \/ (job.form = "elf" /\ job.mode = "flash"))
     THEN Exit(1, TRUE) /\ UNCHANGED <<script, tries>>
     ELSE /\ pc' = "reset" /\ script' = ResetToIsp(Probes(Board)[1]) /\ tries' = 0
          /\ UNCHANGED <<port, ended>>
  /\ UNCHANGED <<job, Board, f, n, address, hostfast, dump, lines, rx, device, hist>>

(* One setting of the lines and the sleep after it; a chip in reset forgets*)
(* what was loaded and its baudrate.                                       *)
SetLines ==
  /\ pc \in {"reset", "reboot"} /\ script # <<>>
  /\ lines' = Head(script)
  /\ script' = Tail(script)
  /\ stage' = NextStage(job.attached, stage, lines, lines')
  /\ IF stage' = "off" \/ (stage' = "rom" /\ stage # "rom")
     THEN devfast' = FALSE /\ sram' = [i \in 1 .. LOADER |-> 0]
     ELSE UNCHANGED <<devfast, sram>>
  /\ UNCHANGED <<job, pc, Board, tries, f, n, address, hostfast, dump, ended, port, rx, mem, hist>>

(* Every packet is an answer. After a TimeoutError the next probe would    *)
(* follow, for MAX_ROUNDS rounds, but what is raised is never one: it ends *)
(* the process with "Greeting fail".                                       *)
greeting ==
  /\ pc = "reset" /\ script = <<>>
  /\ \E kind \in Asked : \E r \in Received("GREET", kind, 0) :
       /\ Exchange(kind, r.rest)
       /\ LET probes == Probes(Board)
              again  == Raised(r.got) = "TimeoutError"
          IN  IF r.got = "packet"
              THEN /\ Board' = probes[(tries % Len(probes)) + 1]
                   /\ GoTo("install", r)
                   /\ UNCHANGED <<script, tries>>
              ELSE IF again /\ tries + 1 < MAX_ROUNDS * Len(probes)
              THEN /\ tries' = tries + 1
                   /\ script' = ResetToIsp(probes[(tries' % Len(probes)) + 1])
                   /\ GoTo("reset", r)
                   /\ UNCHANGED Board
              ELSE Exit(1, again) /\ UNCHANGED <<Board, script, tries>>
  /\ UNCHANGED <<job, f, n, address, hostfast, dump, device, expected>>

(* install_flash_bootloader(): the address moves on with every attempt.    *)
install_flash_bootloader ==
  /\ pc = "install"
  /\ \E kind \in Asked : \E r \in Received("MEMORY_WRITE", kind, 0) :
       /\ Exchange(kind, r.rest)
       /\ sram' = IF Obeys("MEMORY_WRITE", kind) /\ address \in 1 .. LOADER
                  THEN [sram EXCEPT ![address] = n] ELSE sram
       /\ IF r.got # "packet" \/ Ret(r) = "?" THEN Exit(1, FALSE) /\ UNCHANGED n
          ELSE IF Ret(r) = "BAD" THEN GoTo("install", r) /\ UNCHANGED n
          ELSE n' = n + 1 /\ GoTo(IF n = LOADER THEN "boot" ELSE "install", r)
  /\ address' = address + 1
  /\ UNCHANGED <<job, Board, script, tries, f, hostfast, dump, stage, devfast, mem, expected>>

(* boot() waits for no answer; the ROM may give one.                       *)
boot ==
  /\ pc = "boot" /\ pc' = "hello" /\ tries' = 0 /\ n' = 1
  /\ \E kind \in {"none", "unheard", "unasked"} :
       /\ Happens(kind)
       /\ stage' = IF ~Obeys("MEMORY_BOOT", kind) THEN stage
                   ELSE IF \A i \in 1 .. LOADER : sram[i] = i THEN "isp" ELSE "crashed"
       /\ rx' = IF kind = "unasked" THEN rx \o <<C0, Body("MEMORY_BOOT", "OK", 0), C0>> ELSE rx
  /\ UNCHANGED <<job, Board, script, f, address, hostfast, dump, ended, port, lines,
                 devfast, sram, mem, expected>>

-----------------------------------------------------------------------------
(* The second stage ISP.                                                   *)

(* A write to a port that a deadline has closed raises what no retry loop  *)
(* catches, except in send_data_to_isp().                                  *)
WriteToClosedPort ==
  /\ pc \in {"hello", "init", "erase"} /\ port = "closed"
  /\ Exit(1, FALSE)
  /\ UNCHANGED <<job, host, lines, rx, device, hist>>

Confirms(op, r) == r.got = "packet" /\ Op(r) = op /\ Ret(r) = "OK"

(* Mutant: the retries are not counted.                                    *)
RetryForever(op, r, next) ==
  /\ tries' = 0
  /\ IF Confirms(op, r) THEN GoTo(next, r)
     ELSE IF r.got = "packet" /\ Op(r) = op /\ Ret(r) = "?" THEN Exit(1, FALSE)
     ELSE GoTo(pc, r)

(* The loops of flash_greeting() and init_flash(): everything is retried   *)
(* except the right operation with a return code that is none, which raises*)
(* outside the try.                                                        *)
Retry(op, r, next) ==
  IF Confirms(op, r) THEN GoTo(next, r) /\ tries' = 0
  ELSE /\ tries' = tries + 1
       /\ IF r.got = "packet" /\ Op(r) = op /\ Ret(r) = "?" THEN Exit(1, FALSE)
          ELSE IF tries' > MAX_RETRY_TIMES THEN Exit(1, TRUE)
          ELSE GoTo(pc, r)

AfterGreeting ==
  IF job.fast /\ ~hostfast THEN "baud" ELSE IF job.mode = "sram" THEN "load" ELSE "init"

(* Success flushes what has arrived by then, but not what is still to come.*)
flash_greeting ==
  /\ pc = "hello"
  /\ \E kind \in Asked : \E r \in Received("NOP", kind, 0) :
     \E k \in 1 .. Len(r.rest) + 1 :
       /\ Exchange(kind, SubSeq(r.rest, IF Confirms("NOP", r) THEN k ELSE 1, Len(r.rest)))
       /\ Retry("NOP", r, AfterGreeting)
  /\ UNCHANGED <<job, Board, script, f, n, address, hostfast, dump, device, expected>>

(* change_baudrate() does not wait for an answer.                          *)
change_baudrate ==
  /\ pc = "baud" /\ pc' = "hello" /\ tries' = 0
  /\ hostfast' = TRUE
  /\ \E kind \in {"none", "unheard", "unasked"} :
       /\ Happens(kind)
       /\ devfast' = (devfast \/ Obeys("BAUD", kind))
       /\ rx' = IF kind = "unasked" THEN rx \o <<C0, Body("BAUD", "OK", 0), C0>> ELSE rx
  /\ UNCHANGED <<job, Board, script, f, n, address, dump, ended, port, lines,
                 stage, sram, mem, expected>>

LoadToSram ==
  /\ pc = "load"
  /\ IF job.form = "kfpkg" THEN Exit(1, TRUE) ELSE pc' = "send" /\ UNCHANGED <<port, ended>>
  /\ UNCHANGED <<job, host, lines, rx, device, hist>>

init_flash ==
  /\ pc = "init"
  /\ \E kind \in Asked : \E r \in Received("FLASH_INIT", kind, 0) :
       /\ Exchange(kind, r.rest)
       /\ Retry("FLASH_INIT", r, "id")
  /\ UNCHANGED <<job, Board, script, f, n, address, hostfast, dump, device, expected>>

(* get_flash_id() does not mind what it gets.                              *)
get_flash_id ==
  /\ pc = "id"
  /\ \E kind \in Asked : \E r \in Received("FLASH_ID", kind, 0) :
       /\ Exchange(kind, r.rest)
       /\ GoTo(IF job.mode = "flash" THEN "send" ELSE job.mode, r)
  /\ UNCHANGED <<job, host, device, expected>>

(* The end of the process after a parsed answer: parse() and ErrorCode()   *)
(* raise for what they do not know.                                        *)
Unparsable(r) == r.got # "packet" \/ Op(r) = "?" \/ Ret(r) = "?"

flash_erase ==
  /\ pc = "erase"
  /\ \E kind \in Asked : \E r \in Received("FLASH_ERASE", kind, 0) :
       /\ Exchange(kind, r.rest)
       /\ mem' = IF Obeys("FLASH_ERASE", kind) THEN [a \in DOMAIN mem |-> Blank] ELSE mem
       /\ IF Unparsable(r) THEN Exit(1, FALSE) /\ UNCHANGED expected
          ELSE Exit(0, Ret(r) # "OK") /\ expected' = [a \in DOMAIN mem |-> Blank]
  /\ UNCHANGED <<job, host, stage, devfast, sram>>

(* The k-th block that read_flash() asks for.                              *)
ReadSize == IF job.rdlen < LIMIT THEN SECTOR ELSE BLOCK
ReadBlock(k) ==
  [i \in 1 .. ReadSize |->
     LET a == (k - 1) * ReadSize + i - 1 IN IF a \in DOMAIN mem THEN mem[a] ELSE Blank]

BadLength == job.rdlen < SECTOR \/ job.rdlen > MEM

(* A length out of range is noticed only now; before that, get_flash_id()  *)
(* may have lost the port.                                                 *)
RefuseRead ==
  /\ pc = "read" /\ (BadLength \/ port = "closed")
  /\ Exit(1, BadLength)
  /\ UNCHANGED <<job, host, lines, rx, device, hist>>

(* Mutant: the size of the response is not looked at.                      *)
read_unsized ==
  /\ pc = "read" /\ ~BadLength
  /\ \E kind \in Asked : \E r \in Received("FLASH_READ", kind, n) :
       /\ Exchange(kind, r.rest)
       /\ IF r.got # "packet" THEN Exit(1, FALSE) /\ UNCHANGED <<n, dump>>
          ELSE /\ dump' = dump \o ReadBlock(r.body[3])
               /\ n' = n + 1
               /\ IF n * ReadSize >= job.rdlen THEN Exit(0, FALSE) ELSE GoTo("read", r)
  /\ UNCHANGED <<job, Board, script, tries, f, address, hostfast, device, expected>>

(* read_flash(): anything but a block ends it; a wrong checksum is only    *)
(* printed. No answer is waited for twice.                                 *)
read_flash ==
  /\ pc = "read" /\ ~BadLength
  /\ \E kind \in Asked : \E r \in Received("FLASH_READ", kind, n) :
       /\ Exchange(kind, r.rest)
       /\ IF r.got = "timeout" THEN Exit(1, FALSE) /\ UNCHANGED <<n, dump>>
          ELSE IF r.got = "empty" \/ Op(r) # "FLASH_READ" \/ Ret(r) = "BAD"
          THEN Exit(2, TRUE) /\ UNCHANGED <<n, dump>>
          ELSE /\ dump' = dump \o ReadBlock(r.body[3])
               /\ n' = n + 1
               /\ IF n * ReadSize >= job.rdlen THEN Exit(0, Ret(r) = "?")
                  ELSE pc' = "read" /\ log' = (log \/ Ret(r) = "?") /\ UNCHANGED <<port, exit>>
  /\ UNCHANGED <<job, Board, script, tries, f, address, hostfast, device, expected>>

-----------------------------------------------------------------------------
(* Sending the files, and the end.                                         *)

tosram   == job.mode = "sram"
TheFrame == Frame(job.files[f], tosram, n)
SendOp   == IF tosram THEN "SRAM_WRITE" ELSE "FLASH_WRITE"

(* Mutant: one file more than the list has.                                *)
AdvanceTooFar ==
  IF n < TotalChunks(Image(job.files[f], tosram))
  THEN n' = n + 1 /\ pc' = "send" /\ UNCHANGED <<f, script>>
  ELSE f' = f + 1 /\ n' = 1 /\ pc' = "send" /\ UNCHANGED script

(* The next chunk, the next file, or what follows the last one.            *)
Advance ==
  IF n < TotalChunks(Image(job.files[f], tosram))
  THEN n' = n + 1 /\ pc' = "send" /\ UNCHANGED <<f, script>>
  ELSE IF f < Len(job.files)
  THEN f' = f + 1 /\ n' = 1 /\ pc' = "send" /\ UNCHANGED script
  ELSE /\ pc' = (IF tosram THEN "exec" ELSE "reboot")
       /\ script' = (IF tosram THEN <<>> ELSE ResetToBoot(Board))
       /\ UNCHANGED <<f, n>>

(* Mutant: an exception ends the loop as an answer does.                   *)
send_once ==
  /\ pc = "send" /\ port = "open"
  /\ \E kind \in Asked : \E r \in Received(SendOp, kind, 0) :
       /\ Exchange(kind, r.rest)
       /\ mem' = IF Obeys(SendOp, kind) THEN Overwrite(mem, TheFrame) ELSE mem
       /\ expected' = Overwrite(expected, TheFrame)
       /\ Advance
  /\ tries' = 0
  /\ UNCHANGED <<job, Board, address, hostfast, dump, ended, port, stage, devfast, sram>>

(* send_data_to_isp(): whatever can be parsed, a refusal too, ends the loop*)
(* of retries; every exception counts as a try.                            *)
send_data_to_isp ==
  /\ pc = "send" /\ port = "open"
  /\ \E kind \in Asked : \E r \in Received(SendOp, kind, 0) :
       /\ Exchange(kind, r.rest)
       /\ mem' = IF Obeys(SendOp, kind) THEN Overwrite(mem, TheFrame) ELSE mem
       /\ IF ~Unparsable(r)
          THEN /\ Advance /\ tries' = 0
               /\ expected' = Overwrite(expected, TheFrame)
               /\ UNCHANGED <<port, ended>>
          ELSE /\ tries' = tries + 1
               /\ IF tries' > MAX_RETRY_TIMES THEN Exit(2, TRUE) ELSE GoTo("send", r)
               /\ UNCHANGED <<f, n, script, expected>>
  /\ UNCHANGED <<job, Board, address, hostfast, dump, stage, devfast, sram>>

(* The same loop once a deadline has closed the port: no try can succeed.  *)
send_to_closed_port ==
  /\ pc = "send" /\ port = "closed"
  /\ tries' = tries + 1
  /\ IF tries' > MAX_RETRY_TIMES THEN Exit(2, TRUE) ELSE UNCHANGED <<pc, port, ended>>
  /\ UNCHANGED <<job, Board, script, f, n, address, hostfast, dump, lines, rx, device, hist>>

(* "START Program"; what is answered makes no difference.                  *)
start_program ==
  /\ pc = "exec"
  /\ \E kind \in Asked : \E r \in Received("SRAM_EXECUTE", kind, 0) :
       /\ Exchange(kind, r.rest)
       /\ stage' = IF Obeys("SRAM_EXECUTE", kind) THEN "user" ELSE stage
       /\ Exit(IF Unparsable(r) THEN 1 ELSE 0, FALSE)
  /\ UNCHANGED <<job, host, devfast, sram, mem, expected>>

(* "Rebooting...": the port is closed after the last setting.              *)
Rebooted ==
  /\ pc = "reboot" /\ script = <<>>
  /\ Exit(0, FALSE)
  /\ UNCHANGED <<job, host, lines, rx, device, hist>>

Next ==
  \/ OpenPort \/ CheckFile \/ SetLines \/ greeting
  \/ install_flash_bootloader \/ boot
  \/ WriteToClosedPort \/ flash_greeting \/ change_baudrate \/ LoadToSram
  \/ init_flash \/ get_flash_id \/ flash_erase \/ RefuseRead \/ read_flash
  \/ send_data_to_isp \/ send_to_closed_port \/ start_program \/ Rebooted

Spec == Init /\ [][Next]_vars /\ WF_vars(Next)

-----------------------------------------------------------------------------

Ops == {"GREET", "MEMORY_WRITE", "MEMORY_BOOT", "NOP", "BAUD", "FLASH_INIT", "FLASH_ID",
        "FLASH_ERASE", "FLASH_READ", "FLASH_WRITE", "SRAM_WRITE", "SRAM_EXECUTE"}

Tokens == (Ops \cup {"?", "C0"}) \X {"OK", "BAD", "?"} \X Nat

Memory == [0 .. MEM - 1 -> Cells]

TypeOK ==
  /\ job \in Jobs
  /\ pc \in {"start", "file", "reset", "install", "boot", "hello", "baud", "load", "init",
             "id", "erase", "read", "send", "exec", "reboot", "exited"}
  /\ Board \in Boards
  /\ script \in Seq(Settings) /\ lines \in Settings
  /\ tries \in Nat /\ n \in Nat /\ address \in Nat \ {0}
  /\ f \in 1 .. Len(job.files) \cup {1}
  /\ hostfast \in BOOLEAN /\ devfast \in BOOLEAN
  /\ dump \in Seq(Cells)
  /\ exit \in -1 .. 2 /\ log \in BOOLEAN
  /\ port \in {"open", "closed"}
  /\ rx \in Seq(Tokens)
  /\ stage \in Stages
  /\ sram \in [1 .. LOADER -> 0 .. LOADER]
  /\ mem \in Memory /\ expected \in Memory
  /\ faults \in 0 .. MaxFaults /\ kinds \subseteq Faults

(* As long as the line only loses (requests, answers, parts of answers),   *)
(* however often, exit status 0 means that the memory is what all frames   *)
(* make of it, and that an erased chip is blank: a frame sent twice does no*)
(* harm and none is taken for confirmed by the answer to another           *)
(* (ktool.py:1129-1141).                                                   *)
LossesAreNoticed == exit = 0 /\ kinds \subseteq Losses => mem = expected

(* Files that are listed by their address, do not overlap and end within   *)
(* the memory are then all there, whole and at their address, although the *)
(* last chunk of a file is filled up with zeros, over what comes behind it *)
(* (ktool.py:1198).                                                        *)
End(file) == file.at + Len(Image(file, tosram))

LaidOut(files) ==
  /\ \A i \in DOMAIN files : End(files[i]) <= MEM
  /\ \A i \in 1 .. Len(files) - 1 : End(files[i]) <= files[i + 1].at

ReadsBack(file, memory) ==
  LET image == Image(file, tosram)
  IN  \A k \in 1 .. Len(image) : memory[file.at + k - 1] = image[k]

EveryFileReadsBack ==
  exit = 0 /\ job.mode \in {"flash", "sram"} /\ kinds \subseteq Losses /\ LaidOut(job.files) =>
    \A i \in DOMAIN job.files : ReadsBack(job.files[i], mem)

(* Whatever the line does, exit status 0 after writing the flash means that*)
(* the board has left the ISP and runs what is in its flash: the two reset *)
(* sequences fit together on every board (ktool.py:1767-1774).             *)
RebootedIntoApp == exit = 0 /\ job.mode = "flash" => stage = "app"

(* Whatever the line does, what is read with exit status 0 and without     *)
(* "[ERROR]" is the flash from its start, in order, rounded up to whole    *)
(* blocks (ktool.py:1305-1328).                                            *)
DumpIsTrue ==
  exit = 0 /\ job.mode = "read" /\ ~log =>
    /\ Len(dump) >= job.rdlen
    /\ \A i \in 1 .. job.rdlen : dump[i] = mem[i - 1]

(* Every session ends, also when one stray C0 has put all packets out of   *)
(* step for good: the retries are limited (ktool.py:935-968, 1136-1139).   *)
Finishes == <>(pc = "exited")

(* flash_recv_debug() reports a refused frame as "Failed, retry"           *)
(* (ktool.py:1010): exit status 0 means that every frame was written.      *)
RefusedIsRetried == exit = 0 /\ kinds \subseteq {"refused"} => mem = expected

(* recv_debug() reports a refused chunk of the loader as "Failed, retry"   *)
(* (ktool.py:995): when the loader is started every chunk is in its place. *)
LoaderIsResent ==
  pc = "boot" /\ kinds \subseteq {"refused"} => \A i \in 1 .. LOADER : sram[i] = i

=============================================================================
