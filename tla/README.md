# A verification project for user_basic

The repository holds the user side of a small operating-system project: test
programs that run on the RendezvOS kernel, a C library of system-call wrappers
for them (`user/lib`), and Python and shell code on the host that flashes a
board, captures its serial line and grades what was printed. The kernel is not
in the repository.

Nearly every program here is a claim of the form "run me, and if the kernel is
right I print that I passed". The properties below ask whether that is true
*of the programs*: on every schedule, with every failure a call may report, does
a program give the verdict that its source, its comments and its oracle promise?
A test that can fail on a correct kernel, hang on it, or be graded wrongly is
what this project looks for; a program that cannot is proved not to, where the
prover reaches.

## 1. Inventory

| Part | State | Operations | Hard behaviour | What makes it correct |
|---|---|---|---|---|
| `oscomp/test_runner.py`, `test_base.py` | scanner state, name, collected lines, result lists | one turn of the loop over the capture; `get_runner`; `TestBase.start` | tests that abort or have no END line, unknown names | an oracle sees exactly the lines of its test; one bad test does not spoil others |
| `oscomp/run-all.sh`, `stdio.h`, `stdlib.c` | the capture | echo, START/END markers, panic | which tests print which marker | every completed test is graded |
| 31 programs `oscomp/*.c`, oracles `*_test.py` | processes, console | fork, clone, wait, pipe, mmap, files | output of several processes on one console | printed lines are those the oracle asks for, on every schedule |
| `user/src/test/test_fork_wait.c` | process table, counters, flags | fork, exit, wait4 with and without WNOHANG | children exit in any order and at any time; fork fails half way | no false FAIL, no child left for a later test, no zombie |
| `user/src/test/test_phase1.c` | the same, with printed verdicts | the same | the same | verdicts depend on the kernel only; the lines about zombies are true |
| `test_signal_delivery.c`, `test_sig_dfl.c`, `test_sigaltstack.c`, `test_phase2b_signal_basic.c` | handlers, pending signals, flags | sigaction, kill, sigreturn, sigaltstack | handlers run between any two steps | a handler runs once for each signal; default actions |
| `test_mmap*`, `test_mprotect*`, `test_mremap*`, `oscomp_brk/mmap/munmap`, `test_brk_init.c` | an address space | map, protect, move, unmap, brk | errors encoded in pointers, 32-bit truncation | what was written is read back; errors are noticed |
| `test_phase2a_clone.c`, `test_tls_errno.c`, `test_execve*.c`, `lib/tls_init.c` | thread pointer, errno | clone, exec, set_tid_address | order of initialisation | errno is per thread |
| `ucore/ch8b_mpsc_sem.c` | ring, three semaphores | producers put, a consumer takes | any interleaving, full and empty ring | a bounded first-in first-out queue |
| `ucore/ch8b_mut_phi_din.c` | five mutexes | lock in order of number, eat, unlock | circular waiting | no deadlock, neighbours take turns |
| `ucore/ch8_sem1_deadlock.c`, `ch8_sem2_deadlock.c` | semaphores, barrier, exit codes | allocate, meet, request, refuse, give back | deadlock detection; a delay used as a barrier | the thread that would deadlock is refused, units come back |
| `ucore/ch8b_mut_race.c`, `ch8b_spin_mut_race.c` | a shared counter, a mutex | read, compute, write | switches between read and write | no update is lost |
| other `ucore/ch8*` (condition variable, threads, semaphore sync) | mutex, queue of waiters | wait, signal, join | lost wakeups | the second thread runs after the first |
| `ucore/usertest.h`, `ch*_usertest.c`, `usershell.c` | process table, line buffer | fork, exec, waitpid | waiting for the right child; limits of the buffer | counts what exited with 0 |
| chapters 2 to 5 of `ucore` | process table | fork loops, spawn, exit codes, yield, priorities | children in any order | every child is reaped once |
| files and pipes (`ch6*`, `ch7b_pipetest.c`, `oscomp/pipe.c`, ...) | descriptors, pipe buffer | open, read, write, link, pipe | end of file when the last writer closes | reader gets all that was written |
| `user/lib/syscall.c`, `syscall.h`, `main.c` | errno | about sixty wrappers | three conventions for errors | callers test for the convention used |
| `user/lib/string.c`, `stdio.c` | buffers | copy, compare, format | word-at-a-time loops, truncation | the definitions of the C standard |
| `oscomp/ktool.py` | the call, the port and its lines, what is left to read, retry counts; on the board: what it runs, its baudrate, its RAM and flash | enter the ROM ISP, load the second ISP, change the baudrate, write flash or SRAM, erase, read, reset | requests and answers lost, cut, refused or out of step; deadlines that close the port; retries that cannot succeed | exit status 0 means that memory and board are what was asked for; every session ends |
| `ktool.py`: `write`, `recv_one_return` | the frame being read, the escape | send a frame, read one | a byte lost or added anywhere, a frame that does not end | answers come whole and in order; one bad byte spoils one answer |
| `oscomp/ssh_run.py` | sessions, time, the capture | run `ktool.py` up to three times, wait for the SD card's writer, run kflash, capture | a session starts on what a failed one left; silence, endless output | a retry is worth it; every wait ends; failures are noticed |
| `link_app.py` | the two generated files | list, write `manifest.order`, write `link_app.S` | interrupted runs, changed mode or programs | both files are about the same programs in the same order |
| `scripts/run_qemu_user_tests.sh`, `check_tests.py` | counts | run with a timeout, look at exit status | programs that print FAIL and return 0 | verdict agrees with what was printed |
| `lib/arch`, make and CMake files | - | - | - | not modelled: stubs, tables, build |

The parts meet in five ways: `link_app.py` lists the programs for the kernel,
`ssh_run.py` calls `ktool.py` to bring it to a board and captures what it prints; a program
calls wrappers, which call the kernel; processes and threads share the process table, semaphores and memory; everything
printed meets on one console; and the capture of that console is all the grader
sees. `PROJECT.json` lists every component with its status, and every hazard at
its line with the properties that would catch it.

## 2. Modules

| Module | Models | State and actions |
|---|---|---|
| `BoardLines` | the reset routines of `ktool.py:811-914`, which of them is used for which board, and what the circuits make of them | no state: sequences of settings of DTR and RTS, and `NextStage`. The circuits are external |
| `FlashImage` | `flash_firmware()`: header and hash, size and address of the chunks, padding, swapping | no state: functions from a file to its frames, and what a frame does to a memory |
| `KTool` | one session of `ktool.py` with the board at the other end | `pc` names the method; `tries`, `f`, `n`, `address`, `script` are the local variables of the loops, `port`, `rx`, `lines` the serial port, `stage`, `devfast`, `sram`, `mem` the board, and `faults`, `kinds`, `expected` history. One action per method, and two where a method is left by a deadline and entered again on a closed port (`WriteToClosedPort`, `send_to_closed_port`) |
| `MCKTool` | 17 calls: every mode, form of file and board, wrong board, missing file, package in either order | |
| `Slip` | frames byte by byte: `write()` and `recv_one_return()` | `wire` is what has not been read, `frame` and `in_escape` the variables of the loop; one action per branch, `Disturb` for the line |
| `SshRun` | `ssh_run.py`, composed with `KTool` | `phase` is the place in `prepare_sdcard()` or `ssh_run()`; `reading` is the place in `readline()`, which is pyserial's (external): the port's timeout is that of one byte, and the clock (`elapsed`) is looked at between two calls only; `KToolStep` is a step of the session it waits for, `NewProcess` the next one on the same board |
| `MCSshRun` | the command line of `ssh_run.py:18` | |
| `LinkApp` | `link_app.py` | one action per function; `Rebuild` and `Interrupt` between and in runs |
| `MCHostTools` | `Slip`, `LinkApp` and the suite of `MCTestRunner`: one of them runs | `running` says which; they share nothing |
| `TestRunner` | the loop of `test_runner.py:29-60` with `TestBase` | `state`, `test_name`, `data` and the result lists as in the code; `pos` is the loop's position in the capture. One action per branch: `SkipBlank`, `SkipOutside`, `FoundStart`, `FoundEnd`, `NoRunner`, `Collect`, `PrintResults`. `graded` and `from` are history: which lines each oracle was given |
| `SuiteLog` | the captures `run-all.sh` can produce | each test contributes its echo, START, lines and, unless it aborts or has none, END |
| `MCTestRunner` | a suite of six tests | the programs' lines and oracles as data; `fork_wait4` stands for a test without oracle |
| `ProcTable` | what the programs require of fork, exit and wait4 | process numbers that are reused, zombies, orphans, WNOHANG. External: the kernel |
| `ForkWait` | `test_fork_wait.c` | `pc` is main()'s next call; one action per call (`ForkChild`, `ForkError`, `WaitBasic`, `PollWnohang`, `WaitWnohang`, `WaitAny`) and one for what follows a loop or ends the program; `ChildExit` is a child's whole life, for nothing in it is visible to others before its exit |
| `Phase1` | `test_phase1.c` | the same with the verdict lines each test prints; errors are printed and not returned |
| `MCProcesses` | `Phase1` and `Console` over one process table: one of the programs runs | `running` says which |
| `MpscSem` | `ch8b_mpsc_sem.c` | one step per semaphore call and per access to the ring |
| `BoundedFifo` | the abstract specification `MpscSem` implements | `Put`, `Take` |
| `Philosophers` | `ch8b_mut_phi_din.c` | one step per mutex call |
| `DeadlockDetect` | `ch8_sem1_deadlock.c` and `ch8_sem2_deadlock.c`, by their arrays | `program` says which of the two runs; `at` is the call each thread is in, `nth` the resource it is about, `refused` whether it is on the way to exit(-1); one action per call of `deadlock_test`, `try_sem_down` and `sem_dealloc` |
| `MCSems` | `DeadlockDetect`, with the arrays of the two programs, and `MpscSem`: one of the programs runs | `running` says which |
| `RaceAdder` | `ch8b_mut_race.c`, `ch8b_spin_mut_race.c` | `at` is each thread's statement; read and write of the counter are two steps |
| `InOrder` | the abstract specification `Handover` implements: the first works, then the second goes on, once | `Work`, `Resume` |
| `Handover` | `ch8b_test_condvar.c` and `ch8b_sync_sem.c` | `program` says which of the two runs; `call` is each thread's next call, `A` the global `a`; every call, access to `a` and printed line is a step. `CondWait` gives the mutex back and sleeps, `CondReturn` takes it again, `Signal` wakes who sleeps |
| `MCMutexes` | `Philosophers`, `RaceAdder` and `Handover`: one of the programs runs | `running` says which |
| `Console` | `fork.c`, `wait.c`, `waitpid.c`, `clone.c`, `yield.c` and `pipe.c` of `oscomp` with their oracles, on `ProcTable` | `todo` holds the calls each process makes next, which the result of fork() or wait() extends (`AfterFork`, `AfterWait`); `console` is what has been written; `buffer` and `writers` are the pipe. One action per call; `Lines`, `GradedLines` and `FullMarks` are what grader and oracle make of the console |
| `HostProofs` | theorems about `TestRunner`, `SuiteLog`, `Slip` and `LinkApp` | |
| `MutexesProofs` | theorems about `RaceAdder`, `Handover` and `Philosophers` | |
| `KToolProofs` | theorems about `KTool` and `SshRun` | |
| `ForkWaitProofs`, `Phase1Proofs`, `MpscSemProofs`, `DeadlockDetectProofs`, `ConsoleProofs` | theorems about the module of the same name | |

Abstractions worth knowing. A line of the capture is what the grader tells
apart (START, END, blank, other) with the name or text that matters; in `SuiteLog`
and `TestRunner` a test prints one line at a time. In `Console` printf is the
writes it makes, one per literal and one per number, and processes mix between
them; literals of `yield.c` without a line feed, which its oracle does not
look at, belong to the number behind them. What `pipe.c` reads and prints byte by
byte is one step for each token. `WEXITSTATUS` keeps its eight
bits. Semaphores and mutexes are counts and owners without a queue: who gets a
unit among the waiters is open, which allows more schedules than a queue would.
In `DeadlockDetect` a semaphore unit belongs to the thread that took it last,
as a detector must assume. sleep() is a delay of any length.

In `KTool` a request and the wait for its answer are one step, for the board does
nothing unasked (an answer to the two requests that wait for none is the fault
`unasked`). The line hands over tokens: the frame delimiter and bodies with an
operation, a return code and, for a block that was read, its number. What a
fault leaves to be read stays in `rx`, so that later answers may be out of step.
A fault is a request or an answer lost, an answer cut, a frame refused, one or
two stray delimiters, a body that is in no enumeration, no port. That one bad
byte does no worse is what `Slip` says of bytes (`OneByteSpoilsOne`). Memory
is counted in cells; 4 KB, 64 KB and the limit of 128 KB are constants. `-s`,
`-E` and `-R` exclude each other in `JobType`, encryption leaves an image an image.

## 3. Runs

| Run | Bounds | Shows |
|---|---|---|
| `flashing` | 17 calls, chunks of 2 and 4 cells, 12 cells of memory, a loader of 2 chunks, 4 retries and 15 rounds as in the source, up to 3 faults of any kind at any step | exit status 0 means that nothing that was lost is missing, that every file of a list laid out one behind the other (`LaidOut`) is there whole, that the board has left the ISP, that what was read is the flash; every session ends |
| `flashing_refused` | the same with up to 2 faults | violated: a refused frame is not sent again, though `ktool.py:1010` says "Failed, retry" |
| `flashing_loader` | the same with one fault | violated: a refused chunk of the loader is sent again, as `ktool.py:995` says, but to the address behind it |
| `serial` | one job, 3 sessions as in the source, up to 3 faults, 3 turns of the waiting loop, 2 lines of the kernel | a session on a quiet line succeeds whatever the one before left; preparing the card ends if the board does not print for ever without a line feed |
| `serial_endless` | the same without faults | violated: a line without end holds `readline()`, and `prepare_sdcard()`, for ever, though `ssh_run.py:61` says "Flash time too long" |
| `serial_silent` | the same with up to 2 faults | violated: a session that failed without "[ERROR]" is taken for a success |
| `host_tools` | 3 answers of 2 kinds with every special byte, 3 calls, one byte lost or added; 3 program names, 3 runs; 6 tests, one without END line, one without oracle, every combination of aborts | frames arrive whole and in order, one byte spoils one; both generated files agree after every complete run; what is held and what is graded is one segment each time, a KeyError is reached, and a test after a completed one gets full marks whatever happened earlier |
| `fork_wait` | 5 process numbers, 3 children, fork may fail at any call | no false failure, no inherited child, counts match, no zombie for ever |
| `processes` | 4 process numbers; `test_phase1.c` where fork may fail at any call, and the six oscomp programs where fork, clone or pipe may fail at any call with -1 or another number; three children of one line in `yield.c` | verdicts and marks are determined by the failures alone: full marks on every schedule if nothing fails, never if something does; the line about zombies is true; nothing is printed behind a marker; every program ends and leaves no process |
| `console_pipe` | `pipe.c` alone | violated: on a kernel that switches within a printf, `pipe_test.py:21` fails though nothing is wrong |
| `mutexes` | 5 philosophers as in the source, 2 rounds; 3 adders, 2 rounds; both programs of `Handover`, unchanged | no deadlock, neighbours take turns, no fork is kept; the right sum; no wakeup is lost, and `Handover` refines `InOrder`; every program prints that it passed |
| `sems` | 3 producers of 2 entries, 2 slots; the arrays of the other two sources, unchanged | the ring refines `BoundedFifo` and never overflows; exactly one refusal when all threads are in time, or none; units come back; every program ends |

Why the bounds are enough. The ring of two slots is filled, emptied and wrapped
several times by six entries; producers are numbered from 1, so that a slot never
written (0) is told from an entry, which the source, where one producer has the
number 0, could not do. Two rounds let a philosopher come back to a table in
every state of its neighbours. The process table has one number more than the
children that are alive at once, and numbers are reused. A capture is as long as
the tests in it make it. `DeadlockDetect` needs no bound: threads, resources and
units are those of the programs.

In `KTool` the images have one, two and three chunks, of sectors and of blocks (on
either side of the limit), with a last chunk that is padded or full, and the two
files of a package are listed by address or the other way round; three
faults are what it takes to use up the retries of a loop that gives up at the
first deadline, or to put the answers one out of step (noise), lose one and
refuse another. `serial` lets them all happen in the first sessions and leaves a
quiet line to the last. In `Slip` the byte that is lost or added may be any
delimiter, escape or code, anywhere between the first of three answers and the
last. Three runs of `link_app.py` are a complete one, one that is interrupted
between its two files, and one that finds what that has left.

In `Console` `yield.c` has its three children, but each prints one line instead
of five and the oracle asks for each digit once: three lines of three writes mix in every
way, and more of the same mix no differently. There is one process number for
every process of the largest program. Whether the kernel switches within a
printf is chosen in the initial state (`whole`): `pipe.c` gets full marks in the
one case only, the other programs in both. `Handover` has no bound to choose.

Deadlock checking is switched off in every cfg because every program ends;
`Finishes`, `RingFinishes`, `EveryProgramPasses`, `TableEmptied` and `NoDeadlock` say that it does
not stop earlier.

Four runs hold programs that share nothing but the kernel's objects they are
about, or a host (`mutexes`, `sems`, `processes`, `host_tools`). The initial state
chooses which program runs (`running`); the variables of the others keep their
initial values, and the fairness assumed is that of the program that runs.

Fairness is weak fairness of each process or thread (and of main): the kernel
runs what can run. `KTool` and `SshRun` are one process on the host each time, so
it is weak fairness of the whole next-state relation. In `KTool` every wait has a
deadline. In `SshRun` each byte has one but a line has not: fairness alone lets
bytes come for ever (`serial_endless`), and `PrepareEnds` therefore has the premise
`LinesEnd`, every call of `readline()` returns. In `Slip` fairness is that of the
deadline alone: the clock goes on, whatever the board sends. Fairness is needed for the liveness properties only. It is not
assumed that a waiter is served before another, that fork() succeeds, or that
sleep() is long enough.

For every property of a passing run the project keeps a mutant, an operator next
to the action it changes ("Mutant: ..."), with which TLC finds the property
violated: a lock that does not block, a missing wrap of an index, a forgotten
up, a loop with one turn too many, forks taken left first, an answer that is not
checked, escapes replaced in the other order.

### Disagreements found

Shown by a run:

* `ktool.py:1134` ignores what `flash_recv_debug()` returns, so that a refused
  chunk is not sent again, though line 1010 says "Failed, retry". The loader's
  chunks are (line 1090). Run `flashing_refused`.
* `ktool.py:1089` adds to the loader's `address` with every attempt, also with one
  that is repeated: after a refusal ("Failed, retry", line 995) the rest goes to the
  wrong place, and the loader is started with a hole. Run `flashing_loader`. The
  loader then answers nothing, and the session ends with exit status 1, but without
  "[ERROR]".
* `ssh_run.py:32` looks for "[ERROR]" only. Most failures of `ktool.py` end with
  exit status 1 and a message without it: no retry, no exception (line 34), and
  the wait for the writer begins. Run `serial_silent`.
* `ssh_run.py:59-62` looks at the 180 seconds between two calls of `readline()` only,
  whose timeout is that of one byte. A board that prints without a line feed is waited
  for for ever. Run `serial_endless`.
* `pipe.c:27` prints "cpid: " from two processes, three writes each. A kernel that
  preempts mixes them, and `pipe_test.py:21` fails on a correct run. Run
  `console_pipe`; with whole lines it cannot happen (`processes`).

Met while modelling (without a run of their own):

* `raise_exception()` (`ktool.py:62-68`) closes the port and throws a plain
  `Exception`. The greeting's `except TimeoutError` (lines 1555-1622) therefore
  never catches anything: the fifteen rounds and the detection of the board end
  with the first board tried. For the same reason the retries of the other
  loops meet a closed port after every deadline and cannot succeed.
* After stray delimiters every answer is taken for that to the request before;
  nothing flushes what is left when the second ISP starts.
* A failed erase prints "[ERROR]" and the program exits with 0; a block that was
  read with a wrong checksum is only logged; loading the second ISP has no limit of
  retries.
* The capture (`ssh_run.py:127-140`) has no limit of time at all: two seconds of
  silence end it, and nothing ends it while the board prints.
* `Makefile:6` lists `gen_link` and `link_app.o` side by side: under `make -j` the
  object may be made of the old `link_app.S`.
* A test that aborts is never graded on its own lines: the branch of
  `test_runner.py:45-47` meant for it is dead (proved: `NothingHeldOutside`).
* Eighteen of the oscomp programs print `[PASS]` and no END line; the programs
  after them, up to the next END line, are collected as their output.
* `assert(cpid != -1)` (`fork.c:18`, `clone.c:19`, `waitpid.c:11`) looks for -1, but
  the wrapper returns the kernel's error number: the parent of `fork.c` then
  takes the child's branch and exits with 0. Only the oracle notices
  (`FailureCostsMarks`).
* `test_multiple_forks` leaves a child behind when one of its two forks fails.
* `ch8_sem1_deadlock.c` needs its `sleep(500)` to be long enough for every thread. The
  wrapper takes seconds (`lib/syscall.c:139-142`), so that it is also more than eight minutes
  long.

## 4. Proofs

All theorems hold for every value of the constants that the named assumptions
allow; TLC evaluates each assumption on the constants of the runs.

| Assumption | Asks for |
|---|---|
| `RunnerAssumption`, `PidAssumption`, `ForkWaitAssumption`, `Phase1Assumption`, `MpscAssumption`, `TableAssumption`, `AdderAssumption`, `NoThreadAssumption`, `KToolAssumption`, `LayoutAssumption`, `SlipAssumption`, `LinkAppAssumption`, `SshRunAssumption`, `ConsoleAssumption` | the types of the constants and the least sizes with which the code makes sense |
| `SuiteAssumption` | that `run-all.sh` names no test twice, that an oracle accepts what its test prints when all goes well, and that the captures are those of the suite. Only `RecoversAtTheNextEnd` uses it |
| `NumAssumption` | that a printed number is no line feed, and that a process number does not print as 0 does |
| `ProgramAssumption` | what the arrays of `ch8_sem1_deadlock.c` and `ch8_sem2_deadlock.c` have in common with others of their shape: the units taken first suffice for all (`AllocationsFit`); in the first, all units that are tried for have been taken (`Exhausted`), and only all threads together can wait for each other (`Entangled`); in the second, who tries for a unit can wait for a thread that tries for nothing (`Relieved`) |

* **`HostProofs`**, the scanner. `RunnerInv` joins three properties with one more fact:
  the test being collected started after everything graded (`GradedIsPast`),
  without which disjointness is not inductive. `BlankExtends` and `LineExtends`
  say how a segment grows by a line. `RecoverInv` is about what a panic costs: a
  START line with an END line, or nothing, as the last marker before it (`Fresh`)
  finds the scanner outside a test and is recognised, and every result is what the
  oracle said of a graded segment. These hold for every capture, including captures
  no suite could print. `RecoversAtTheNextEnd` then looks at the captures of a suite:
  `FlattenPlaces` says where in the capture each section lies, so a finished test's
  START line is fresh when the section before it was finished, the segment graded for
  it lies between its own markers and holds exactly its body (`CaptureIs`,
  `WholeSection`), and the oracle accepts that. Without a name twice in the suite the
  result is not overwritten by another section's.
* **`HostProofs`**, the frames. `StreamInv` is about a line that was disturbed once at
  most. The END bytes split what is still to be read into segments (`Borders`), of which
  every second is taken for a frame. Labels say which answer each of these holds
  (`Labels`): answers are in order, 0 is an empty frame, and one frame at most is
  `Spoiled`; what the current call has of its frame is what the bytes read so far stand
  for (`Reads`). While nothing was disturbed the q-th frame is the q-th answer
  (`CleanLabels`) and nothing lies between two frames (`CleanStream`), hence
  `FramesArriveInOrder`; that an escaped packet holds no delimiter and is read back
  whole is proved by induction on its length. `Spaced` and `Split` say how a byte that
  is lost or added moves the segments: an ordinary byte spoils the frame it falls in; an
  END shifts the parity, and every frame taken after that place is the empty gap between
  two answers (`Relabelled`). `OneAnswerSpoiled` reads the property off the labels of
  what has been returned.
* **`HostProofs`**, `link_app.py`. That a finite set of names has a sorted list is proved by
  induction on its cardinality (`ListingHasAll`, `SortedIs`); `LinkInv` then says
  at which place in a run which file is already the new list. Nothing is said about a
  run that was interrupted but that the next complete one repairs it.
* **`ForkWaitProofs`**. `ForkWaitInv` says who can have children (`main` only),
  that a zombie's code is the one its child was forked with, and, for each test,
  which children there are at each of its calls. For `test_multiple_children`
  the number of children is `forked - children_reaped`, and each expected code is
  either noted or still carried by a child; so, when none is left, all are noted.
  25 is the largest number of children whose codes fit in eight bits.
* **`Phase1Proofs`**. `Phase1Inv` follows `test_phase1.c` call by call: which children
  there are, with which codes, and what each test has printed so far (`Printed`). A
  wait therefore always finds the child it is for, with the code it was forked with
  (`OneChildStep`, `WaitNthStep`), and the cleanup loop none (`CleanupStep`), whichever
  process is faster. A child is left only by `test_multiple_forks` with a failed fork,
  and then nothing is printed about zombies. `EndStep` is the return of a test, wherever
  it happens.
* **`MpscSemProofs`**. `IInv` counts: free slots, entries, and the threads
  between a down and the matching up add up to the size of the ring. From it
  follows that a producer that may put finds a slot free, that a consumer that
  may take finds an entry, and that `front` and `tail` are the numbers of puts and
  takes modulo the size. Its first lemmas
  prove, from division with remainder, that two entries less than a ring apart do not share a slot. The refinement
  theorem maps `produced` and `printed` to the abstract queue: storing is `Put`,
  printing is `Take`, every other step a stutter.
* **`MutexesProofs`**. Of the race adders, the counter equals the cardinality of the
  set of rounds written so far (pairs of thread and round); a write adds one element
  to it (`NoLostUpdate`), and at the end the set is the whole product, of cardinality
  `per_thread` times the number of threads. Of the philosophers, `ForksAccounted`
  ties each mutex to the statement its owner has reached, and `NeverStuck` takes the
  held fork with the largest number: its owner waits for no fork or for a larger one,
  which is free. Of the two programs of `Handover`, `HandoverInv` says where each
  thread can be, that the mutex belongs to the thread between lock and unlock, that
  `a` is set when the work is done, and that the semaphore's unit is there between up
  and down. What the second thread has read of `a` stays true while it holds the
  mutex, and the signal needs the mutex: so a thread that sleeps has its signal still
  to come. The refinement theorem follows: a thread past the loop, or past down, has
  the work behind it.
* **`DeadlockDetectProofs`**. `Accounts` says that the free units of a resource,
  those that were allocated and those that were tried for and got add up to its
  units, and that nobody holds others; the barrier likewise. So every unit is back when all have
  exited (`UnitsComeBack`). Who is refused follows from a set of processes that wait
  for each other, which holds every unit of what its members wait for: with
  `Relieved` such a set would contain a thread that waits for nothing
  (`RelievedIsNotRefused`); with `Entangled` and `Exhausted` it is all threads, so
  that a second refusal would need the first thread to wait; and the last to try finds
  all others waiting if they were at the barrier in time (`OneOfTheRingIsRefused`).
  No other down is refused, so no assertion ends a thread.
* **`KToolProofs`**. `KToolTypes` is `TypeOK` with what the place in the program
  says about the local variables (which file and chunk exist, that a script has
  settings left). `LossInv` is for lines that only lose: nothing is ever left to
  be read, so no answer is taken for another (`LossyAnswer`), and the memory is
  what was noted as written, except for the frame being sent, which may have
  arrived once or more (`OverwriteTwice`). Exit status 0 is given after the last
  answer only. `FilesInv` says what is noted as written: the files before the
  current one end before its address and can be read back, as can the chunks of
  it that were sent; the padding of a last chunk lies only over what later files
  write. With `LossInv` it gives `FilesReadBack`, for lists of files that are laid out one behind
  the other (`LaidOut`): two files closer than a sector, listed the other way round, do destroy
  each other. `BoardInv` follows the board through the scripts of the reset
  lines: only a board the routine is made for gets past the greeting
  (`IspScripts`, `Matches`), and the last two settings of its boot routine start
  the flash whatever the board was doing (`BootScripts`). `DumpInv` is about
  reading, on a line that may do anything: before each request for a block none is left
  to be read (`NoBlocks`), since only that request is answered with one, by one at
  most (`AnswerBlocks`), and what is taken for it is it (`ReceivedBlocks`); so
  `n - 1` blocks of the flash have been read whenever the `n`-th is asked for
  (`OneBlockMore`), and the last one reaches behind the length. These hold for every
  image, call, memory and number of faults.
* **`KToolProofs`**, the sessions of `ssh_run.py`. `SshInv` says that every session
  starts with `KToolTypes` and that a session in which nothing has happened on the line
  is on its way (`Quiet`): the board is where the place in the program says, whatever it
  was doing before, for of the reset script only the last two settings count (`IntoRom`,
  `IntoApp`). Each step of `ktool.py` on a quiet line goes one method further; hence
  `RetriesAreWorthIt`.
* **`ConsoleProofs`**. An oracle looks at the end of a program, but what it finds was
  printed by several processes in any order. `ConsoleInv` therefore follows each program
  through a few stages, and says in each what the processes still call and what will be on
  the console once they have made those calls that print (`Prints`), so that one write or
  three for a `printf` makes no difference to it. For `fork`, `wait`, `waitpid` and
  `clone` (`SimpleInv`) the parent prints after it has waited: the text is the child's,
  then the parent's. For `pipe` (`PipeInv`) both print their first lines side by side, in
  either order if the kernel keeps a line together (`Intros`), and what has been copied,
  followed by what is in the pipe, is what the child put there. For `yield` (`YieldInv`)
  the text is not determined: what is kept is a count (`Tally`). Every line a child has
  finished has ended one line of the console that is not empty, for its full stop comes
  with its line feed; there is one more line while the text does not end with a line
  feed; and each child's number is on the console as often as it was written. `failed`
  means that a child is missing, hence lines.

  The second part is about what the grader makes of the text. `Lines` ranks the places
  where lines begin (`Ranks`, `LineAt`). Texts of two and of three lines are taken apart
  once (`TwoLineText`, `ThreeLineText`); those of `pipe` line by line (`PipeLines`); the
  places of a text that hold a number are put one to one into its lines (`InALine`,
  `DigitsFound`); a text with too few places where a line could begin has too few lines
  (`FewLines`). `NothingFollowsTheMarker`, `FailuresCostMarks` and `EveryScheduleFullMarks`
  follow for every number of children, lines and digits, and every process table.

Induction over data is done with sets of numbers: the least number for which a
statement fails exists (`UpTo`, from the library's theorem on minimal elements), so
that no theorem with an operator as a parameter is needed.

Some theorems state what no run lists, for what the runs do list stands or falls
with it: that producers exclude each other (`Exclusive`) and print in
order (`NothingLostOrReordered`), that no line is graded twice (`NeverGradedTwice`),
that no process but `main` is left when `test_multiple_children` has passed
(`NoZombieAfterPass`), and `NoLostUpdate`.

Only model-checked: liveness (`Finishes`, `RingFinishes`, `EveryProgramPasses`, `TableEmptied`,
`PrepareEnds`, `CallsEnd`), which the prover does not reach. Every invariant and every
other action or temporal property that a passing run lists is a theorem.

## 5. Not modelled

Architecture stubs, tables of system-call numbers, build and packaging have no
behaviour at run time that a model could question. Of `ktool.py`: the terminal
emulator, `kill()` and `checkKillExit()` (nothing in the repository calls `kill()`),
the AES code (vendored; an encrypted image is an image), `slip_reader()` (made
but never read through), progress bar and terminal size, and the format of ELF
and kfpkg files beyond the pieces they yield. The stride tests measure time. `test_getpid_gettid` asks two
questions. What is planned is in the next section.

## 6. Plan

In this order, each with its runs and mutants:

1. **Console** composed with `TestRunner`: several programs after one another in one
   capture, with a child that outlives its program.
2. **ForkPrograms** on `ProcTable`: `ch5b_forktest*.c`, `ch5b_exit.c`, `ch5_spawn*.c`,
   `usertest.h` and its users, `usershell.c` with its line buffer.
3. **Threads**: `ch8b_threads*.c`, and `ch8_mut1_deadlock.c` as a third set of arrays
   of `DeadlockDetect`.
4. **Signals**: an abstract process with handlers, pending and blocked signals
   and alternate stack; the four signal tests as its clients.
5. **AddressSpace**: pages with protections; `mmap`, `mprotect`, `mremap`, `munmap`
   and `brk` tests, with errors as negative pointers and the width of int.
6. **Wrappers**: the error conventions of `syscall.c` against the checks of their
   callers; TLS and errno.
7. **Files and pipes**: descriptors, end of file; `ch7b_pipetest.c`.
8. **Runner**: `run_qemu_user_tests.sh` (exit status, timeout) against what programs
   print and return.
9. **Strings and formatting** as functions against reference definitions.

Theorems planned: those of the parts above, first the accounting of pages of the
address space, and what a signal handler may find interrupted.
