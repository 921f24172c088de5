----------------------------- MODULE KToolProofs ----------------------------
(***************************************************************************)
(* What ktool.py makes of a lossy line and where it leaves the board, for  *)
(* every call, every size of loader, memory and frame, and every number of *)
(* faults; and a session of ktool.py on a quiet line, whatever the sessions*)
(* that ssh_run.py ran before it left behind.                              *)
(***************************************************************************)
EXTENDS SshRun, SequenceTheorems, TLAPS

-----------------------------------------------------------------------------
(* The operators.                                                          *)

(* An answer that is received is a packet, an empty one, or none; what is  *)
(* left is a part of what was there.                                       *)
LEMMA RecvType ==
  ASSUME NEW q \in Seq(Tokens)
  PROVE  /\ recv_one_return(q).got \in {"empty", "packet", "timeout"}
         /\ recv_one_return(q).got = "packet" => recv_one_return(q).body \in Tokens
         /\ recv_one_return(q).rest \in Seq(Tokens)
<1>1. CASE \E s, e \in DOMAIN q : PacketAt(q, s, e)
  <2> DEFINE p == CHOOSE p \in (DOMAIN q) \X (DOMAIN q) : PacketAt(q, p[1], p[2])
  <2>1. \E x \in (DOMAIN q) \X (DOMAIN q) : PacketAt(q, x[1], x[2])
    <3>1. PICK s, e \in DOMAIN q : PacketAt(q, s, e)
      BY <1>1
    <3>2. <<s, e>> \in (DOMAIN q) \X (DOMAIN q) /\ PacketAt(q, <<s, e>>[1], <<s, e>>[2])
      BY <3>1
    <3>. QED BY <3>2
  <2>2. p \in (DOMAIN q) \X (DOMAIN q) /\ PacketAt(q, p[1], p[2])
    BY <2>1
  <2>3. p[1] \in 1 .. Len(q) /\ p[2] \in 1 .. Len(q) /\ p[1] < p[2] /\ Len(q) \in Nat
    BY <2>2 DEF PacketAt
  <2>4. recv_one_return(q) =
          [got  |-> IF p[2] = p[1] + 1 THEN "empty" ELSE "packet",
           body |-> IF p[2] = p[1] + 1 THEN <<>> ELSE q[p[1] + 1],
           rest |-> SubSeq(q, p[2] + 1, Len(q))]
    BY <1>1 DEF recv_one_return
  <2> HIDE DEF p
  <2>5. q[p[1] + 1] \in Tokens /\ SubSeq(q, p[2] + 1, Len(q)) \in Seq(Tokens)
    BY <2>3, SubSeqProperties
  <2>. QED BY <2>4, <2>5
<1>2. CASE ~\E s, e \in DOMAIN q : PacketAt(q, s, e)
  BY <1>2 DEF recv_one_return
<1>. QED BY <1>1, <1>2

(* Whatever the line does, what arrives are tokens.                        *)
LEMMA AnswersType ==
  ASSUME NEW kind \in Asked, NEW op \in Ops, NEW at \in Nat,
         NEW a \in Answers(kind, Body(op, "OK", at))
  PROVE  a \in Seq(Tokens)
<1> DEFINE b == Body(op, "OK", at)
<1>1. C0 \in Tokens /\ b \in Tokens /\ Body(op, "BAD", 0) \in Tokens
      /\ Body("?", "OK", 0) \in Tokens /\ Body(op, "?", 0) \in Tokens /\ b[1] = op
  BY DEF Tokens, Body, C0
<1> HIDE DEF b
<1>2. kind \in {"none", "unheard", "unanswered", "cut", "refused", "noise", "garbled"}
  BY DEF Asked, Kinds, Faults, Losses
<1>3. a \in {<<C0, b, C0>>, <<>>, <<C0, b>>, <<b, C0>>, <<C0, Body(op, "BAD", 0), C0>>,
             <<C0, C0, b, C0>>, <<C0, C0, C0, b, C0>>, <<C0, Body("?", "OK", 0), C0>>,
             <<C0, Body(op, "?", 0), C0>>}
  BY <1>1, <1>2 DEF Answers, b
<1>4. b \in Tokens /\ Body("?", "OK", 0) \in Tokens /\ Body(op, "?", 0) \in Tokens
  BY <1>1
<1>5. \A T, c, x : c \in T /\ x \in T =>
        /\ <<>> \in Seq(T) /\ <<c, x>> \in Seq(T) /\ <<c, x, c>> \in Seq(T)
        /\ <<c, c, x, c>> \in Seq(T) /\ <<c, c, c, x, c>> \in Seq(T)
  OBVIOUS
<1>6. /\ <<>> \in Seq(Tokens) /\ <<C0, b>> \in Seq(Tokens) /\ <<b, C0>> \in Seq(Tokens)
      /\ <<C0, b, C0>> \in Seq(Tokens) /\ <<C0, C0, b, C0>> \in Seq(Tokens)
      /\ <<C0, C0, C0, b, C0>> \in Seq(Tokens)
  BY <1>1, <1>5
<1>7. /\ <<C0, Body(op, "BAD", 0), C0>> \in Seq(Tokens)
      /\ <<C0, Body("?", "OK", 0), C0>> \in Seq(Tokens)
      /\ <<C0, Body(op, "?", 0), C0>> \in Seq(Tokens)
  BY <1>1, <1>4, <1>5
<1>. QED BY <1>3, <1>6, <1>7

LEMMA ReceivedType ==
  ASSUME rx \in Seq(Tokens), NEW kind \in Asked, NEW op \in Ops, NEW at \in Nat,
         NEW r \in Received(op, kind, at)
  PROVE  /\ r.got \in {"empty", "packet", "timeout"}
         /\ r.got = "packet" => r.body \in Tokens
         /\ r.rest \in Seq(Tokens)
<1>1. PICK a \in Seq(Tokens) : r = recv_one_return(rx \o a)
  <2>1. CASE Serves(op)
    BY <2>1, AnswersType DEF Received
  <2>2. CASE ~Serves(op)
    <3>1. <<>> \in Seq(Tokens)
      OBVIOUS
    <3>. QED BY <2>2, <3>1 DEF Received
  <2>. QED BY <2>1, <2>2
<1>2. rx \o a \in Seq(Tokens)
  BY <1>1
<1>. QED BY <1>1, <1>2, RecvType

(* A packet that is whole and alone is received as it was sent.            *)
LEMMA WholePacket ==
  ASSUME NEW b, b # C0
  PROVE  LET r == recv_one_return(<<C0, b, C0>>)
         IN  r.got = "packet" /\ r.body = b /\ r.rest = <<>>
<1> DEFINE a == <<C0, b, C0>>
<1>1. DOMAIN a = {1, 2, 3} /\ Len(a) = 3 /\ a[1] = C0 /\ a[2] = b /\ a[3] = C0 /\ SubSeq(a, 4, 3) = <<>>
  OBVIOUS
<1> HIDE DEF a
<1>2. \A s, e \in DOMAIN a : PacketAt(a, s, e) => s = 1 /\ e = 3
  BY <1>1 DEF PacketAt
<1>3. PacketAt(a, 1, 3)
  BY <1>1 DEF PacketAt
<1> DEFINE p == CHOOSE p \in (DOMAIN a) \X (DOMAIN a) : PacketAt(a, p[1], p[2])
<1>4. p \in (DOMAIN a) \X (DOMAIN a) /\ PacketAt(a, p[1], p[2])
  <2>1. <<1, 3>> \in (DOMAIN a) \X (DOMAIN a) /\ PacketAt(a, <<1, 3>>[1], <<1, 3>>[2])
    BY <1>1, <1>3
  <2>. QED BY <2>1
<1>5. recv_one_return(a) =
        [got  |-> IF p[2] = p[1] + 1 THEN "empty" ELSE "packet",
         body |-> IF p[2] = p[1] + 1 THEN <<>> ELSE a[p[1] + 1],
         rest |-> SubSeq(a, p[2] + 1, Len(a))]
  BY <1>1, <1>3 DEF recv_one_return
<1> HIDE DEF p
<1>6. p[1] = 1 /\ p[2] = 3
  BY <1>2, <1>4
<1>7. recv_one_return(a).got = "packet" /\ recv_one_return(a).body = b /\ recv_one_return(a).rest = <<>>
  BY <1>1, <1>5, <1>6
<1>. QED BY <1>7 DEF a

(* On a line on which nothing else has arrived and that only loses, the    *)
(* answer to a request is received as it was sent, or a deadline passes.   *)
LEMMA LossyAnswer ==
  ASSUME rx = <<>>, NEW kind \in Losses \cup {"none"}, NEW op \in Ops, NEW at \in Nat,
         NEW r \in Received(op, kind, at)
  PROVE  /\ r.rest = <<>>
         /\ \/ r.got = "timeout"
            \/ /\ r.got = "packet" /\ r.body = Body(op, "OK", at)
               /\ kind = "none" /\ Serves(op)
<1> DEFINE b == Body(op, "OK", at)
<1>1. b # C0
  BY DEF Body, C0, Ops
<1>2. PICK a : /\ r = recv_one_return(<<>> \o a)
               /\ a \in {<<>>, <<C0, b>>, <<b, C0>>} \/ (a = <<C0, b, C0>> /\ kind = "none" /\ Serves(op))
  BY DEF Received, Answers, Losses
<1> HIDE DEF b
<1>3. <<>> \o a = a
  BY <1>2
<1>4. CASE a \in {<<>>, <<C0, b>>, <<b, C0>>}
  <2>1. \A s, e \in DOMAIN a : ~PacketAt(a, s, e)
    BY <1>1, <1>4 DEF PacketAt
  <2>. QED BY <1>2, <1>3, <2>1 DEF recv_one_return
<1>5. CASE a = <<C0, b, C0>> /\ kind = "none" /\ Serves(op)
  BY <1>1, <1>2, <1>3, <1>5, WholePacket DEF b
<1>. QED BY <1>2, <1>4, <1>5

(* The boards a call can be about, once maixduino and bit_mic are goE.     *)
Normals == {"kd233", "dan", "bit", "goE", "goD", "trainer", "none"}

LEMMA ScriptTypes ==
  ASSUME NEW b \in Normals
  PROVE  /\ ResetToIsp(Probes(b)[1]) \in Seq(Settings)
         /\ ResetToBoot(b) \in Seq(Settings)
         /\ \A t \in Nat : Probes(b)[(t % Len(Probes(b))) + 1] \in Normals
<1>1. Idle \in Settings /\ DTR \in Settings /\ RTS \in Settings /\ Both \in Settings
  BY DEF Idle, DTR, RTS, Both, Settings
<1>2. \A T, x, y, z : x \in T /\ y \in T /\ z \in T => <<x, y, z>> \in Seq(T)
  OBVIOUS
<1>3. /\ <<Idle, DTR, RTS>> \in Seq(Settings) /\ <<Idle, DTR, Idle>> \in Seq(Settings)
      /\ <<Idle, RTS, DTR>> \in Seq(Settings) /\ <<Idle, RTS, Idle>> \in Seq(Settings)
      /\ <<Both, DTR, DTR>> \in Seq(Settings) /\ <<Idle, DTR, Both>> \in Seq(Settings)
      /\ <<>> \in Seq(Settings)
  BY <1>1, <1>2
<1>4. Probes(b)[1] \in Normals \ {"none"}
  BY DEF Probes, Normals
<1>5. ResetToIsp(Probes(b)[1]) \in Seq(Settings)
  BY <1>3, <1>4 DEF ResetToIsp, Normals, reset_to_isp_dan, reset_to_isp_kd233, reset_to_isp_goD
<1>6. ResetToBoot(b) \in Seq(Settings)
  BY <1>3 DEF ResetToBoot, Normals, reset_to_boot_dan, reset_to_boot_kd233, reset_to_boot_goD,
              reset_to_boot_maixgo
<1>7. \A t \in Nat : Probes(b)[(t % Len(Probes(b))) + 1] \in Normals
  <2> SUFFICES ASSUME NEW t \in Nat PROVE Probes(b)[(t % Len(Probes(b))) + 1] \in Normals
    OBVIOUS
  <2>1. CASE b = "none"
    <3>1. Probes(b) = <<"dan", "kd233", "goD", "kd233">> /\ Len(Probes(b)) = 4
      BY <2>1 DEF Probes
    <3>2. t % 4 \in 0 .. 3
      OBVIOUS
    <3>. QED BY <3>1, <3>2 DEF Normals
  <2>2. CASE b # "none"
    <3>1. Probes(b) = <<b>> /\ Len(Probes(b)) = 1
      BY <2>2 DEF Probes
    <3>2. t % 1 = 0
      OBVIOUS
    <3>. QED BY <3>1, <3>2
  <2>. QED BY <2>1, <2>2
<1>. QED BY <1>5, <1>6, <1>7

LEMMA StageType ==
  ASSUME NEW c \in Circuits, NEW s \in Stages, NEW old, NEW new
  PROVE  NextStage(c, s, old, new) \in Stages
BY DEF NextStage, Stages

(* Frames are made of cells, so memory stays memory.                       *)
LEMMA FrameType ==
  ASSUME NEW file \in Files, NEW ts \in BOOLEAN, NEW k \in Nat \ {0}
  PROVE  /\ ChunkSize(Image(file, ts)) \in Nat \ {0}
         /\ Frame(file, ts, k).data \in [1 .. ChunkSize(Image(file, ts)) -> Cells]
         /\ Len(Image(file, ts)) \in Nat \ {0}
         /\ Image(file, ts) \in [1 .. Len(Image(file, ts)) -> Cells]
<1> DEFINE image == Image(file, ts)
<1>1. /\ file.len \in Nat \ {0} /\ file.id \in Nat /\ file.at \in Nat
      /\ file.sha \in BOOLEAN /\ file.swap \in BOOLEAN
  BY DEF Files
<1>2. Len(image) \in Nat \ {0} /\ image \in [1 .. Len(image) -> Cells]
  <2> DEFINE wrapped == file.sha /\ ~ts
             first == IF wrapped THEN 0 ELSE 1
             total == IF wrapped THEN file.len + 2 ELSE file.len
             swapped == file.swap /\ ~ts
  <2>1. total \in Nat \ {0} /\ first \in Nat
    BY <1>1
  <2>2. image = [i \in 1 .. total |-> <<file.id, first + i - 1, swapped>>]
    BY DEF Image
  <2>0. swapped \in BOOLEAN
    OBVIOUS
  <2> HIDE DEF total, first, image, swapped
  <2>3. \A i \in 1 .. total : <<file.id, first + i - 1, swapped>> \in Cells
    BY <1>1, <2>0, <2>1 DEF Cells
  <2>4. image \in [1 .. total -> Cells]
    BY <2>2, <2>3
  <2>5. image \in Seq(Cells)
    BY <2>1, <2>4, SeqDef
  <2>6. Len(image) = total
    <3>1. Len(image) \in Nat /\ DOMAIN image = 1 .. Len(image) /\ DOMAIN image = 1 .. total
      BY <2>4, <2>5, LenProperties
    <3>2. \A x, y \in Nat : 1 .. x = 1 .. y => x = y
      <4> SUFFICES ASSUME NEW x \in Nat, NEW y \in Nat, 1 .. x = 1 .. y PROVE x = y
        OBVIOUS
      <4>1. \A i \in Nat \ {0} : i <= x <=> i <= y
        OBVIOUS
      <4>. QED BY <4>1
    <3>. QED BY <2>1, <3>1, <3>2
  <2>. QED BY <2>1, <2>4, <2>6
<1> HIDE DEF image
<1>3. ChunkSize(image) \in Nat \ {0}
  BY <1>2, LayoutAssumption DEF ChunkSize
<1>4. Zero \in Cells
  BY DEF Zero, Cells
<1>5. \A i \in 1 .. ChunkSize(image) :
        (IF (k - 1) * ChunkSize(image) + i <= Len(image)
         THEN image[(k - 1) * ChunkSize(image) + i] ELSE Zero) \in Cells
  <2> SUFFICES ASSUME NEW i \in 1 .. ChunkSize(image),
                      (k - 1) * ChunkSize(image) + i <= Len(image)
               PROVE  image[(k - 1) * ChunkSize(image) + i] \in Cells
    BY <1>4
  <2> DEFINE size == ChunkSize(image)
  <2>1. \A x, y \in Nat : x * y \in Nat
    OBVIOUS
  <2>2. k - 1 \in Nat /\ size \in Nat
    BY <1>3
  <2>3. (k - 1) * size \in Nat
    BY <2>1, <2>2
  <2> DEFINE before == (k - 1) * size
  <2> HIDE DEF before, size
  <2>4. before + i \in 1 .. Len(image)
    BY <1>2, <2>3 DEF before, size
  <2>. QED BY <1>2, <2>4 DEF before, size
<1>. QED BY <1>2, <1>3, <1>5 DEF Frame, Chunk, image

(* What has been written stays what it is when it is written again.        *)
LEMMA OverwriteTwice ==
  ASSUME NEW m, NEW frame
  PROVE  Overwrite(Overwrite(m, frame), frame) = Overwrite(m, frame)
BY DEF Overwrite

-----------------------------------------------------------------------------
(* Types.                                                                  *)

KToolTypes ==
  /\ TypeOK
  /\ Board \in Normals
  /\ n # 0
  /\ pc \in {"start", "file", "reset", "install"} => n \in 1 .. LOADER
  /\ pc = "load" => job.mode = "sram"
  /\ pc \in {"init", "id"} => job.mode # "sram"
  /\ pc = "send" => job.mode \in {"flash", "sram"}

LEMMA JobTypes ==
  ASSUME job \in Jobs
  PROVE  /\ job \in JobType
         /\ Len(job.files) \in Nat
         /\ job.mode \in {"flash", "sram", "erase", "read"}
         /\ job.attached \in Circuits
         /\ Normal(job.Board) \in Normals
         /\ \A i \in 1 .. Len(job.files) : job.files[i] \in Files
         /\ job.mode \in {"flash", "sram"} => 1 \in 1 .. Len(job.files)
<1>1. job \in JobType
  BY KToolAssumption
<1>2. Len(job.files) \in Nat /\ job.files \in Seq(Files)
  BY <1>1 DEF JobType
<1>3. \A i \in 1 .. Len(job.files) : job.files[i] \in Files
  BY <1>2
<1>4. job.mode \in {"flash", "sram", "erase", "read"} /\ job.attached \in Circuits /\ job.Board \in Boards
  BY <1>1 DEF JobType
<1>5. Normal(job.Board) \in Normals
  BY <1>4 DEF Normal, Boards, Normals
<1>6. job.mode \in {"flash", "sram"} => 1 \in 1 .. Len(job.files)
  <2> SUFFICES ASSUME job.mode \in {"flash", "sram"} PROVE 1 \in 1 .. Len(job.files)
    OBVIOUS
  <2>1. job.files # <<>>
    BY KToolAssumption
  <2>2. Len(job.files) # 0
    BY <1>2, <2>1, EmptySeq
  <2>. QED BY <1>2, <2>2
<1>. QED BY <1>1, <1>2, <1>3, <1>4, <1>5, <1>6

(* A frame that is sent is made of cells and leaves memory memory.         *)
LEMMA TheFrameType ==
  ASSUME KToolTypes, pc = "send", NEW m \in Memory
  PROVE  /\ f \in 1 .. Len(job.files) /\ job.files[f] \in Files
         /\ Overwrite(m, TheFrame) \in Memory
<1>1. f \in 1 .. Len(job.files) /\ job.files[f] \in Files
  BY JobTypes DEF KToolTypes, TypeOK
<1>2. tosram \in BOOLEAN /\ n \in Nat \ {0}
  BY DEF KToolTypes, TypeOK, tosram
<1> DEFINE size == ChunkSize(Image(job.files[f], tosram))
<1>3. size \in Nat /\ TheFrame.data \in [1 .. size -> Cells]
  BY <1>1, <1>2, FrameType DEF TheFrame
<1> HIDE DEF size
<1>4. Overwrite(m, TheFrame) \in Memory
  BY <1>3 DEF Overwrite, Memory
<1>. QED BY <1>1, <1>4

(* What a retry loop does with an answer is one of four things.            *)
LEMMA RetryTypes ==
  ASSUME KToolTypes, NEW op, NEW r, NEW next, Retry(op, r, next)
  PROVE  /\ tries' \in Nat /\ exit' \in -1 .. 2 /\ log' \in BOOLEAN
         /\ port' \in {"open", "closed"}
         /\ pc' \in {next, pc, "exited"}
<1>1. tries \in Nat /\ exit \in -1 .. 2 /\ log \in BOOLEAN /\ port \in {"open", "closed"}
  BY DEF KToolTypes, TypeOK
<1>2. ASSUME NEW p, GoTo(p, r)
      PROVE  exit' = exit /\ log' = log /\ port' \in {"closed", port} /\ pc' = p
  BY <1>2 DEF GoTo, ended
<1>3. CASE Confirms(op, r)
  <2>1. GoTo(next, r) /\ tries' = 0
    BY <1>3 DEF Retry
  <2>. QED BY <1>1, <1>2, <2>1
<1>4. CASE ~Confirms(op, r)
  <2>1. tries' = tries + 1
    BY <1>4 DEF Retry
  <2>2. Exit(1, FALSE) \/ Exit(1, TRUE) \/ GoTo(pc, r)
    BY <1>4 DEF Retry
  <2>3. CASE GoTo(pc, r)
    BY <1>1, <1>2, <2>1, <2>3
  <2>4. CASE Exit(1, FALSE)
    BY <1>1, <2>1, <2>4 DEF Exit
  <2>5. CASE Exit(1, TRUE)
    BY <1>1, <2>1, <2>5 DEF Exit
  <2>. QED BY <2>2, <2>3, <2>4, <2>5
<1>. QED BY <1>3, <1>4

LEMMA BlockType ==
  ASSUME KToolTypes, NEW k
  PROVE  ReadBlock(k) \in Seq(Cells)
<1>1. ReadSize \in Nat
  BY LayoutAssumption DEF ReadSize
<1>2. Blank \in Cells
  BY DEF Blank, Cells
<1>3. ReadBlock(k) \in [1 .. ReadSize -> Cells]
  BY <1>2 DEF ReadBlock, KToolTypes, TypeOK, Memory
<1>. QED BY <1>1, <1>3, SeqDef

(* A fault keeps the history in its bounds.                                *)
LEMMA HappensTypes ==
  ASSUME KToolTypes, NEW kind \in Kinds, Happens(kind)
  PROVE  faults' \in 0 .. MaxFaults /\ kinds' \subseteq Faults
BY KToolAssumption DEF KToolTypes, TypeOK, Happens, Kinds

(* An exchange leaves a part of what had arrived, and a typed answer.      *)
LEMMA ExchangeTypes ==
  ASSUME KToolTypes, NEW op \in Ops, NEW at \in Nat, NEW kind \in Asked,
         NEW r \in Received(op, kind, at), NEW rest \in Seq(Tokens), Exchange(kind, rest)
  PROVE  /\ faults' \in 0 .. MaxFaults /\ kinds' \subseteq Faults
         /\ rx' \in Seq(Tokens) /\ lines' \in Settings
         /\ r.got = "packet" => Ret(r) \in {"OK", "BAD", "?"} /\ r.body[3] \in Nat
<1>1. kind \in Kinds
  BY DEF Asked
<1>2. r.got = "packet" => r.body \in Tokens
  BY ReceivedType DEF KToolTypes, TypeOK
<1>3. Happens(kind) /\ rx' = rest /\ lines' = lines
  BY DEF Exchange
<1>. QED BY <1>1, <1>2, <1>3, HappensTypes DEF KToolTypes, TypeOK, Tokens, Ret

LEMMA RestType ==
  ASSUME KToolTypes, NEW op \in Ops, NEW at \in Nat, NEW kind \in Asked,
         NEW r \in Received(op, kind, at)
  PROVE  r.rest \in Seq(Tokens)
BY ReceivedType DEF KToolTypes, TypeOK

LEMMA GoToTypes ==
  ASSUME KToolTypes, NEW p, NEW r, GoTo(p, r)
  PROVE  pc' = p /\ exit' \in -1 .. 2 /\ log' \in BOOLEAN /\ port' \in {"open", "closed"}
BY DEF KToolTypes, TypeOK, GoTo, ended

(* Every step keeps the types: one case for each method.                   *)
LEMMA TypesStep == KToolTypes /\ [Next]_vars => KToolTypes'
<1> SUFFICES ASSUME KToolTypes, [Next]_vars PROVE KToolTypes'
  OBVIOUS
<1>a. "none" \in Kinds /\ "noport" \in Kinds /\ "unasked" \in Kinds /\ "unheard" \in Kinds
  BY DEF Kinds, Faults, Losses
<1>b. {"GREET", "MEMORY_WRITE", "NOP", "FLASH_INIT", "FLASH_ID", "FLASH_ERASE", "FLASH_READ",
       "FLASH_WRITE", "SRAM_WRITE", "SRAM_EXECUTE"} \subseteq Ops /\ 0 \in Nat
  BY DEF Ops
<1>1. CASE OpenPort
  <2>1. NextStage(job.attached, stage, lines, Both) \in Stages /\ Both \in Settings
    BY StageType, JobTypes DEF Both, Settings, KToolTypes, TypeOK
  <2>2. pc = "start" /\ UNCHANGED <<job, host, devfast, sram, mem, expected>>
    BY <1>1 DEF OpenPort
  <2>3. CASE /\ pc' = "file" /\ port' = "open" /\ lines' = Both /\ rx' = <<>>
             /\ stage' = NextStage(job.attached, stage, lines, Both)
             /\ UNCHANGED <<ended, faults, kinds>>
    BY <2>1, <2>2, <2>3 DEF host, ended, KToolTypes, TypeOK
  <2>4. CASE /\ Happens("noport") /\ \E detect \in BOOLEAN : Exit(1, detect)
             /\ UNCHANGED <<lines, rx, stage>>
    <3>1. faults' \in 0 .. MaxFaults /\ kinds' \subseteq Faults
      BY <1>a, <2>4, HappensTypes
    <3>2. pc' = "exited" /\ exit' = 1 /\ log' \in BOOLEAN /\ port' = "closed"
      BY <2>4 DEF Exit, KToolTypes, TypeOK
    <3>. QED BY <2>2, <2>4, <3>1, <3>2 DEF host, KToolTypes, TypeOK
  <2>. QED BY <1>1, <2>3, <2>4 DEF OpenPort
<1>2. CASE CheckFile
  <2>1. ResetToIsp(Probes(Board)[1]) \in Seq(Settings)
    BY ScriptTypes DEF KToolTypes
  <2>2. /\ pc' \in {"reset", "exited"} /\ script' \in Seq(Settings) /\ tries' \in Nat
        /\ exit' \in -1 .. 2 /\ log' \in BOOLEAN /\ port' \in {"open", "closed"}
    <3>1. CASE Exit(1, TRUE) /\ UNCHANGED <<script, tries>>
      BY <3>1 DEF Exit, KToolTypes, TypeOK
    <3>2. CASE /\ pc' = "reset" /\ script' = ResetToIsp(Probes(Board)[1]) /\ tries' = 0
               /\ UNCHANGED <<port, ended>>
      BY <2>1, <3>2 DEF ended, KToolTypes, TypeOK
    <3>. QED BY <1>2, <3>1, <3>2 DEF CheckFile
  <2>. QED BY <1>2, <2>2 DEF CheckFile, device, hist, KToolTypes, TypeOK
<1>3. CASE SetLines
  <2>1. NextStage(job.attached, stage, lines, lines') \in Stages
    BY StageType, JobTypes DEF KToolTypes, TypeOK
  <2>2. Head(script) \in Settings /\ Tail(script) \in Seq(Settings)
    BY <1>3, HeadTailProperties DEF SetLines, KToolTypes, TypeOK
  <2>3. [i \in 1 .. LOADER |-> 0] \in [1 .. LOADER -> 0 .. LOADER]
    BY KToolAssumption
  <2>. QED BY <1>3, <2>1, <2>2, <2>3 DEF SetLines, ended, hist, KToolTypes, TypeOK
<1>4. CASE greeting
  <2>1. PICK kind, r :
          /\ kind \in Asked /\ r \in Received("GREET", kind, 0)
          /\ Exchange(kind, r.rest)
          /\ \/ /\ Board' = Probes(Board)[(tries % Len(Probes(Board))) + 1]
                /\ GoTo("install", r)
                /\ UNCHANGED <<script, tries>>
             \/ Exit(1, FALSE) /\ UNCHANGED <<Board, script, tries>>
    BY <1>4 DEF greeting, Raised
  <2>2. /\ faults' \in 0 .. MaxFaults /\ kinds' \subseteq Faults
        /\ rx' \in Seq(Tokens) /\ lines' \in Settings
    BY <1>b, <2>1, RestType, ExchangeTypes
  <2>3. Probes(Board)[(tries % Len(Probes(Board))) + 1] \in Normals
    BY ScriptTypes DEF KToolTypes, TypeOK
  <2>4. pc = "reset" /\ UNCHANGED <<job, f, n, address, hostfast, dump, device, expected>>
    BY <1>4 DEF greeting
  <2>5. CASE GoTo("install", r)
    BY <2>1, <2>2, <2>3, <2>4, <2>5 DEF GoTo, Exit, ended, device, KToolTypes, TypeOK, Normals, Boards
  <2>6. CASE Exit(1, FALSE) /\ UNCHANGED <<Board, script, tries>>
    BY <2>2, <2>4, <2>6 DEF Exit, device, KToolTypes, TypeOK
  <2>. QED BY <2>1, <2>5, <2>6
<1>5. CASE install_flash_bootloader
  <2>1. PICK kind, r :
          /\ kind \in Asked /\ r \in Received("MEMORY_WRITE", kind, 0)
          /\ Exchange(kind, r.rest)
          /\ sram' = IF Obeys("MEMORY_WRITE", kind) /\ address \in 1 .. LOADER
                     THEN [sram EXCEPT ![address] = n] ELSE sram
          /\ \/ Exit(1, FALSE) /\ UNCHANGED n
             \/ GoTo("install", r) /\ UNCHANGED n
             \/ n' = n + 1 /\ GoTo(IF n = LOADER THEN "boot" ELSE "install", r)
    BY <1>5 DEF install_flash_bootloader
  <2>2. /\ faults' \in 0 .. MaxFaults /\ kinds' \subseteq Faults
        /\ rx' \in Seq(Tokens) /\ lines' \in Settings
    BY <1>b, <2>1, RestType, ExchangeTypes
  <2>3. /\ pc = "install" /\ address' = address + 1
        /\ UNCHANGED <<job, Board, script, tries, f, hostfast, dump, stage, devfast, mem, expected>>
    BY <1>5 DEF install_flash_bootloader
  <2>4. sram' \in [1 .. LOADER -> 0 .. LOADER]
    BY <2>1, <2>3 DEF KToolTypes, TypeOK
  <2>5. CASE Exit(1, FALSE) /\ UNCHANGED n
    BY <2>2, <2>3, <2>4, <2>5 DEF Exit, KToolTypes, TypeOK
  <2>6. CASE GoTo("install", r) /\ UNCHANGED n
    BY <2>2, <2>3, <2>4, <2>6 DEF GoTo, ended, KToolTypes, TypeOK
  <2>7. CASE n' = n + 1 /\ GoTo(IF n = LOADER THEN "boot" ELSE "install", r)
    BY <2>2, <2>3, <2>4, <2>7, KToolAssumption DEF GoTo, ended, KToolTypes, TypeOK
  <2>. QED BY <2>1, <2>5, <2>6, <2>7
<1>6. CASE boot
  <2>1. faults' \in 0 .. MaxFaults /\ kinds' \subseteq Faults
    BY <1>6, <1>a, HappensTypes DEF boot
  <2>2. rx' \in Seq(Tokens)
    <3>1. C0 \in Tokens /\ Body("MEMORY_BOOT", "OK", 0) \in Tokens
      BY DEF C0, Body, Tokens, Ops
    <3>2. <<C0, Body("MEMORY_BOOT", "OK", 0), C0>> \in Seq(Tokens)
      BY <3>1
    <3>. QED BY <1>6, <3>2, ConcatProperties DEF boot, KToolTypes, TypeOK
  <2>3. stage' \in Stages
    BY <1>6 DEF boot, Stages, KToolTypes, TypeOK
  <2>. QED BY <1>6, <2>1, <2>2, <2>3 DEF boot, ended, KToolTypes, TypeOK
<1>7. CASE WriteToClosedPort
  BY <1>7 DEF WriteToClosedPort, Exit, host, device, hist, KToolTypes, TypeOK
<1>8. CASE flash_greeting
  <2>1. PICK kind, r, k :
          /\ kind \in Asked /\ r \in Received("NOP", kind, 0) /\ k \in 1 .. Len(r.rest) + 1
          /\ Exchange(kind, SubSeq(r.rest, IF Confirms("NOP", r) THEN k ELSE 1, Len(r.rest)))
          /\ Retry("NOP", r, AfterGreeting)
    BY <1>8 DEF flash_greeting
  <2>2. r.rest \in Seq(Tokens)
    BY <1>b, <2>1, RestType
  <2>3. SubSeq(r.rest, IF Confirms("NOP", r) THEN k ELSE 1, Len(r.rest)) \in Seq(Tokens)
    <3>1. \A i \in 1 .. Len(r.rest) + 1 : SubSeq(r.rest, i, Len(r.rest)) \in Seq(Tokens)
      BY <2>2
    <3>2. 1 \in 1 .. Len(r.rest) + 1 /\ k \in 1 .. Len(r.rest) + 1
      BY <2>1, <2>2
    <3>. QED BY <3>1, <3>2
  <2>4. /\ faults' \in 0 .. MaxFaults /\ kinds' \subseteq Faults
        /\ rx' \in Seq(Tokens) /\ lines' \in Settings
    BY <1>b, <2>1, <2>3, ExchangeTypes
  <2>5. /\ tries' \in Nat /\ exit' \in -1 .. 2 /\ log' \in BOOLEAN
        /\ port' \in {"open", "closed"} /\ pc' \in {AfterGreeting, pc, "exited"}
    BY <2>1, RetryTypes
  <2>. QED BY <1>8, <2>4, <2>5 DEF flash_greeting, AfterGreeting, device, KToolTypes, TypeOK
<1>9. CASE change_baudrate
  <2>1. faults' \in 0 .. MaxFaults /\ kinds' \subseteq Faults
    BY <1>9, <1>a, HappensTypes DEF change_baudrate
  <2>2. rx' \in Seq(Tokens)
    <3>1. C0 \in Tokens /\ Body("BAUD", "OK", 0) \in Tokens
      BY DEF C0, Body, Tokens, Ops
    <3>2. <<C0, Body("BAUD", "OK", 0), C0>> \in Seq(Tokens)
      BY <3>1
    <3>. QED BY <1>9, <3>2, ConcatProperties DEF change_baudrate, KToolTypes, TypeOK
  <2>3. devfast' \in BOOLEAN
    BY <1>9 DEF change_baudrate, KToolTypes, TypeOK
  <2>. QED BY <1>9, <2>1, <2>2, <2>3 DEF change_baudrate, ended, KToolTypes, TypeOK
<1>10. CASE LoadToSram
  <2>1. /\ pc' \in {"send", "exited"} /\ job.mode = "sram"
        /\ exit' \in -1 .. 2 /\ log' \in BOOLEAN /\ port' \in {"open", "closed"}
    <3>1. CASE Exit(1, TRUE)
      BY <1>10, <3>1 DEF LoadToSram, Exit, KToolTypes, TypeOK
    <3>2. CASE pc' = "send" /\ UNCHANGED <<port, ended>>
      BY <1>10, <3>2 DEF LoadToSram, ended, KToolTypes, TypeOK
    <3>. QED BY <1>10, <3>1, <3>2 DEF LoadToSram
  <2>. QED BY <1>10, <2>1 DEF LoadToSram, host, device, hist, KToolTypes, TypeOK
<1>11. CASE init_flash
  <2>1. PICK kind, r :
          /\ kind \in Asked /\ r \in Received("FLASH_INIT", kind, 0)
          /\ Exchange(kind, r.rest) /\ Retry("FLASH_INIT", r, "id")
    BY <1>11 DEF init_flash
  <2>2. /\ faults' \in 0 .. MaxFaults /\ kinds' \subseteq Faults
        /\ rx' \in Seq(Tokens) /\ lines' \in Settings
    BY <1>b, <2>1, RestType, ExchangeTypes
  <2>3. /\ tries' \in Nat /\ exit' \in -1 .. 2 /\ log' \in BOOLEAN
        /\ port' \in {"open", "closed"} /\ pc' \in {"id", pc, "exited"}
    BY <2>1, RetryTypes
  <2>. QED BY <1>11, <2>2, <2>3 DEF init_flash, device, KToolTypes, TypeOK
<1>12. CASE get_flash_id
  <2>1. PICK kind, r :
          /\ kind \in Asked /\ r \in Received("FLASH_ID", kind, 0)
          /\ Exchange(kind, r.rest)
          /\ GoTo(IF job.mode = "flash" THEN "send" ELSE job.mode, r)
    BY <1>12 DEF get_flash_id
  <2>2. /\ faults' \in 0 .. MaxFaults /\ kinds' \subseteq Faults
        /\ rx' \in Seq(Tokens) /\ lines' \in Settings
    BY <1>b, <2>1, RestType, ExchangeTypes
  <2>. QED BY <1>12, <2>1, <2>2, JobTypes DEF get_flash_id, GoTo, ended, host, device, KToolTypes, TypeOK
<1>13. CASE flash_erase
  <2>1. PICK kind, r :
          /\ kind \in Asked /\ r \in Received("FLASH_ERASE", kind, 0)
          /\ Exchange(kind, r.rest)
          /\ mem' = IF Obeys("FLASH_ERASE", kind) THEN [a \in DOMAIN mem |-> Blank] ELSE mem
          /\ IF Unparsable(r) THEN Exit(1, FALSE) /\ UNCHANGED expected
             ELSE Exit(0, Ret(r) # "OK") /\ expected' = [a \in DOMAIN mem |-> Blank]
    BY <1>13 DEF flash_erase
  <2>2. /\ faults' \in 0 .. MaxFaults /\ kinds' \subseteq Faults
        /\ rx' \in Seq(Tokens) /\ lines' \in Settings
    BY <1>b, <2>1, RestType, ExchangeTypes
  <2>3. Blank \in Cells
    BY DEF Blank, Cells
  <2>4. mem' \in Memory /\ expected' \in Memory
    BY <2>1, <2>3 DEF KToolTypes, TypeOK, Memory
  <2>5. pc' = "exited" /\ exit' \in {0, 1} /\ log' \in BOOLEAN /\ port' = "closed"
    <3>1. CASE Unparsable(r)
      BY <2>1, <3>1 DEF Exit, KToolTypes, TypeOK
    <3>2. CASE ~Unparsable(r)
      BY <2>1, <3>2 DEF Exit, KToolTypes, TypeOK
    <3>. QED BY <3>1, <3>2
  <2>. QED BY <1>13, <2>2, <2>4, <2>5 DEF flash_erase, host, KToolTypes, TypeOK
<1>14. CASE RefuseRead
  BY <1>14 DEF RefuseRead, Exit, BadLength, host, device, hist, KToolTypes, TypeOK
<1>15. CASE read_flash
  <2>1. PICK kind, r :
          /\ kind \in Asked /\ r \in Received("FLASH_READ", kind, n)
          /\ Exchange(kind, r.rest)
          /\ \/ Exit(1, FALSE) /\ UNCHANGED <<n, dump>>
             \/ Exit(2, TRUE) /\ UNCHANGED <<n, dump>>
             \/ /\ dump' = dump \o ReadBlock(r.body[3])
                /\ n' = n + 1
                /\ \/ Exit(0, Ret(r) = "?")
                   \/ pc' = "read" /\ log' = (log \/ Ret(r) = "?") /\ UNCHANGED <<port, exit>>
    BY <1>15 DEF read_flash
  <2>2. /\ faults' \in 0 .. MaxFaults /\ kinds' \subseteq Faults
        /\ rx' \in Seq(Tokens) /\ lines' \in Settings
    <3>1. n \in Nat
      BY DEF KToolTypes, TypeOK
    <3>. QED BY <1>b, <2>1, <3>1, RestType, ExchangeTypes
  <2>3. dump \o ReadBlock(r.body[3]) \in Seq(Cells)
    BY BlockType, ConcatProperties DEF KToolTypes, TypeOK
  <2>4. dump' \in Seq(Cells) /\ n' \in Nat \ {0}
    <3>1. CASE UNCHANGED <<n, dump>>
      BY <3>1 DEF KToolTypes, TypeOK
    <3>2. CASE dump' = dump \o ReadBlock(r.body[3]) /\ n' = n + 1
      BY <2>3, <3>2 DEF KToolTypes, TypeOK
    <3>. QED BY <2>1, <3>1, <3>2
  <2>5. /\ pc' \in {"read", "exited"} /\ exit' \in -1 .. 2 /\ log' \in BOOLEAN
        /\ port' \in {"open", "closed"}
    <3>1. CASE Exit(1, FALSE)
      BY <3>1 DEF Exit, KToolTypes, TypeOK
    <3>2. CASE Exit(2, TRUE)
      BY <3>2 DEF Exit, KToolTypes, TypeOK
    <3>3. CASE Exit(0, Ret(r) = "?")
      BY <3>3 DEF Exit, KToolTypes, TypeOK
    <3>4. CASE pc' = "read" /\ log' = (log \/ Ret(r) = "?") /\ UNCHANGED <<port, exit>>
      BY <3>4 DEF KToolTypes, TypeOK
    <3>. QED BY <2>1, <3>1, <3>2, <3>3, <3>4
  <2>. QED BY <1>15, <2>2, <2>4, <2>5 DEF read_flash, device, KToolTypes, TypeOK
<1>16. CASE send_data_to_isp
  <2>1. SendOp \in Ops
    BY <1>b DEF SendOp
  <2>2. PICK kind, r :
          /\ kind \in Asked /\ r \in Received(SendOp, kind, 0)
          /\ Exchange(kind, r.rest)
          /\ mem' = IF Obeys(SendOp, kind) THEN Overwrite(mem, TheFrame) ELSE mem
          /\ \/ /\ Advance /\ tries' = 0
                /\ expected' = Overwrite(expected, TheFrame)
                /\ UNCHANGED <<port, ended>>
             \/ /\ tries' = tries + 1
                /\ Exit(2, TRUE) \/ GoTo("send", r)
                /\ UNCHANGED <<f, n, script, expected>>
    BY <1>16 DEF send_data_to_isp
  <2>3. /\ faults' \in 0 .. MaxFaults /\ kinds' \subseteq Faults
        /\ rx' \in Seq(Tokens) /\ lines' \in Settings
    BY <1>b, <2>1, <2>2, RestType, ExchangeTypes
  <2>4. pc = "send" /\ UNCHANGED <<job, Board, address, hostfast, dump, stage, devfast, sram>>
    BY <1>16 DEF send_data_to_isp
  <2>5. /\ f \in 1 .. Len(job.files) /\ mem' \in Memory
        /\ Overwrite(expected, TheFrame) \in Memory
    BY <2>2, <2>4, TheFrameType DEF KToolTypes, TypeOK
  <2>6. CASE /\ Advance /\ tries' = 0
             /\ expected' = Overwrite(expected, TheFrame)
             /\ UNCHANGED <<port, ended>>
    <3>1. ResetToBoot(Board) \in Seq(Settings)
      BY ScriptTypes DEF KToolTypes
    <3>2. /\ n' \in Nat \ {0} /\ f' \in 1 .. Len(job.files) /\ script' \in Seq(Settings)
          /\ pc' \in {"send", "exec", "reboot"}
      <4>1. f \in Nat /\ Len(job.files) \in Nat /\ n \in Nat /\ script \in Seq(Settings)
        BY <2>5, JobTypes DEF KToolTypes, TypeOK
      <4>2. CASE n' = n + 1 /\ pc' = "send" /\ UNCHANGED <<f, script>>
        BY <2>5, <4>1, <4>2
      <4>3. CASE f < Len(job.files) /\ f' = f + 1 /\ n' = 1 /\ pc' = "send" /\ UNCHANGED script
        BY <2>5, <4>1, <4>3
      <4>4. CASE /\ pc' = (IF tosram THEN "exec" ELSE "reboot")
                 /\ script' = (IF tosram THEN <<>> ELSE ResetToBoot(Board))
                 /\ UNCHANGED <<f, n>>
        BY <2>5, <3>1, <4>1, <4>4 DEF KToolTypes
      <4>. QED BY <2>6, <4>2, <4>3, <4>4 DEF Advance
    <3>. QED BY <2>3, <2>4, <2>5, <2>6, <3>2 DEF ended, KToolTypes, TypeOK
  <2>7. CASE /\ tries' = tries + 1
             /\ Exit(2, TRUE) \/ GoTo("send", r)
             /\ UNCHANGED <<f, n, script, expected>>
    <3>1. /\ pc' \in {"send", "exited"} /\ exit' \in -1 .. 2 /\ log' \in BOOLEAN
          /\ port' \in {"open", "closed"}
      <4>1. CASE Exit(2, TRUE)
        BY <4>1 DEF Exit, KToolTypes, TypeOK
      <4>2. CASE GoTo("send", r)
        BY <4>2, GoToTypes
      <4>. QED BY <2>7, <4>1, <4>2
    <3>. QED BY <2>3, <2>4, <2>5, <2>7, <3>1 DEF KToolTypes, TypeOK
  <2>. QED BY <2>2, <2>6, <2>7
<1>17. CASE send_to_closed_port
  <2>1. /\ pc' \in {"send", "exited"} /\ exit' \in -1 .. 2 /\ log' \in BOOLEAN
        /\ port' \in {"open", "closed"} /\ pc = "send" /\ tries' = tries + 1
    <3>1. CASE Exit(2, TRUE)
      BY <1>17, <3>1 DEF send_to_closed_port, Exit, KToolTypes, TypeOK
    <3>2. CASE UNCHANGED <<pc, port, ended>>
      BY <1>17, <3>2 DEF send_to_closed_port, ended, KToolTypes, TypeOK
    <3>. QED BY <1>17, <3>1, <3>2 DEF send_to_closed_port
  <2>. QED BY <1>17, <2>1 DEF send_to_closed_port, device, hist, KToolTypes, TypeOK
<1>18. CASE start_program
  <2>1. PICK kind, r :
          /\ kind \in Asked /\ r \in Received("SRAM_EXECUTE", kind, 0)
          /\ Exchange(kind, r.rest)
          /\ stage' = IF Obeys("SRAM_EXECUTE", kind) THEN "user" ELSE stage
          /\ Exit(IF Unparsable(r) THEN 1 ELSE 0, FALSE)
    BY <1>18 DEF start_program
  <2>2. /\ faults' \in 0 .. MaxFaults /\ kinds' \subseteq Faults
        /\ rx' \in Seq(Tokens) /\ lines' \in Settings
    BY <1>b, <2>1, RestType, ExchangeTypes
  <2>3. stage' \in Stages
    BY <2>1 DEF Stages, KToolTypes, TypeOK
  <2>4. pc' = "exited" /\ exit' \in {0, 1} /\ log' \in BOOLEAN /\ port' = "closed"
    BY <2>1 DEF Exit, KToolTypes, TypeOK
  <2>. QED BY <1>18, <2>2, <2>3, <2>4 DEF start_program, host, KToolTypes, TypeOK
<1>19. CASE Rebooted
  BY <1>19 DEF Rebooted, Exit, host, device, hist, KToolTypes, TypeOK
<1>20. CASE UNCHANGED vars
  BY <1>20 DEF vars, host, ended, serial, device, hist, KToolTypes, TypeOK
<1>. QED BY <1>1, <1>2, <1>3, <1>4, <1>5, <1>6, <1>7, <1>8, <1>9, <1>10, <1>11, <1>12, <1>13,
            <1>14, <1>15, <1>16, <1>17, <1>18, <1>19, <1>20 DEF Next

LEMMA InitTypes == Init => KToolTypes
<1> SUFFICES ASSUME Init PROVE KToolTypes
  OBVIOUS
<1>1. Old \in Cells /\ Idle \in Settings /\ Normals \subseteq Boards
  BY DEF Old, Cells, Idle, Settings, Normals, Boards
<1>2. mem \in Memory /\ sram \in [1 .. LOADER -> 0 .. LOADER]
  BY <1>1, KToolAssumption DEF Init, Memory
<1>3. job \in Jobs /\ Normal(job.Board) \in Normals
  BY JobTypes DEF Init
<1>4. faults \in 0 .. MaxFaults /\ kinds \subseteq Faults /\ n \in 1 .. LOADER
  BY KToolAssumption DEF Init
<1>5. /\ pc = "start" /\ Board \in Normals /\ script \in Seq(Settings) /\ tries \in Nat
      /\ f = 1 /\ n = 1 /\ address = 1 /\ dump \in Seq(Cells) /\ exit = -1
      /\ rx \in Seq(Tokens) /\ stage \in Stages /\ lines \in Settings
  BY <1>1, <1>3 DEF Init, Stages
<1>6. hostfast = FALSE /\ devfast = FALSE /\ log = FALSE /\ port = "closed" /\ expected = mem
  BY DEF Init
<1>7. n \in Nat /\ address \in Nat \ {0} /\ n # 0 /\ f \in 1 .. Len(job.files) \cup {1}
  BY <1>4, <1>5, KToolAssumption
<1>8. Board \in Boards
  BY <1>1, <1>5
<1>9. 0 \in 0 .. MaxFaults /\ -1 \in -1 .. 2 /\ expected \in Memory
  BY <1>2, <1>6, KToolAssumption
<1>10. TypeOK
  BY <1>2, <1>3, <1>4, <1>5, <1>6, <1>7, <1>8, <1>9 DEF TypeOK
<1>. QED BY <1>4, <1>5, <1>10 DEF KToolTypes

(* The types of every variable, for every call.                            *)
THEOREM KToolTyping == Spec => []TypeOK
<1>1. KToolTypes => TypeOK
  BY DEF KToolTypes
<1>. QED BY <1>1, InitTypes, TypesStep, PTL DEF Spec

-----------------------------------------------------------------------------
(* What a line that only loses does to the memory.                         *)

(* As long as the line has only lost, nothing is ever left to be read, so  *)
(* that no answer is taken for that to another request, and the memory is  *)
(* what all frames make of it but for the one that is being sent: it may   *)
(* have been written without ktool.py knowing, once or several times.      *)
LossInv ==
  kinds \subseteq Losses =>
    /\ rx = <<>>
    /\ pc # "exited" =>
         /\ exit = -1
         /\ mem = expected \/ (pc = "send" /\ mem = Overwrite(expected, TheFrame))
    /\ exit = 0 => mem = expected

(* A request is answered, as it should be, or the deadline passes.         *)
LEMMA LossyExchange ==
  ASSUME LossInv, kinds' \subseteq Losses, NEW kind \in Asked, Happens(kind),
         NEW op \in Ops, NEW at \in Nat, NEW r \in Received(op, kind, at)
  PROVE  /\ r.rest = <<>>
         /\ \/ r.got = "timeout"
            \/ /\ r.got = "packet" /\ r.body = Body(op, "OK", at)
               /\ kind = "none" /\ Serves(op)
<1>1. kinds \subseteq Losses /\ kind \in Losses \cup {"none"}
  BY DEF Happens
<1>2. rx = <<>>
  BY <1>1 DEF LossInv
<1>. QED BY <1>1, <1>2, LossyAnswer

(* A step of a method that writes nothing.                                 *)
LEMMA NothingWritten ==
  ASSUME LossInv, pc \notin {"send", "exited"}, UNCHANGED <<mem, expected>>,
         kinds \subseteq kinds', kinds' \subseteq Losses => rx' = <<>>,
         pc' = "exited" \/ exit' = exit
  PROVE  LossInv'
<1> SUFFICES ASSUME kinds' \subseteq Losses
             PROVE  /\ rx' = <<>>
                    /\ pc' # "exited" => exit' = -1 /\ mem' = expected'
                    /\ mem' = expected'
  BY DEF LossInv
<1>1. kinds \subseteq Losses
  OBVIOUS
<1>. QED BY <1>1 DEF LossInv

(* The same for a request and its answer.                                  *)
LEMMA NothingWrittenExchange ==
  ASSUME LossInv, pc \notin {"send", "exited"}, UNCHANGED <<mem, expected>>,
         NEW kind \in Asked, NEW op \in Ops, NEW at \in Nat, NEW r \in Received(op, kind, at),
         Exchange(kind, r.rest), pc' = "exited" \/ exit' = exit
  PROVE  LossInv'
<1>1. Happens(kind) /\ rx' = r.rest
  BY DEF Exchange
<1>2. kinds \subseteq kinds'
  BY <1>1 DEF Happens
<1>3. kinds' \subseteq Losses => rx' = <<>>
  BY <1>1, LossyExchange
<1>. QED BY <1>2, <1>3, NothingWritten

(* What is written is what has been asked for, and what is taken for       *)
(* written has been: one case for each method.                             *)
LEMMA LossStep == KToolTypes /\ LossInv /\ [Next]_vars => LossInv'
<1> SUFFICES ASSUME KToolTypes, LossInv, [Next]_vars PROVE LossInv'
  OBVIOUS
<1>a. {"GREET", "MEMORY_WRITE", "NOP", "FLASH_INIT", "FLASH_ID", "FLASH_ERASE", "FLASH_READ",
       "FLASH_WRITE", "SRAM_WRITE", "SRAM_EXECUTE"} \subseteq Ops /\ 0 \in Nat /\ n \in Nat
  BY DEF Ops, KToolTypes, TypeOK
<1>b. "unasked" \notin Losses /\ "noport" \notin Losses
  BY DEF Losses
<1>1. CASE OpenPort
  <2>1. /\ pc = "start" /\ UNCHANGED <<mem, expected>> /\ kinds \subseteq kinds'
        /\ rx' = <<>> \/ UNCHANGED rx
        /\ pc' = "exited" \/ exit' = exit
    BY <1>1 DEF OpenPort, Happens, Exit, ended
  <2>2. kinds' \subseteq Losses => rx' = <<>>
    BY <2>1 DEF LossInv
  <2>. QED BY <2>1, <2>2, NothingWritten
<1>2. CASE CheckFile
  <2>1. pc = "file" /\ UNCHANGED <<mem, expected, kinds, rx>> /\ (pc' = "exited" \/ exit' = exit)
    BY <1>2 DEF CheckFile, Exit, ended, device, hist
  <2>. QED BY <2>1, NothingWritten DEF LossInv
<1>3. CASE SetLines
  <2>1. pc \in {"reset", "reboot"} /\ UNCHANGED <<mem, expected, kinds, rx, exit>>
    BY <1>3 DEF SetLines, ended, hist
  <2>. QED BY <2>1, NothingWritten DEF LossInv
<1>4. CASE greeting
  <2>1. PICK kind, r :
          /\ kind \in Asked /\ r \in Received("GREET", kind, 0)
          /\ Exchange(kind, r.rest) /\ (pc' = "exited" \/ exit' = exit)
    BY <1>4 DEF greeting, GoTo, Exit, ended
  <2>2. pc = "reset" /\ UNCHANGED <<mem, expected>>
    BY <1>4 DEF greeting, device
  <2>. QED BY <1>a, <2>1, <2>2, NothingWrittenExchange
<1>5. CASE install_flash_bootloader
  <2>1. PICK kind, r :
          /\ kind \in Asked /\ r \in Received("MEMORY_WRITE", kind, 0)
          /\ Exchange(kind, r.rest) /\ (pc' = "exited" \/ exit' = exit)
    BY <1>5 DEF install_flash_bootloader, GoTo, Exit, ended
  <2>2. pc = "install" /\ UNCHANGED <<mem, expected>>
    BY <1>5 DEF install_flash_bootloader
  <2>. QED BY <1>a, <2>1, <2>2, NothingWrittenExchange
<1>6. CASE boot
  <2>1. PICK kind \in {"none", "unheard", "unasked"} :
          Happens(kind) /\ (kind = "unasked" \/ rx' = rx)
    BY <1>6 DEF boot
  <2>2. pc = "boot" /\ UNCHANGED <<mem, expected, exit>>
    BY <1>6 DEF boot, ended
  <2>3. kinds \subseteq kinds' /\ (kinds' \subseteq Losses => rx' = <<>>)
    BY <1>b, <2>1 DEF Happens, LossInv
  <2>. QED BY <2>2, <2>3, NothingWritten
<1>7. CASE WriteToClosedPort
  <2>1. pc \in {"hello", "init", "erase"} /\ UNCHANGED <<mem, expected, kinds, rx>> /\ pc' = "exited"
    BY <1>7 DEF WriteToClosedPort, Exit, device, hist
  <2>. QED BY <2>1, NothingWritten DEF LossInv
<1>8. ASSUME NEW op, NEW r, NEW next, Retry(op, r, next) PROVE pc' = "exited" \/ exit' = exit
  BY <1>8 DEF Retry, GoTo, Exit, ended
<1>9. CASE flash_greeting
  <2>1. PICK kind, r, k :
          /\ kind \in Asked /\ r \in Received("NOP", kind, 0) /\ k \in 1 .. Len(r.rest) + 1
          /\ Exchange(kind, SubSeq(r.rest, IF Confirms("NOP", r) THEN k ELSE 1, Len(r.rest)))
          /\ Retry("NOP", r, AfterGreeting)
    BY <1>9 DEF flash_greeting
  <2>2. pc = "hello" /\ UNCHANGED <<mem, expected>> /\ (pc' = "exited" \/ exit' = exit)
    BY <1>8, <1>9, <2>1 DEF flash_greeting, device
  <2>3. Happens(kind) /\ kinds \subseteq kinds'
    BY <2>1 DEF Exchange, Happens
  <2>4. ASSUME kinds' \subseteq Losses PROVE rx' = <<>>
    <3>1. r.rest = <<>>
      BY <1>a, <2>1, <2>3, <2>4, LossyExchange
    <3>2. Len(r.rest) = 0 /\ k = 1
      BY <3>1, <2>1
    <3>3. rx' = SubSeq(<<>>, 1, 0)
      BY <2>1, <3>1, <3>2 DEF Exchange
    <3>. QED BY <3>3
  <2>. QED BY <2>2, <2>3, <2>4, NothingWritten
<1>10. CASE change_baudrate
  <2>1. PICK kind \in {"none", "unheard", "unasked"} :
          Happens(kind) /\ (kind = "unasked" \/ rx' = rx)
    BY <1>10 DEF change_baudrate
  <2>2. pc = "baud" /\ UNCHANGED <<mem, expected, exit>>
    BY <1>10 DEF change_baudrate, ended
  <2>3. kinds \subseteq kinds' /\ (kinds' \subseteq Losses => rx' = <<>>)
    BY <1>b, <2>1 DEF Happens, LossInv
  <2>. QED BY <2>2, <2>3, NothingWritten
<1>11. CASE LoadToSram
  <2>1. pc = "load" /\ UNCHANGED <<mem, expected, kinds, rx>> /\ (pc' = "exited" \/ exit' = exit)
    BY <1>11 DEF LoadToSram, Exit, ended, device, hist
  <2>. QED BY <2>1, NothingWritten DEF LossInv
<1>12. CASE init_flash
  <2>1. PICK kind, r :
          /\ kind \in Asked /\ r \in Received("FLASH_INIT", kind, 0)
          /\ Exchange(kind, r.rest) /\ (pc' = "exited" \/ exit' = exit)
    BY <1>8, <1>12 DEF init_flash
  <2>2. pc = "init" /\ UNCHANGED <<mem, expected>>
    BY <1>12 DEF init_flash, device
  <2>. QED BY <1>a, <2>1, <2>2, NothingWrittenExchange
<1>13. CASE get_flash_id
  <2>1. PICK kind, r :
          /\ kind \in Asked /\ r \in Received("FLASH_ID", kind, 0)
          /\ Exchange(kind, r.rest) /\ exit' = exit
    BY <1>13 DEF get_flash_id, GoTo, ended
  <2>2. pc = "id" /\ UNCHANGED <<mem, expected>>
    BY <1>13 DEF get_flash_id, device
  <2>. QED BY <1>a, <2>1, <2>2, NothingWrittenExchange
<1>14. CASE flash_erase
  <2>1. PICK kind, r :
          /\ kind \in Asked /\ r \in Received("FLASH_ERASE", kind, 0)
          /\ Exchange(kind, r.rest)
          /\ mem' = (IF Obeys("FLASH_ERASE", kind) THEN [a \in DOMAIN mem |-> Blank] ELSE mem)
          /\ \/ Unparsable(r) /\ Exit(1, FALSE) /\ UNCHANGED expected
             \/ ~Unparsable(r) /\ expected' = [a \in DOMAIN mem |-> Blank]
    BY <1>14 DEF flash_erase
  <2>2. pc' = "exited" /\ (exit' = 0 => ~Unparsable(r) /\ expected' = [a \in DOMAIN mem |-> Blank])
    BY <1>14, <2>1 DEF flash_erase, Exit
  <2> SUFFICES ASSUME kinds' \subseteq Losses PROVE rx' = <<>> /\ (exit' = 0 => mem' = expected')
    BY <2>2 DEF LossInv
  <2>3. Happens(kind) /\ rx' = r.rest
    BY <2>1 DEF Exchange
  <2>4. /\ r.rest = <<>>
        /\ r.got = "timeout" \/ (kind = "none" /\ Serves("FLASH_ERASE"))
    BY <1>a, <2>1, <2>3, LossyExchange
  <2>5. ASSUME exit' = 0 PROVE mem' = expected'
    <3>1. Obeys("FLASH_ERASE", kind)
      BY <2>2, <2>4, <2>5 DEF Unparsable, Obeys
    <3>. QED BY <2>1, <2>2, <2>5, <3>1
  <2>. QED BY <2>3, <2>4, <2>5
<1>15. CASE RefuseRead
  <2>1. pc = "read" /\ UNCHANGED <<mem, expected, kinds, rx>> /\ pc' = "exited"
    BY <1>15 DEF RefuseRead, Exit, device, hist
  <2>. QED BY <2>1, NothingWritten DEF LossInv
<1>16. CASE read_flash
  <2>1. PICK kind, r :
          /\ kind \in Asked /\ r \in Received("FLASH_READ", kind, n)
          /\ Exchange(kind, r.rest) /\ (pc' = "exited" \/ exit' = exit)
    BY <1>16 DEF read_flash, Exit
  <2>2. pc = "read" /\ UNCHANGED <<mem, expected>>
    BY <1>16 DEF read_flash, device
  <2>. QED BY <1>a, <2>1, <2>2, NothingWrittenExchange
<1>17. CASE send_data_to_isp
  <2>1. PICK kind, r :
          /\ kind \in Asked /\ r \in Received(SendOp, kind, 0)
          /\ Exchange(kind, r.rest)
          /\ mem' = (IF Obeys(SendOp, kind) THEN Overwrite(mem, TheFrame) ELSE mem)
          /\ \/ /\ ~Unparsable(r) /\ Advance /\ expected' = Overwrite(expected, TheFrame)
                /\ UNCHANGED ended
             \/ /\ Unparsable(r) /\ (Exit(2, TRUE) \/ GoTo("send", r))
                /\ UNCHANGED <<f, n, expected>>
    BY <1>17 DEF send_data_to_isp
  <2>2. pc = "send" /\ job' = job
    BY <1>17 DEF send_data_to_isp
  <2> SUFFICES ASSUME kinds' \subseteq Losses
               PROVE  /\ rx' = <<>>
                      /\ pc' # "exited" =>
                           /\ exit' = -1
                           /\ mem' = expected' \/ (pc' = "send" /\ mem' = Overwrite(expected, TheFrame)')
                      /\ exit' = 0 => mem' = expected'
    BY DEF LossInv
  <2>3. Happens(kind) /\ rx' = r.rest
    BY <2>1 DEF Exchange
  <2>4. SendOp \in Ops
    BY <1>a DEF SendOp
  <2>5. /\ r.rest = <<>>
        /\ \/ r.got = "timeout"
           \/ r.got = "packet" /\ r.body = Body(SendOp, "OK", 0) /\ kind = "none" /\ Serves(SendOp)
    BY <1>a, <2>1, <2>3, <2>4, LossyExchange
  <2>6. kinds \subseteq Losses
    BY <2>3 DEF Happens
  <2>7. exit = -1 /\ (mem = expected \/ mem = Overwrite(expected, TheFrame))
    BY <2>2, <2>6 DEF LossInv
  <2>8. Overwrite(mem, TheFrame) = Overwrite(expected, TheFrame)
    BY <2>7, OverwriteTwice
  <2>9. CASE ~Unparsable(r) /\ expected' = Overwrite(expected, TheFrame) /\ UNCHANGED ended
    <3>1. Obeys(SendOp, kind)
      BY <2>5, <2>9 DEF Unparsable, Obeys
    <3>2. mem' = expected'
      BY <2>1, <2>8, <2>9, <3>1
    <3>3. exit' = -1
      BY <2>7, <2>9 DEF ended
    <3>. QED BY <2>3, <2>5, <3>2, <3>3
  <2>10. CASE (Exit(2, TRUE) \/ GoTo("send", r)) /\ UNCHANGED <<f, n, expected>>
    <3>1. TheFrame' = TheFrame
      BY <2>2, <2>10 DEF TheFrame, tosram
    <3>2. mem' \in {expected, Overwrite(expected, TheFrame)}
      BY <2>1, <2>7, <2>8
    <3>3. (pc' = "exited" /\ exit' = 2) \/ (pc' = "send" /\ exit' = -1)
      BY <2>7, <2>10 DEF Exit, GoTo, ended
    <3>4. Overwrite(expected, TheFrame)' = Overwrite(expected, TheFrame)
      BY <2>10, <3>1 DEF Overwrite
    <3>. QED BY <2>3, <2>5, <2>10, <3>2, <3>3, <3>4
  <2>. QED BY <2>1, <2>9, <2>10
<1>18. CASE send_to_closed_port
  <2>1. /\ pc = "send" /\ UNCHANGED <<job, f, n, rx, mem, kinds, expected>>
        /\ (pc' = "exited" /\ exit' = 2) \/ UNCHANGED <<pc, exit>>
    BY <1>18 DEF send_to_closed_port, Exit, host, ended, device, hist
  <2>2. TheFrame' = TheFrame
    BY <2>1 DEF TheFrame, tosram
  <2>3. Overwrite(expected, TheFrame)' = Overwrite(expected, TheFrame)
    BY <2>1, <2>2 DEF Overwrite
  <2>. QED BY <2>1, <2>3 DEF LossInv
<1>19. CASE start_program
  <2>1. PICK kind, r :
          /\ kind \in Asked /\ r \in Received("SRAM_EXECUTE", kind, 0)
          /\ Exchange(kind, r.rest) /\ pc' = "exited"
    BY <1>19 DEF start_program, Exit
  <2>2. pc = "exec" /\ UNCHANGED <<mem, expected>>
    BY <1>19 DEF start_program
  <2>. QED BY <1>a, <2>1, <2>2, NothingWrittenExchange
<1>20. CASE Rebooted
  <2>1. pc = "reboot" /\ UNCHANGED <<mem, expected, kinds, rx>> /\ pc' = "exited"
    BY <1>20 DEF Rebooted, Exit, device, hist
  <2>. QED BY <2>1, NothingWritten DEF LossInv
<1>21. CASE UNCHANGED vars
  <2>1. UNCHANGED <<job, pc, f, n, rx, exit, mem, kinds, expected>>
    BY <1>21 DEF vars, host, ended, serial, device, hist
  <2>2. Overwrite(expected, TheFrame)' = Overwrite(expected, TheFrame)
    BY <2>1 DEF Overwrite, TheFrame, tosram
  <2>. QED BY <2>1, <2>2 DEF LossInv
<1>. QED BY <1>1, <1>2, <1>3, <1>4, <1>5, <1>6, <1>7, <1>9, <1>10, <1>11, <1>12, <1>13, <1>14,
            <1>15, <1>16, <1>17, <1>18, <1>19, <1>20, <1>21 DEF Next

(* ktool.py:1129-1141: whatever is lost, and however often, exit status 0  *)
(* means that every frame has been written.                                *)
THEOREM LossesNoticed == Spec => []LossesAreNoticed
<1>1. Init => KToolTypes
  BY InitTypes
<1>2. Init => LossInv
  BY DEF Init, LossInv
<1>3. LossInv => LossesAreNoticed
  BY DEF LossInv, LossesAreNoticed
<1>. QED BY <1>1, <1>2, <1>3, TypesStep, LossStep, PTL DEF Spec

-----------------------------------------------------------------------------
(* Where a session leaves the board.                                       *)

(* The boards whose circuit b's reset routines are made for.               *)
Matches(b, c) ==
  \/ b \in {"dan", "bit", "trainer"} /\ c = "dan"
  \/ b \in {"kd233", "goE"} /\ c = "kd233"
  \/ b = "goD" /\ c = "goD"

LEMMA SettingsDiffer ==
  /\ Idle # DTR /\ Idle # RTS /\ Idle # Both
  /\ DTR # RTS /\ DTR # Both /\ RTS # Both
BY DEF Idle, DTR, RTS, Both

(* A chip that ran its program when the port was opened is in its ROM after*)
(* a reset routine only if that is the one for its circuit.                *)
IntoRomIfMatching(b, c, x, y, z) ==
  /\ NextStage(c, "app", Both, x) = "app"
  /\ NextStage(c, NextStage(c, "app", x, y), y, z) = "rom" => Matches(b, c)

LEMMA IspScripts ==
  ASSUME NEW b \in Normals \ {"none"}, NEW c \in Circuits
  PROVE  \E x, y, z : ResetToIsp(b) = <<x, y, z>> /\ IntoRomIfMatching(b, c, x, y, z)
<1>1. c \in {"dan", "kd233", "goD"}
  BY DEF Circuits
<1>2. CASE b \in {"dan", "bit", "trainer"}
  <2>1. ResetToIsp(b) = <<Idle, RTS, DTR>>
    BY <1>2 DEF ResetToIsp, reset_to_isp_dan
  <2>2. IntoRomIfMatching(b, c, Idle, RTS, DTR)
    BY <1>1, <1>2, SettingsDiffer DEF IntoRomIfMatching, NextStage, InReset, IO16Low, Matches
  <2>. QED BY <2>1, <2>2
<1>3. CASE b \in {"kd233", "goE"}
  <2>1. ResetToIsp(b) = <<Idle, DTR, RTS>>
    BY <1>3 DEF ResetToIsp, reset_to_isp_kd233
  <2>2. IntoRomIfMatching(b, c, Idle, DTR, RTS)
    BY <1>1, <1>3, SettingsDiffer DEF IntoRomIfMatching, NextStage, InReset, IO16Low, Matches
  <2>. QED BY <2>1, <2>2
<1>4. CASE b = "goD"
  <2>1. ResetToIsp(b) = <<Both, DTR, DTR>>
    BY <1>4 DEF ResetToIsp, reset_to_isp_goD
  <2>2. IntoRomIfMatching(b, c, Both, DTR, DTR)
    BY <1>1, <1>4, SettingsDiffer DEF IntoRomIfMatching, NextStage, InReset, IO16Low, Matches
  <2>. QED BY <2>1, <2>2
<1>. QED BY <1>2, <1>3, <1>4 DEF Normals

(* The last two settings of the other routine start the program in flash,  *)
(* whatever the chip was at.                                               *)
LEMMA BootScripts ==
  ASSUME NEW b, NEW c, Matches(b, c)
  PROVE  \E x, y, z : ResetToBoot(b) = <<x, y, z>> /\ \A s : NextStage(c, s, y, z) = "app"
<1>1. CASE b \in {"dan", "bit", "trainer"} /\ c = "dan"
  <2>1. ResetToBoot(b) = <<Idle, RTS, Idle>>
    BY <1>1 DEF ResetToBoot, reset_to_boot_dan
  <2>2. \A s : NextStage(c, s, RTS, Idle) = "app"
    BY <1>1, SettingsDiffer DEF NextStage, InReset, IO16Low
  <2>. QED BY <2>1, <2>2
<1>2. CASE b \in {"kd233", "goE"} /\ c = "kd233"
  <2>1. ResetToBoot(b) = <<Idle, DTR, Idle>>
    BY <1>2 DEF ResetToBoot, reset_to_boot_kd233, reset_to_boot_maixgo
  <2>2. \A s : NextStage(c, s, DTR, Idle) = "app"
    BY <1>2, SettingsDiffer DEF NextStage, InReset, IO16Low
  <2>. QED BY <2>1, <2>2
<1>3. CASE b = "goD" /\ c = "goD"
  <2>1. ResetToBoot(b) = <<Idle, DTR, Both>>
    BY <1>3 DEF ResetToBoot, reset_to_boot_goD
  <2>2. \A s : NextStage(c, s, DTR, Both) = "app"
    BY <1>3, SettingsDiffer DEF NextStage
  <2>. QED BY <2>1, <2>2
<1>. QED BY <1>1, <1>2, <1>3 DEF Matches

(* On the way into the ROM.                                                *)
ToIsp ==
  LET b == Probes(Board)[1]
      c == job.attached
  IN  \E x, y, z :
        /\ IntoRomIfMatching(b, c, x, y, z)
        /\ \/ script = <<x, y, z>> /\ lines = Both /\ stage = "app"
           \/ script = <<y, z>> /\ lines = x /\ stage = "app"
           \/ script = <<z>> /\ lines = y /\ stage = NextStage(c, "app", x, y)
           \/ script = <<>> /\ (stage = "rom" => Matches(b, c))

(* On the way back.                                                        *)
ToApp ==
  \E x, y, z :
    /\ \A s : NextStage(job.attached, s, y, z) = "app"
    /\ \/ script \in {<<x, y, z>>, <<y, z>>}
       \/ script = <<z>> /\ lines = y
       \/ script = <<>> /\ stage = "app"

(* Only a board that the routines of Board are made for gets further than  *)
(* the greeting, and only writing the flash ends with a reset.             *)
BoardInv ==
  /\ pc \in {"start", "file", "reset"} => tries = 0 /\ rx = <<>>
  /\ pc = "start" => lines = Idle /\ stage = "app"
  /\ pc = "file" => lines = Both /\ stage = "app"
  /\ pc = "reset" => ToIsp
  /\ pc \notin {"start", "file", "reset", "exited"} => Matches(Board, job.attached)
  /\ pc \in {"erase", "read"} => job.mode = pc
  /\ pc = "exec" => job.mode = "sram"
  /\ pc = "reboot" => ToApp
  /\ pc # "exited" => exit = -1
  /\ exit = 0 /\ job.mode = "flash" => stage = "app"

(* Nothing answers that does not serve the request.                        *)
LEMMA OnlyServerAnswers ==
  ASSUME rx = <<>>, NEW op, NEW kind, NEW at, NEW r \in Received(op, kind, at), r.got = "packet"
  PROVE  Serves(op)
<1> SUFFICES ASSUME ~Serves(op) PROVE FALSE
  OBVIOUS
<1>1. r = recv_one_return(<<>> \o <<>>)
  BY DEF Received
<1>2. <<>> \o <<>> = <<>>
  OBVIOUS
<1>3. r.got = "timeout"
  BY <1>1, <1>2 DEF recv_one_return
<1>. QED BY <1>3

(* A step that ends the process without having written the flash, or leads *)
(* from one method behind the greeting to another.                         *)
LEMMA Between ==
  ASSUME BoardInv, UNCHANGED <<job, Board>>,
         pc \notin {"start", "file", "reset", "exited"},
         \/ pc' = "exited" /\ (exit' = 0 => job.mode # "flash")
         \/ /\ pc' \notin {"start", "file", "reset", "exec", "reboot", "exited"} /\ exit' = exit
            /\ pc' \in {"erase", "read"} => job.mode = pc'
  PROVE  BoardInv'
<1>1. exit = -1 /\ Matches(Board, job.attached)
  BY DEF BoardInv
<1>2. Matches(Board, job.attached)' <=> Matches(Board, job.attached)
  BY DEF Matches
<1>. QED BY <1>1, <1>2 DEF BoardInv

LEMMA BoardStep == KToolTypes /\ BoardInv /\ [Next]_vars => BoardInv'
<1> SUFFICES ASSUME KToolTypes, BoardInv, [Next]_vars PROVE BoardInv'
  OBVIOUS
<1>a. job.attached \in Circuits /\ job.mode \in {"flash", "sram", "erase", "read"}
  BY JobTypes DEF KToolTypes, TypeOK
<1>b. Probes(Board)[1] \in Normals \ {"none"}
  BY DEF KToolTypes, Normals, Probes
<1>1. CASE OpenPort
  <2>1. pc = "start" /\ UNCHANGED <<job, tries>> /\ tries = 0 /\ rx = <<>> /\ lines = Idle /\ stage = "app"
    BY <1>1 DEF OpenPort, host, BoardInv
  <2>2. CASE /\ pc' = "file" /\ lines' = Both /\ rx' = <<>> /\ UNCHANGED ended
             /\ stage' = NextStage(job.attached, stage, lines, Both)
    <3>1. stage' = "app"
      BY <1>a, <2>1, <2>2, SettingsDiffer DEF NextStage, InReset, IO16Low, Circuits
    <3>. QED BY <2>1, <2>2, <3>1 DEF BoardInv, ended
  <2>3. CASE \E detect \in BOOLEAN : Exit(1, detect)
    BY <2>3 DEF Exit, BoardInv
  <2>. QED BY <1>1, <2>2, <2>3 DEF OpenPort
<1>2. CASE CheckFile
  <2>1. pc = "file" /\ UNCHANGED <<job, Board, lines, stage, rx>>
    BY <1>2 DEF CheckFile, device
  <2>2. CASE Exit(1, TRUE)
    BY <2>2 DEF Exit, BoardInv
  <2>3. CASE pc' = "reset" /\ script' = ResetToIsp(Probes(Board)[1]) /\ tries' = 0 /\ UNCHANGED ended
    <3>1. PICK x, y, z : /\ ResetToIsp(Probes(Board)[1]) = <<x, y, z>>
                         /\ IntoRomIfMatching(Probes(Board)[1], job.attached, x, y, z)
      BY <1>a, <1>b, IspScripts
    <3>2. ToIsp'
      BY <2>1, <2>3, <3>1 DEF ToIsp, BoardInv
    <3>. QED BY <2>1, <2>3, <3>2 DEF BoardInv, ended
  <2>. QED BY <1>2, <2>2, <2>3 DEF CheckFile
<1>3. CASE SetLines
  <2>1. /\ pc \in {"reset", "reboot"} /\ script # <<>> /\ lines' = Head(script) /\ script' = Tail(script)
        /\ stage' = NextStage(job.attached, stage, lines, lines')
        /\ UNCHANGED <<job, pc, Board, tries, ended, rx>>
    BY <1>3 DEF SetLines
  <2>2. \A x, y, z : /\ Head(<<x, y, z>>) = x /\ Tail(<<x, y, z>>) = <<y, z>>
                     /\ Head(<<y, z>>) = y /\ Tail(<<y, z>>) = <<z>>
                     /\ Head(<<z>>) = z /\ Tail(<<z>>) = <<>>
    OBVIOUS
  <2>3. CASE pc = "reset"
    <3>1. PICK x, y, z :
            /\ IntoRomIfMatching(Probes(Board)[1], job.attached, x, y, z)
            /\ \/ script = <<x, y, z>> /\ lines = Both /\ stage = "app"
               \/ script = <<y, z>> /\ lines = x /\ stage = "app"
               \/ script = <<z>> /\ lines = y /\ stage = NextStage(job.attached, "app", x, y)
      BY <2>1, <2>3 DEF BoardInv, ToIsp
    <3>2. \/ script' = <<y, z>> /\ lines' = x /\ stage' = "app"
          \/ script' = <<z>> /\ lines' = y /\ stage' = NextStage(job.attached, "app", x, y)
          \/ script' = <<>> /\ (stage' = "rom" => Matches(Probes(Board)[1], job.attached))
      <4>1. CASE script = <<x, y, z>> /\ lines = Both /\ stage = "app"
        <5>1. lines' = x /\ script' = <<y, z>>
          BY <2>1, <2>2, <4>1
        <5>. QED BY <2>1, <3>1, <4>1, <5>1 DEF IntoRomIfMatching
      <4>2. CASE script = <<y, z>> /\ lines = x /\ stage = "app"
        <5>1. lines' = y /\ script' = <<z>>
          BY <2>1, <2>2, <4>2
        <5>. QED BY <2>1, <4>2, <5>1
      <4>3. CASE script = <<z>> /\ lines = y /\ stage = NextStage(job.attached, "app", x, y)
        <5>1. lines' = z /\ script' = <<>>
          BY <2>1, <2>2, <4>3
        <5>. QED BY <2>1, <3>1, <4>3, <5>1 DEF IntoRomIfMatching
      <4>. QED BY <3>1, <4>1, <4>2, <4>3
    <3>3. ToIsp'
      BY <2>1, <3>1, <3>2 DEF ToIsp
    <3>. QED BY <2>1, <2>3, <3>3 DEF BoardInv, ended
  <2>4. CASE pc = "reboot"
    <3>1. PICK x, y, z :
            /\ \A s : NextStage(job.attached, s, y, z) = "app"
            /\ script \in {<<x, y, z>>, <<y, z>>} \/ (script = <<z>> /\ lines = y)
      BY <2>1, <2>4 DEF BoardInv, ToApp
    <3>2. \/ script' = <<y, z>>
          \/ script' = <<z>> /\ lines' = y
          \/ script' = <<>> /\ stage' = "app"
      <4>1. CASE script = <<x, y, z>>
        BY <2>1, <2>2, <4>1
      <4>2. CASE script = <<y, z>>
        <5>1. lines' = y /\ script' = <<z>>
          BY <2>1, <2>2, <4>2
        <5>. QED BY <5>1
      <4>3. CASE script = <<z>> /\ lines = y
        <5>1. lines' = z /\ script' = <<>>
          BY <2>1, <2>2, <4>3
        <5>. QED BY <2>1, <3>1, <4>3, <5>1
      <4>. QED BY <3>1, <4>1, <4>2, <4>3
    <3>3. ToApp'
      BY <2>1, <3>1, <3>2 DEF ToApp
    <3>4. Matches(Board, job.attached)'
      BY <2>1, <2>4 DEF BoardInv
    <3>. QED BY <2>1, <2>4, <3>3, <3>4 DEF BoardInv, ended
  <2>. QED BY <2>1, <2>3, <2>4
<1>4. CASE greeting
  <2>1. pc = "reset" /\ script = <<>> /\ tries = 0 /\ rx = <<>> /\ UNCHANGED <<job, stage>>
    BY <1>4 DEF greeting, BoardInv, device
  <2>2. PICK kind, r :
          /\ kind \in Asked /\ r \in Received("GREET", kind, 0)
          /\ \/ /\ r.got = "packet" /\ Board' = Probes(Board)[(tries % Len(Probes(Board))) + 1]
                /\ GoTo("install", r)
             \/ Exit(1, FALSE)
    BY <1>4 DEF greeting, Raised
  <2>3. CASE Exit(1, FALSE)
    BY <2>3 DEF Exit, BoardInv
  <2>4. CASE r.got = "packet" /\ GoTo("install", r)
             /\ Board' = Probes(Board)[(tries % Len(Probes(Board))) + 1]
    <3>1. stage = "rom"
      BY <2>1, <2>2, <2>4, OnlyServerAnswers DEF Serves, RomOps
    <3>2. Matches(Probes(Board)[1], job.attached)
      BY <2>1, <3>1 DEF BoardInv, ToIsp
    <3>3. 0 % Len(Probes(Board)) = 0
      BY DEF Probes
    <3>4. Board' = Probes(Board)[1]
      BY <2>1, <2>4, <3>3
    <3>5. pc' = "install" /\ exit' = exit
      BY <2>4 DEF GoTo, ended
    <3>6. Matches(Board, job.attached)'
      BY <2>1, <3>2, <3>4
    <3>. QED BY <2>1, <3>5, <3>6 DEF BoardInv
  <2>. QED BY <2>2, <2>3, <2>4
<1>5. CASE install_flash_bootloader
  BY <1>5, Between DEF install_flash_bootloader, GoTo, Exit, ended
<1>6. CASE boot
  BY <1>6, Between DEF boot, ended
<1>7. CASE WriteToClosedPort
  BY <1>7, Between DEF WriteToClosedPort, Exit, host
<1>8. ASSUME NEW op, NEW r, NEW next, Retry(op, r, next)
      PROVE  (pc' = "exited" /\ exit' \in {1}) \/ (pc' \in {pc, next} /\ exit' = exit)
  BY <1>8 DEF Retry, GoTo, Exit, ended
<1>9. CASE flash_greeting
  <2>1. pc = "hello" /\ UNCHANGED <<job, Board>> /\ \E r : Retry("NOP", r, AfterGreeting)
    BY <1>9 DEF flash_greeting
  <2>2. AfterGreeting \in {"baud", "load", "init"}
    BY DEF AfterGreeting
  <2>3. (pc' = "exited" /\ exit' = 1) \/ (pc' \in {"hello", "baud", "load", "init"} /\ exit' = exit)
    BY <1>8, <2>1, <2>2
  <2>. QED BY <2>1, <2>3, Between
<1>10. CASE change_baudrate
  BY <1>10, Between DEF change_baudrate, ended
<1>11. CASE LoadToSram
  BY <1>11, Between DEF LoadToSram, Exit, ended, host
<1>12. CASE init_flash
  <2>1. pc = "init" /\ UNCHANGED <<job, Board>> /\ \E r : Retry("FLASH_INIT", r, "id")
    BY <1>12 DEF init_flash
  <2>2. (pc' = "exited" /\ exit' = 1) \/ (pc' \in {"init", "id"} /\ exit' = exit)
    BY <1>8, <2>1
  <2>. QED BY <2>1, <2>2, Between
<1>13. CASE get_flash_id
  <2>1. /\ pc = "id" /\ UNCHANGED <<job, Board, exit>>
        /\ pc' = IF job.mode = "flash" THEN "send" ELSE job.mode
    BY <1>13 DEF get_flash_id, GoTo, host, ended
  <2>2. job.mode # "sram"
    BY <2>1 DEF KToolTypes
  <2>. QED BY <1>a, <2>1, <2>2, Between
<1>14. CASE flash_erase
  <2>1. pc = "erase" /\ pc' = "exited" /\ UNCHANGED <<job, Board>>
    BY <1>14 DEF flash_erase, Exit, host
  <2>2. job.mode = "erase"
    BY <2>1 DEF BoardInv
  <2>. QED BY <2>1, <2>2, Between
<1>15. CASE RefuseRead
  BY <1>15, Between DEF RefuseRead, Exit, host
<1>16. CASE read_flash
  <2>1. pc = "read" /\ UNCHANGED <<job, Board>> /\ (pc' = "exited" \/ (pc' = "read" /\ exit' = exit))
    BY <1>16 DEF read_flash, Exit
  <2>2. job.mode = "read"
    BY <2>1 DEF BoardInv
  <2>. QED BY <2>1, <2>2, Between
<1>17. CASE send_data_to_isp
  <2>1. pc = "send" /\ UNCHANGED <<job, Board>> /\ exit = -1 /\ Matches(Board, job.attached)
    BY <1>17 DEF send_data_to_isp, BoardInv
  <2>2. job.mode \in {"flash", "sram"}
    BY <2>1 DEF KToolTypes
  <2>3. \/ Advance /\ UNCHANGED ended
        \/ pc' = "exited" /\ exit' = 2
        \/ pc' = "send" /\ UNCHANGED ended
    BY <1>17 DEF send_data_to_isp, Exit, GoTo
  <2>4. CASE pc' = "exited" /\ exit' = 2
    BY <2>1, <2>4, Between
  <2>5. CASE pc' = "send" /\ UNCHANGED ended
    BY <2>1, <2>5, Between DEF ended
  <2>6. CASE pc' = "exec" /\ tosram /\ UNCHANGED ended
    BY <2>1, <2>6 DEF BoardInv, ended, tosram
  <2>7. CASE pc' = "reboot" /\ script' = ResetToBoot(Board) /\ UNCHANGED ended
    <3>1. PICK x, y, z : /\ ResetToBoot(Board) = <<x, y, z>>
                         /\ \A s : NextStage(job.attached, s, y, z) = "app"
      BY <2>1, BootScripts
    <3>2. ToApp'
      BY <2>1, <2>7, <3>1 DEF ToApp
    <3>. QED BY <2>1, <2>7, <3>2 DEF BoardInv, ended
  <2>. QED BY <2>3, <2>4, <2>5, <2>6, <2>7 DEF Advance
<1>18. CASE send_to_closed_port
  BY <1>18, Between DEF send_to_closed_port, Exit, host, ended
<1>19. CASE start_program
  <2>1. pc = "exec" /\ pc' = "exited" /\ UNCHANGED <<job, Board>>
    BY <1>19 DEF start_program, Exit, host
  <2>2. job.mode = "sram"
    BY <2>1 DEF BoardInv
  <2>. QED BY <2>1, <2>2, Between
<1>20. CASE Rebooted
  <2>1. pc = "reboot" /\ script = <<>> /\ pc' = "exited" /\ UNCHANGED <<job, stage>>
    BY <1>20 DEF Rebooted, Exit, device
  <2>2. stage = "app"
    BY <2>1 DEF BoardInv, ToApp
  <2>. QED BY <2>1, <2>2 DEF BoardInv
<1>21. CASE UNCHANGED vars
  <2>1. UNCHANGED <<job, pc, Board, script, tries, exit, lines, rx, stage>>
    BY <1>21 DEF vars, host, ended, serial, device
  <2>. QED BY <2>1 DEF BoardInv, ToIsp, ToApp
<1>. QED BY <1>1, <1>2, <1>3, <1>4, <1>5, <1>6, <1>7, <1>9, <1>10, <1>11, <1>12, <1>13, <1>14,
            <1>15, <1>16, <1>17, <1>18, <1>19, <1>20, <1>21 DEF Next

(* ktool.py:1767-1774: exit status 0 after writing the flash means that the*)
(* board runs what is in it, for every board and whatever the line did.    *)
THEOREM LeftInApp == Spec => []RebootedIntoApp
<1>1. Init => BoardInv
  BY DEF Init, BoardInv
<1>2. BoardInv => RebootedIntoApp
  BY DEF BoardInv, RebootedIntoApp
<1>. QED BY <1>1, <1>2, InitTypes, TypesStep, BoardStep, PTL DEF Spec

-----------------------------------------------------------------------------
(* What is read from the flash.                                            *)

(* No answer to a request for a block.                                     *)
NoBlocks(q) == \A i \in DOMAIN q : q[i][1] # "FLASH_READ"

(* What is left begins behind what was taken.                              *)
Parts(q, r) ==
  \E k \in Nat : /\ \A i \in DOMAIN r.rest : k + i \in DOMAIN q /\ r.rest[i] = q[k + i]
                 /\ r.got = "packet" => \E j \in DOMAIN q : j <= k /\ r.body = q[j]

LEMMA RecvParts ==
  ASSUME NEW q \in Seq(Tokens)
  PROVE  Parts(q, recv_one_return(q))
<1> SUFFICES ASSUME NEW r, r = recv_one_return(q) PROVE Parts(q, r)
  OBVIOUS
<1>1. CASE \E s, e \in DOMAIN q : PacketAt(q, s, e)
  <2> DEFINE p == CHOOSE p \in (DOMAIN q) \X (DOMAIN q) : PacketAt(q, p[1], p[2])
  <2>1. \E x \in (DOMAIN q) \X (DOMAIN q) : PacketAt(q, x[1], x[2])
    <3>1. PICK s, e \in DOMAIN q : PacketAt(q, s, e)
      BY <1>1
    <3>2. <<s, e>> \in (DOMAIN q) \X (DOMAIN q) /\ PacketAt(q, <<s, e>>[1], <<s, e>>[2])
      BY <3>1
    <3>. QED BY <3>2
  <2>2. p \in (DOMAIN q) \X (DOMAIN q) /\ PacketAt(q, p[1], p[2])
    BY <2>1
  <2>3. p[1] \in 1 .. Len(q) /\ p[2] \in 1 .. Len(q) /\ p[1] < p[2] /\ Len(q) \in Nat
    BY <2>2 DEF PacketAt
  <2>4. /\ r.rest = SubSeq(q, p[2] + 1, Len(q))
        /\ r.got = "packet" => r.body = q[p[1] + 1]
    BY <1>1 DEF recv_one_return
  <2> HIDE DEF p
  <2>5. \A i \in DOMAIN r.rest : p[2] + i \in DOMAIN q /\ r.rest[i] = q[p[2] + i]
    <3>1. /\ p[2] + 1 \in Int /\ Len(q) \in Int
          /\ \A i \in p[2] + 1 .. Len(q) : q[i] \in Tokens
      BY <2>3
    <3>2. /\ r.rest \in Seq(Tokens)
          /\ Len(r.rest) = IF p[2] + 1 <= Len(q) THEN Len(q) - (p[2] + 1) + 1 ELSE 0
          /\ \A i \in 1 .. Len(q) - (p[2] + 1) + 1 : r.rest[i] = q[p[2] + 1 + i - 1]
      BY <2>4, <3>1, SubSeqProperties
    <3>3. DOMAIN r.rest = 1 .. Len(q) - p[2]
      BY <2>3, <3>2
    <3>4. ASSUME NEW i \in DOMAIN r.rest PROVE p[2] + i \in DOMAIN q /\ r.rest[i] = q[p[2] + i]
      <4>1. /\ i \in 1 .. Len(q) - p[2] /\ p[2] + 1 + i - 1 = p[2] + i
            /\ i \in 1 .. Len(q) - (p[2] + 1) + 1
        BY <2>3, <3>3
      <4>2. r.rest[i] = q[p[2] + 1 + i - 1]
        BY <3>2, <4>1, Zenon
      <4>3. p[2] + i \in 1 .. Len(q)
        BY <2>3, <4>1
      <4>. QED BY <4>1, <4>2, <4>3
    <3>. QED BY <3>4
  <2>6. p[1] + 1 \in DOMAIN q /\ p[1] + 1 <= p[2] /\ p[2] \in Nat
    BY <2>3
  <2>7. r.got = "packet" => \E j \in DOMAIN q : j <= p[2] /\ r.body = q[j]
    BY <2>4, <2>6
  <2>. QED BY <2>5, <2>6, <2>7 DEF Parts
<1>2. CASE ~\E s, e \in DOMAIN q : PacketAt(q, s, e)
  <2>1. r.rest = <<>> /\ r.got # "packet"
    BY <1>2 DEF recv_one_return
  <2>2. DOMAIN r.rest = {} /\ 0 \in Nat
    BY <2>1
  <2>. QED BY <2>1, <2>2 DEF Parts
<1>. QED BY <1>1, <1>2

(* A board sends one block for a request at most, and it is that one.      *)
LEMMA AnswerBlocks ==
  ASSUME NEW kind \in Asked, NEW op \in Ops, NEW at \in Nat,
         NEW a \in Answers(kind, Body(op, "OK", at))
  PROVE  /\ \A i, j \in DOMAIN a : a[i][1] = "FLASH_READ" /\ a[j][1] = "FLASH_READ" => i = j
         /\ \A i \in DOMAIN a : a[i][1] = "FLASH_READ" =>
              /\ op = "FLASH_READ"
              /\ a[i] = Body(op, "OK", at) \/ a[i][2] \in {"BAD", "?"}
<1> DEFINE Block(x) == x[1] = "FLASH_READ" =>
                         op = "FLASH_READ" /\ (x = Body(op, "OK", at) \/ x[2] \in {"BAD", "?"})
           b == Body(op, "OK", at)
<1>1. kind \in {"none", "unheard", "unanswered", "cut", "refused", "noise", "garbled"}
  BY DEF Asked, Kinds, Faults, Losses
<1>2. /\ b[1] = op /\ Block(b) /\ C0[1] # "FLASH_READ"
      /\ Block(Body(op, "BAD", 0)) /\ Block(Body("?", "OK", 0)) /\ Block(Body(op, "?", 0))
  BY DEF Body, C0
<1> HIDE DEF b
<1>3. a \in {<<C0, b, C0>>, <<>>, <<C0, b>>, <<b, C0>>, <<C0, Body(op, "BAD", 0), C0>>,
             <<C0, C0, b, C0>>, <<C0, C0, C0, b, C0>>, <<C0, Body("?", "OK", 0), C0>>,
             <<C0, Body(op, "?", 0), C0>>}
  BY <1>1, <1>2 DEF Answers, b
<1>4. \E x : /\ Block(x)
             /\ \/ a = <<>>
                \/ a = <<C0, x, C0>> \/ a = <<C0, x>> \/ a = <<x, C0>>
                \/ a = <<C0, C0, x, C0>> \/ a = <<C0, C0, C0, x, C0>>
  BY <1>2, <1>3
<1> HIDE DEF Block
<1>5. PICK x : /\ Block(x)
               /\ \/ a = <<>>
                  \/ a = <<C0, x, C0>> \/ a = <<C0, x>> \/ a = <<x, C0>>
                  \/ a = <<C0, C0, x, C0>> \/ a = <<C0, C0, C0, x, C0>>
  BY <1>4
<1>6. \E k : \A i \in DOMAIN a : (i = k /\ a[i] = x) \/ (i # k /\ a[i] = C0)
  <2>1. CASE a = <<>>
    BY <2>1
  <2>2. CASE a = <<C0, x, C0>> \/ a = <<C0, x>>
    <3>1. \A i \in DOMAIN a : (i = 2 /\ a[i] = x) \/ (i # 2 /\ a[i] = C0)
      BY <2>2
    <3>. QED BY <3>1
  <2>3. CASE a = <<x, C0>>
    <3>1. \A i \in DOMAIN a : (i = 1 /\ a[i] = x) \/ (i # 1 /\ a[i] = C0)
      BY <2>3
    <3>. QED BY <3>1
  <2>4. CASE a = <<C0, C0, x, C0>>
    <3>1. \A i \in DOMAIN a : (i = 3 /\ a[i] = x) \/ (i # 3 /\ a[i] = C0)
      BY <2>4
    <3>. QED BY <3>1
  <2>5. CASE a = <<C0, C0, C0, x, C0>>
    <3>1. \A i \in DOMAIN a : (i = 4 /\ a[i] = x) \/ (i # 4 /\ a[i] = C0)
      BY <2>5
    <3>. QED BY <3>1
  <2>. QED BY <1>5, <2>1, <2>2, <2>3, <2>4, <2>5
<1>7. Block(x) /\ C0[1] # "FLASH_READ"
  BY <1>2, <1>5
<1>8. PICK k : \A i \in DOMAIN a : (i = k /\ a[i] = x) \/ (i # k /\ a[i] = C0)
  BY <1>6
<1>. QED BY <1>7, <1>8 DEF Block

(* If no block is left from before, none is left after a request, and what *)
(* is taken for the block that was asked for is that block.                *)
LEMMA ReceivedBlocks ==
  ASSUME rx \in Seq(Tokens), NoBlocks(rx), NEW kind \in Asked, NEW op \in Ops, NEW at \in Nat,
         NEW r \in Received(op, kind, at)
  PROVE  /\ op # "FLASH_READ" => NoBlocks(r.rest)
         /\ r.got = "packet" /\ Op(r) = "FLASH_READ" =>
              /\ NoBlocks(r.rest)
              /\ r.body = Body("FLASH_READ", "OK", at) \/ Ret(r) \in {"BAD", "?"}
<1>1. PICK a \in Seq(Tokens) :
        /\ r = recv_one_return(rx \o a)
        /\ \A i, j \in DOMAIN a : a[i][1] = "FLASH_READ" /\ a[j][1] = "FLASH_READ" => i = j
        /\ \A i \in DOMAIN a : a[i][1] = "FLASH_READ" =>
             /\ op = "FLASH_READ"
             /\ a[i] = Body(op, "OK", at) \/ a[i][2] \in {"BAD", "?"}
  <2>1. CASE Serves(op)
    BY <2>1, AnswersType, AnswerBlocks DEF Received
  <2>2. CASE ~Serves(op)
    <3>1. <<>> \in Seq(Tokens) /\ DOMAIN <<>> = {}
      OBVIOUS
    <3>. QED BY <2>2, <3>1 DEF Received
  <2>. QED BY <2>1, <2>2
<1> DEFINE q == rx \o a
<1>2. q \in Seq(Tokens)
  BY <1>1
<1>3. \A i \in DOMAIN q : \/ i \in DOMAIN rx /\ q[i] = rx[i]
                          \/ i - Len(rx) \in DOMAIN a /\ q[i] = a[i - Len(rx)]
  BY <1>1
<1>4. /\ \A i, j \in DOMAIN q : q[i][1] = "FLASH_READ" /\ q[j][1] = "FLASH_READ" => i = j
      /\ \A i \in DOMAIN q : q[i][1] = "FLASH_READ" =>
           /\ op = "FLASH_READ"
           /\ q[i] = Body(op, "OK", at) \/ q[i][2] \in {"BAD", "?"}
  <2>1. \A i \in DOMAIN q : q[i][1] = "FLASH_READ" =>
          i - Len(rx) \in DOMAIN a /\ q[i] = a[i - Len(rx)]
    BY <1>3 DEF NoBlocks
  <2>2. DOMAIN q \subseteq Int /\ Len(rx) \in Int
    BY <1>2
  <2> HIDE DEF q
  <2>3. ASSUME NEW i \in DOMAIN q, NEW j \in DOMAIN q, q[i][1] = "FLASH_READ", q[j][1] = "FLASH_READ"
        PROVE  i = j
    <3>1. i - Len(rx) = j - Len(rx)
      BY <1>1, <2>1, <2>3
    <3>. QED BY <2>2, <3>1
  <2>4. \A i \in DOMAIN q : q[i][1] = "FLASH_READ" =>
           /\ op = "FLASH_READ"
           /\ q[i] = Body(op, "OK", at) \/ q[i][2] \in {"BAD", "?"}
    BY <1>1, <2>1
  <2>. QED BY <2>3, <2>4
<1>5. r = recv_one_return(q) /\ DOMAIN q = 1 .. Len(q) /\ Len(q) \in Nat
  BY <1>1, <1>2
<1> HIDE DEF q
<1>6. PICK k \in Nat :
        /\ \A i \in DOMAIN r.rest : k + i \in DOMAIN q /\ r.rest[i] = q[k + i]
        /\ r.got = "packet" => \E j \in DOMAIN q : j <= k /\ r.body = q[j]
  <2>1. Parts(q, r)
    BY <1>2, <1>5, RecvParts
  <2>. QED BY <2>1 DEF Parts
<1>7. op # "FLASH_READ" => NoBlocks(r.rest)
  BY <1>4, <1>6 DEF NoBlocks
<1>8. ASSUME r.got = "packet", Op(r) = "FLASH_READ"
      PROVE  NoBlocks(r.rest) /\ (r.body = Body("FLASH_READ", "OK", at) \/ Ret(r) \in {"BAD", "?"})
  <2>1. PICK j \in DOMAIN q : j <= k /\ r.body = q[j]
    BY <1>6, <1>8
  <2>2. q[j][1] = "FLASH_READ" /\ j \in Nat
    BY <1>5, <1>8, <2>1 DEF Op
  <2>3. r.rest \in Seq(Tokens)
    BY <1>2, <1>5, RecvType
  <2>4. \A i \in DOMAIN r.rest : k + i # j
    BY <2>1, <2>2, <2>3
  <2>5. NoBlocks(r.rest)
    BY <1>4, <1>6, <2>2, <2>4 DEF NoBlocks
  <2>. QED BY <1>4, <2>1, <2>2, <2>5 DEF Ret
<1>. QED BY <1>7, <1>8

(* The first k blocks have been read, and they are what the flash holds.   *)
Dumped(k) ==
  /\ Len(dump) = k * ReadSize
  /\ \A i \in 1 .. k * ReadSize :
       dump[i] = IF i - 1 \in DOMAIN mem THEN mem[i - 1] ELSE Blank

(* Until the first request for a block no block has come, and before each  *)
(* request none is left that was not asked for: what could be taken for the*)
(* answer is the answer.                                                   *)
DumpInv ==
  /\ pc # "exited" => exit = -1 /\ NoBlocks(rx)
  /\ pc \notin {"read", "exited"} => dump = <<>>
  /\ pc \in {"hello", "baud", "load", "init", "id"} => n = 1
  /\ pc \in {"send", "exec", "reboot", "erase"} => job.mode # "read"
  /\ pc = "read" /\ ~log => Dumped(n - 1)
  /\ DumpIsTrue

(* Steps that read nothing from the flash.                                 *)
LEMMA NothingRead ==
  ASSUME DumpInv, UNCHANGED <<job, dump>>, pc \notin {"read", "exited"},
         \/ pc' = "exited" /\ (exit' = 0 => job.mode # "read")
         \/ /\ pc' \notin {"read", "exited"} /\ exit' = exit /\ NoBlocks(rx')
            /\ pc' \in {"hello", "baud", "load", "init", "id"} => n' = 1
            /\ pc' \in {"send", "exec", "reboot", "erase"} => job.mode # "read"
  PROVE  DumpInv'
<1>1. exit = -1 /\ dump = <<>> /\ NoBlocks(rx)' = NoBlocks(rx')
  BY DEF DumpInv, NoBlocks
<1>. QED BY <1>1 DEF DumpInv, DumpIsTrue

(* No answer to another request leaves a block behind.                     *)
LEMMA OtherAnswers ==
  ASSUME KToolTypes, DumpInv, pc # "exited", NEW op \in Ops \ {"FLASH_READ"},
         NEW kind \in Asked, NEW at \in Nat, NEW r \in Received(op, kind, at)
  PROVE  NoBlocks(r.rest)
<1>1. rx \in Seq(Tokens) /\ NoBlocks(rx)
  BY DEF KToolTypes, TypeOK, DumpInv
<1>. QED BY <1>1, ReceivedBlocks

(* Nor does what is answered unasked.                                      *)
LEMMA UnaskedAnswers ==
  ASSUME KToolTypes, DumpInv, pc # "exited", NEW op \in Ops \ {"FLASH_READ"},
         rx' \in {rx, rx \o <<C0, Body(op, "OK", 0), C0>>}
  PROVE  NoBlocks(rx')
<1>1. rx \in Seq(Tokens) /\ NoBlocks(rx)
  BY DEF KToolTypes, TypeOK, DumpInv
<1> DEFINE b == Body(op, "OK", 0)
<1>2. b[1] # "FLASH_READ" /\ C0[1] # "FLASH_READ" /\ b \in Tokens /\ C0 \in Tokens
  BY DEF Body, C0, Tokens
<1> HIDE DEF b
<1>3. \A i \in DOMAIN (rx \o <<C0, b, C0>>) :
        \/ i \in DOMAIN rx /\ (rx \o <<C0, b, C0>>)[i] = rx[i]
        \/ (rx \o <<C0, b, C0>>)[i] \in {C0, b}
  BY <1>1
<1>4. NoBlocks(rx \o <<C0, b, C0>>)
  BY <1>1, <1>2, <1>3 DEF NoBlocks
<1>. QED BY <1>1, <1>4 DEF b

(* The flushing of flash_greeting() only takes away.                       *)
LEMMA Flushed ==
  ASSUME NEW q \in Seq(Tokens), NoBlocks(q), NEW k \in 1 .. Len(q) + 1
  PROVE  NoBlocks(SubSeq(q, k, Len(q)))
<1>1. k \in Int /\ Len(q) \in Int /\ \A i \in k .. Len(q) : q[i] \in Tokens
  OBVIOUS
<1>2. /\ SubSeq(q, k, Len(q)) \in Seq(Tokens)
      /\ Len(SubSeq(q, k, Len(q))) = IF k <= Len(q) THEN Len(q) - k + 1 ELSE 0
      /\ \A i \in 1 .. Len(q) - k + 1 : SubSeq(q, k, Len(q))[i] = q[k + i - 1]
  BY <1>1, SubSeqProperties
<1>3. ASSUME NEW i \in DOMAIN SubSeq(q, k, Len(q))
      PROVE  SubSeq(q, k, Len(q))[i][1] # "FLASH_READ"
  <2>1. i \in 1 .. Len(q) - k + 1 /\ k + i - 1 \in DOMAIN q
    BY <1>1, <1>2
  <2>2. SubSeq(q, k, Len(q))[i] = q[k + i - 1]
    BY <1>2, <2>1, Zenon
  <2>. QED BY <2>1, <2>2 DEF NoBlocks
<1>. QED BY <1>3 DEF NoBlocks

(* Where the block after (m - 1) blocks of d cells ends.                   *)
LEMMA NextMultiple ==
  ASSUME NEW m \in Nat \ {0}, NEW d \in Nat
  PROVE  (m - 1) * d \in Nat /\ m * d = (m - 1) * d + d
<1>1. PICK k \in Nat : m = k + 1
  <2>1. m - 1 \in Nat /\ m = (m - 1) + 1
    OBVIOUS
  <2>. QED BY <2>1
<1>2. (k + 1) * d = k * d + d /\ k * d \in Nat /\ m - 1 = k
  BY <1>1
<1>. QED BY <1>1, <1>2

(* A sequence on 1 .. d has the length d.                                  *)
LEMMA LengthIs ==
  ASSUME NEW S, NEW d \in Nat, NEW s \in Seq(S), s \in [1 .. d -> S]
  PROVE  Len(s) = d
<1>1. Len(s) \in Nat /\ 1 .. Len(s) = 1 .. d
  OBVIOUS
<1>2. (Len(s) \in 1 .. Len(s) <=> Len(s) \in 1 .. d) /\ (d \in 1 .. Len(s) <=> d \in 1 .. d)
  BY <1>1
<1>. QED BY <1>1, <1>2

(* Another block behind those that have been read.                         *)
LEMMA OneBlockMore ==
  ASSUME KToolTypes, Dumped(n - 1), dump' = dump \o ReadBlock(n), n' = n + 1,
         UNCHANGED <<job, mem>>
  PROVE  Dumped(n - 1)' /\ n' - 1 = n /\ Len(dump') = n * ReadSize
<1> DEFINE x == (n - 1) * ReadSize
           R == ReadSize
           Cell(a) == IF a \in DOMAIN mem THEN mem[a] ELSE Blank
<1>1. R \in Nat /\ n \in Nat /\ n - 1 \in Nat /\ R' = R
  BY LayoutAssumption DEF ReadSize, KToolTypes, TypeOK
<1>2. x \in Nat /\ n * R = x + R
  <2>1. n \in Nat \ {0}
    BY DEF KToolTypes, TypeOK
  <2>. QED BY <1>1, <2>1, NextMultiple
<1>3. /\ Len(dump) = x /\ dump \in Seq(Cells)
      /\ \A i \in 1 .. x : dump[i] = Cell(i - 1)
  BY DEF Dumped, KToolTypes, TypeOK
<1>4. ReadBlock(n) \in [1 .. R -> Cells] /\ ReadBlock(n) \in Seq(Cells)
  <2>1. Blank \in Cells
    BY DEF Blank, Cells
  <2>. QED BY <2>1, BlockType DEF ReadBlock, KToolTypes, TypeOK, Memory
<1>5. \A j \in 1 .. R : ReadBlock(n)[j] = Cell(x + j - 1)
  BY DEF ReadBlock
<1> DEFINE b == ReadBlock(n)
<1> HIDE DEF b, x, R, Cell
<1>6. b \in Seq(Cells) /\ Len(b) = R /\ \A j \in 1 .. R : b[j] = Cell(x + j - 1)
  <2>1. Len(b) = R
    BY <1>1, <1>4, LengthIs DEF b
  <2>. QED BY <1>4, <1>5, <2>1 DEF b
<1>7. dump' = dump \o b
  BY DEF b
<1>8. Len(dump') = x + R
  <2>1. dump \in Seq(Cells) /\ b \in Seq(Cells)
    BY <1>3, <1>6
  <2>2. Len(dump \o b) = Len(dump) + Len(b)
    BY <2>1, ConcatProperties
  <2>. QED BY <1>3, <1>6, <1>7, <2>2, Zenon
<1>9. ASSUME NEW i \in 1 .. x + R PROVE dump'[i] = Cell(i - 1)
  <2>1. CASE i <= x
    <3>1. i \in 1 .. x /\ i \in 1 .. Len(dump) + Len(b) /\ i <= Len(dump)
      BY <1>1, <1>2, <1>3, <1>6, <2>1
    <3>2. (dump \o b)[i] = dump[i]
      BY <1>3, <1>6, <3>1, ConcatProperties
    <3>. QED BY <1>3, <1>7, <3>1, <3>2, Zenon
  <2>2. CASE i > x
    <3>1. i - x \in 1 .. R /\ x + (i - x) - 1 = i - 1
      BY <1>1, <1>2, <2>2
    <3>2. dump'[i] = b[i - x]
      <4>1. i \in 1 .. Len(dump) + Len(b) /\ ~(i <= Len(dump))
        BY <1>1, <1>2, <1>3, <1>6, <2>2
      <4>2. (dump \o b)[i] = b[i - Len(dump)]
        BY <1>3, <1>6, <4>1, ConcatProperties
      <4>. QED BY <1>3, <1>7, <4>2
    <3>3. b[i - x] = Cell(x + (i - x) - 1)
      BY <1>6, <3>1, Zenon
    <3>4. Cell(x + (i - x) - 1) = Cell(i - 1)
      BY <3>1 DEF Cell
    <3>. QED BY <3>2, <3>3, <3>4
  <2>3. i <= x \/ i > x
    BY <1>1, <1>2
  <2>. QED BY <2>1, <2>2, <2>3, Zenon
<1>10. n' - 1 = n
  BY <1>1
<1>11. /\ Len(dump') = n * R
       /\ \A i \in 1 .. n * R : dump'[i] = Cell(i - 1)
  BY <1>2, <1>8, <1>9
<1>12. (Dumped(n - 1)') <=>
         /\ Len(dump') = (n' - 1) * R'
         /\ \A i \in 1 .. (n' - 1) * R' : dump'[i] = (IF i - 1 \in DOMAIN mem' THEN mem'[i - 1] ELSE Blank)
  BY DEF Dumped, R
<1>13. Dumped(n - 1)'
  BY <1>1, <1>10, <1>11, <1>12 DEF Cell
<1>. QED BY <1>10, <1>11, <1>13 DEF R

(* Every step keeps DumpInv: one case for each method.                     *)
LEMMA DumpStep == KToolTypes /\ DumpInv /\ [Next]_vars => DumpInv'
<1> SUFFICES ASSUME KToolTypes, DumpInv, [Next]_vars PROVE DumpInv'
  OBVIOUS
<1>a. job.mode \in {"flash", "sram", "erase", "read"} /\ job.rdlen \in Nat
  <2>1. job \in JobType
    BY KToolAssumption DEF KToolTypes, TypeOK
  <2>. QED BY <2>1 DEF JobType
<1>b. pc # "exited" => exit = -1 /\ NoBlocks(rx)
  BY DEF DumpInv
<1>c. 0 \in Nat /\ {"GREET", "MEMORY_WRITE", "MEMORY_BOOT", "NOP", "BAUD", "FLASH_INIT",
        "FLASH_ID", "FLASH_ERASE", "FLASH_WRITE", "SRAM_WRITE", "SRAM_EXECUTE"} \subseteq Ops \ {"FLASH_READ"}
  BY DEF Ops
<1>1. CASE OpenPort
  <2>1. /\ pc = "start" /\ UNCHANGED <<job, dump>>
        /\ \/ pc' = "exited" /\ exit' = 1
           \/ pc' = "file" /\ rx' = <<>> /\ exit' = exit
    BY <1>1 DEF OpenPort, Exit, host, ended
  <2>2. NoBlocks(<<>>)
    BY DEF NoBlocks
  <2>. QED BY <2>1, <2>2, NothingRead
<1>2. CASE CheckFile
  <2>1. /\ pc = "file" /\ UNCHANGED <<job, dump, rx>>
        /\ \/ pc' = "exited" /\ exit' = 1
           \/ pc' = "reset" /\ exit' = exit
    BY <1>2 DEF CheckFile, Exit, ended
  <2>. QED BY <1>b, <2>1, NothingRead
<1>3. CASE SetLines
  <2>1. pc \in {"reset", "reboot"} /\ UNCHANGED <<job, pc, dump, rx, exit>>
    BY <1>3 DEF SetLines, ended
  <2>. QED BY <1>b, <2>1, NothingRead DEF DumpInv
<1>4. CASE greeting
  <2>1. PICK kind, r :
          /\ pc = "reset" /\ UNCHANGED <<job, dump>>
          /\ kind \in Asked /\ r \in Received("GREET", kind, 0) /\ rx' = r.rest
          /\ \/ pc' = "exited" /\ exit' = 1
             \/ pc' \in {"install", "reset"} /\ exit' = exit
    BY <1>4 DEF greeting, Exchange, GoTo, Exit, ended
  <2>. QED BY <1>c, <2>1, OtherAnswers, NothingRead
<1>5. CASE install_flash_bootloader
  <2>1. PICK kind, r :
          /\ pc = "install" /\ UNCHANGED <<job, dump>>
          /\ kind \in Asked /\ r \in Received("MEMORY_WRITE", kind, 0) /\ rx' = r.rest
          /\ \/ pc' = "exited" /\ exit' = 1
             \/ pc' \in {"install", "boot"} /\ exit' = exit
    BY <1>5 DEF install_flash_bootloader, Exchange, GoTo, Exit, ended
  <2>. QED BY <1>c, <2>1, OtherAnswers, NothingRead
<1>6. CASE boot
  <2>1. /\ pc = "boot" /\ pc' = "hello" /\ n' = 1 /\ UNCHANGED <<job, dump, exit>>
        /\ rx' \in {rx, rx \o <<C0, Body("MEMORY_BOOT", "OK", 0), C0>>}
    BY <1>6 DEF boot, ended
  <2>. QED BY <1>c, <2>1, UnaskedAnswers, NothingRead
<1>7. CASE WriteToClosedPort
  <2>1. pc \in {"hello", "init", "erase"} /\ pc' = "exited" /\ exit' = 1 /\ UNCHANGED <<job, dump>>
    BY <1>7 DEF WriteToClosedPort, Exit, host
  <2>. QED BY <2>1, NothingRead
<1>8. ASSUME NEW op, NEW r, NEW next, Retry(op, r, next)
      PROVE  (pc' = "exited" /\ exit' = 1) \/ (pc' \in {pc, next} /\ exit' = exit)
  BY <1>8 DEF Retry, GoTo, Exit, ended
<1>9. CASE flash_greeting
  <2>1. PICK kind, r, k :
          /\ kind \in Asked /\ r \in Received("NOP", kind, 0) /\ k \in 1 .. Len(r.rest) + 1
          /\ pc = "hello" /\ UNCHANGED <<job, dump, n>>
          /\ rx' = SubSeq(r.rest, IF Confirms("NOP", r) THEN k ELSE 1, Len(r.rest))
          /\ Retry("NOP", r, AfterGreeting)
    BY <1>9 DEF flash_greeting, Exchange
  <2>2. r.rest \in Seq(Tokens) /\ NoBlocks(r.rest)
    BY <1>c, <2>1, OtherAnswers, RestType
  <2>3. NoBlocks(rx')
    <3>1. (IF Confirms("NOP", r) THEN k ELSE 1) \in 1 .. Len(r.rest) + 1
      BY <2>1, <2>2
    <3>. QED BY <2>1, <2>2, <3>1, Flushed
  <2>4. AfterGreeting \in {"baud", "load", "init"}
    BY DEF AfterGreeting
  <2>5. (pc' = "exited" /\ exit' = 1) \/ (pc' \in {"hello", "baud", "load", "init"} /\ exit' = exit)
    BY <1>8, <2>1, <2>4
  <2>6. n = 1
    BY <2>1 DEF DumpInv
  <2>. QED BY <2>1, <2>3, <2>5, <2>6, NothingRead
<1>10. CASE change_baudrate
  <2>1. /\ pc = "baud" /\ pc' = "hello" /\ UNCHANGED <<job, dump, exit, n>>
        /\ rx' \in {rx, rx \o <<C0, Body("BAUD", "OK", 0), C0>>}
    BY <1>10 DEF change_baudrate, ended
  <2>2. n = 1
    BY <2>1 DEF DumpInv
  <2>. QED BY <1>c, <2>1, <2>2, UnaskedAnswers, NothingRead
<1>11. CASE LoadToSram
  <2>1. /\ pc = "load" /\ UNCHANGED <<job, dump, rx>>
        /\ \/ pc' = "exited" /\ exit' = 1
           \/ pc' = "send" /\ exit' = exit
    BY <1>11 DEF LoadToSram, Exit, ended, host
  <2>2. job.mode = "sram"
    BY <2>1 DEF KToolTypes
  <2>. QED BY <1>b, <2>1, <2>2, NothingRead
<1>12. CASE init_flash
  <2>1. PICK kind, r :
          /\ kind \in Asked /\ r \in Received("FLASH_INIT", kind, 0)
          /\ pc = "init" /\ UNCHANGED <<job, dump, n>> /\ rx' = r.rest
          /\ Retry("FLASH_INIT", r, "id")
    BY <1>12 DEF init_flash, Exchange
  <2>2. (pc' = "exited" /\ exit' = 1) \/ (pc' \in {"init", "id"} /\ exit' = exit)
    BY <1>8, <2>1
  <2>3. n = 1
    BY <2>1 DEF DumpInv
  <2>. QED BY <1>c, <2>1, <2>2, <2>3, OtherAnswers, NothingRead
<1>13. CASE get_flash_id
  <2>1. PICK kind, r :
          /\ kind \in Asked /\ r \in Received("FLASH_ID", kind, 0)
          /\ pc = "id" /\ UNCHANGED <<job, dump, n, exit, mem>> /\ rx' = r.rest
          /\ pc' = IF job.mode = "flash" THEN "send" ELSE job.mode
    BY <1>13 DEF get_flash_id, Exchange, GoTo, host, ended, device
  <2>2. NoBlocks(r.rest) /\ job.mode # "sram" /\ n = 1 /\ dump = <<>>
    BY <1>c, <2>1, OtherAnswers DEF KToolTypes, DumpInv
  <2>3. CASE job.mode = "read"
    <3>1. dump' = <<>> /\ n' = 1 /\ exit' = -1 /\ pc' = "read"
      BY <1>b, <2>1, <2>2, <2>3
    <3>2. \A x \in Nat : 0 * x = 0
      OBVIOUS
    <3>3. ReadSize' \in Nat
      BY LayoutAssumption DEF ReadSize
    <3>4. (n' - 1) * ReadSize' = 0
      <4>1. n' - 1 = 0
        BY <3>1
      <4>. QED BY <3>2, <3>3, <4>1, Zenon
    <3>5. Dumped(n - 1)'
      BY <3>1, <3>4 DEF Dumped
    <3>6. NoBlocks(rx)'
      BY <2>1, <2>2 DEF NoBlocks
    <3>. QED BY <3>1, <3>5, <3>6 DEF DumpInv, DumpIsTrue
  <2>4. CASE job.mode \in {"flash", "erase"}
    BY <2>1, <2>2, <2>4, NothingRead
  <2>. QED BY <1>a, <2>2, <2>3, <2>4
<1>14. CASE flash_erase
  <2>1. pc = "erase" /\ pc' = "exited" /\ UNCHANGED <<job, dump>>
    BY <1>14 DEF flash_erase, Exit, host
  <2>2. job.mode # "read"
    BY <2>1 DEF DumpInv
  <2>. QED BY <2>1, <2>2, NothingRead
<1>15. CASE RefuseRead
  BY <1>15 DEF RefuseRead, Exit, DumpInv, DumpIsTrue
<1>16. CASE read_flash
  <2>1. PICK kind, r :
          /\ kind \in Asked /\ r \in Received("FLASH_READ", kind, n)
          /\ pc = "read" /\ ~BadLength /\ rx' = r.rest
          /\ IF r.got = "timeout" THEN Exit(1, FALSE) /\ UNCHANGED <<n, dump>>
             ELSE IF r.got = "empty" \/ Op(r) # "FLASH_READ" \/ Ret(r) = "BAD"
             THEN Exit(2, TRUE) /\ UNCHANGED <<n, dump>>
             ELSE /\ dump' = dump \o ReadBlock(r.body[3])
                  /\ n' = n + 1
                  /\ IF n * ReadSize >= job.rdlen THEN Exit(0, Ret(r) = "?")
                     ELSE pc' = "read" /\ log' = (log \/ Ret(r) = "?") /\ UNCHANGED <<port, exit>>
          /\ UNCHANGED <<job, mem>>
    BY <1>16 DEF read_flash, Exchange, device
  <2>2. CASE pc' = "exited" /\ exit' \in {1, 2}
    BY <2>2 DEF DumpInv, DumpIsTrue
  <2>3. CASE /\ r.got = "packet" /\ Op(r) = "FLASH_READ" /\ Ret(r) # "BAD"
             /\ dump' = dump \o ReadBlock(r.body[3]) /\ n' = n + 1
             /\ log' = (log \/ Ret(r) = "?")
             /\ \/ n * ReadSize >= job.rdlen /\ pc' = "exited" /\ exit' = 0
                \/ pc' = "read" /\ exit' = exit
    <3>1. n \in Nat /\ rx \in Seq(Tokens) /\ NoBlocks(rx) /\ "FLASH_READ" \in Ops
      BY <1>b, <2>1 DEF KToolTypes, TypeOK, Ops
    <3>2. NoBlocks(r.rest) /\ (r.body = Body("FLASH_READ", "OK", n) \/ Ret(r) = "?")
      BY <2>1, <2>3, <3>1, ReceivedBlocks
    <3>3. ASSUME ~log'
          PROVE  Dumped(n - 1)' /\ n' - 1 = n /\ Len(dump') = n * ReadSize
      <4>1. ~log /\ r.body[3] = n
        <5>1. ~log /\ Ret(r) # "?"
          BY <2>3, <3>3, Zenon
        <5>2. r.body = Body("FLASH_READ", "OK", n)
          BY <3>2, <5>1
        <5>. QED BY <5>1, <5>2 DEF Body
      <4>2. Dumped(n - 1) /\ dump' = dump \o ReadBlock(n)
        BY <2>1, <2>3, <4>1 DEF DumpInv
      <4>. QED BY <2>1, <2>3, <4>2, OneBlockMore
    <3>4. CASE pc' = "read" /\ exit' = exit
      <4>1. NoBlocks(rx)' /\ exit' = -1
        BY <1>b, <2>1, <3>2, <3>4 DEF NoBlocks
      <4>. QED BY <3>3, <3>4, <4>1 DEF DumpInv, DumpIsTrue
    <3>5. CASE n * ReadSize >= job.rdlen /\ pc' = "exited" /\ exit' = 0
      <4>1. ASSUME ~log'
            PROVE  /\ Len(dump') >= job.rdlen
                   /\ \A i \in 1 .. job.rdlen : dump'[i] = mem'[i - 1]
        <5>1. /\ Len(dump') = n * ReadSize
              /\ \A i \in 1 .. n * ReadSize :
                   dump'[i] = (IF i - 1 \in DOMAIN mem' THEN mem'[i - 1] ELSE Blank)
          <6>1. (Dumped(n - 1)') => \A i \in 1 .. Len(dump') :
                   dump'[i] = (IF i - 1 \in DOMAIN mem' THEN mem'[i - 1] ELSE Blank)
            BY DEF Dumped
          <6>. QED BY <3>3, <4>1, <6>1
        <5>2. job.rdlen <= MEM /\ MEM \in Nat /\ DOMAIN mem' = 0 .. MEM - 1
          BY <1>a, <2>1, KToolAssumption DEF BadLength, KToolTypes, TypeOK, Memory
        <5>3. n * ReadSize \in Nat
          <6>1. ReadSize \in Nat
            BY LayoutAssumption DEF ReadSize
          <6>. QED BY <3>1, <6>1
        <5> DEFINE m == n * ReadSize
        <5> HIDE DEF m
        <5>4. \A i \in 1 .. job.rdlen : i \in 1 .. m /\ i - 1 \in 0 .. MEM - 1
          BY <1>a, <3>5, <5>2, <5>3 DEF m
        <5>. QED BY <3>5, <5>1, <5>2, <5>4 DEF m
      <4>2. DumpIsTrue'
        BY <2>1, <4>1 DEF DumpIsTrue
      <4>. QED BY <3>5, <4>2 DEF DumpInv
    <3>. QED BY <2>3, <3>4, <3>5
  <2>4. r.got \in {"empty", "packet", "timeout"}
    BY <2>1, ReceivedType DEF KToolTypes, TypeOK, Ops
  <2>. QED BY <2>1, <2>2, <2>3, <2>4 DEF Exit
<1>17. CASE send_data_to_isp
  <2>1. PICK kind, r :
          /\ kind \in Asked /\ r \in Received(SendOp, kind, 0)
          /\ pc = "send" /\ UNCHANGED <<job, dump>> /\ rx' = r.rest
          /\ \/ Advance /\ UNCHANGED ended
             \/ pc' = "exited" /\ exit' = 2
             \/ pc' = "send" /\ UNCHANGED ended
    BY <1>17 DEF send_data_to_isp, Exchange, Exit, GoTo
  <2>2. (pc' \in {"send", "exec", "reboot"} /\ exit' = exit) \/ (pc' = "exited" /\ exit' = 2)
    BY <2>1 DEF Advance, ended
  <2>3. SendOp \in Ops \ {"FLASH_READ"}
    BY DEF SendOp, Ops
  <2>4. NoBlocks(rx') /\ job.mode # "read"
    BY <1>c, <2>1, <2>3, OtherAnswers DEF DumpInv
  <2>. QED BY <2>1, <2>2, <2>4, NothingRead
<1>18. CASE send_to_closed_port
  <2>1. /\ pc = "send" /\ UNCHANGED <<job, dump, rx>>
        /\ \/ pc' = "exited" /\ exit' = 2
           \/ pc' = "send" /\ exit' = exit
    BY <1>18 DEF send_to_closed_port, Exit, ended
  <2>2. job.mode # "read"
    BY <2>1 DEF DumpInv
  <2>. QED BY <1>b, <2>1, <2>2, NothingRead
<1>19. CASE start_program
  <2>1. pc = "exec" /\ pc' = "exited" /\ UNCHANGED <<job, dump>>
    BY <1>19 DEF start_program, Exit, host
  <2>2. job.mode # "read"
    BY <2>1 DEF DumpInv
  <2>. QED BY <2>1, <2>2, NothingRead
<1>20. CASE Rebooted
  <2>1. pc = "reboot" /\ pc' = "exited" /\ UNCHANGED <<job, dump>>
    BY <1>20 DEF Rebooted, Exit, host
  <2>2. job.mode # "read"
    BY <2>1 DEF DumpInv
  <2>. QED BY <2>1, <2>2, NothingRead
<1>21. CASE UNCHANGED vars
  <2>1. UNCHANGED <<job, pc, n, dump, exit, log, rx, mem>>
    BY <1>21 DEF vars, host, ended, serial, device
  <2>. QED BY <2>1 DEF DumpInv, DumpIsTrue, Dumped, ReadSize, NoBlocks
<1>. QED BY <1>1, <1>2, <1>3, <1>4, <1>5, <1>6, <1>7, <1>9, <1>10, <1>11, <1>12, <1>13, <1>14,
            <1>15, <1>16, <1>17, <1>18, <1>19, <1>20, <1>21 DEF Next

(* ktool.py:1305-1328: whatever the line does, a dump that ended without an*)
(* "[ERROR]" is the flash from its start, for every length and chip.       *)
THEOREM DumpTrue == Spec => []DumpIsTrue
<1>1. Init => DumpInv
  BY DEF Init, DumpInv, DumpIsTrue, NoBlocks
<1>2. DumpInv => DumpIsTrue
  BY DEF DumpInv
<1>. QED BY <1>1, <1>2, InitTypes, TypesStep, DumpStep, PTL DEF Spec

-----------------------------------------------------------------------------
(* The files in the memory.                                                *)

(* A multiple of d grows with its factor.                                  *)
LEMMA MultipleGrows ==
  ASSUME NEW p \in Int, NEW q \in Int, p <= q, NEW d \in Nat
  PROVE  p * d <= q * d
<1>1. (q - p) * d = q * d - p * d
  OBVIOUS
<1>2. PICK e \in Nat : e = q - p
  OBVIOUS
<1>3. e * d >= 0
  OBVIOUS
<1>4. p * d \in Int /\ q * d \in Int
  OBVIOUS
<1>. QED BY <1>1, <1>2, <1>3, <1>4

(* As many chunks as TotalChunks says hold the image.                      *)
LEMMA ChunksSuffice ==
  ASSUME NEW file \in Files, NEW ts \in BOOLEAN, NEW k \in Nat, k >= TotalChunks(Image(file, ts))
  PROVE  Len(Image(file, ts)) <= k * ChunkSize(Image(file, ts))
<1> DEFINE L == Len(Image(file, ts))
           size == ChunkSize(Image(file, ts))
           q == (L + size - 1) \div size
<1>1. L \in Nat /\ size \in Nat \ {0}
  <2>1. 1 \in Nat \ {0}
    OBVIOUS
  <2>. QED BY <2>1, FrameType
<1>2. k >= q
  BY DEF TotalChunks
<1> HIDE DEF L, size
<1>3. PICK a \in Nat : a = L + size - 1
  BY <1>1
<1>4. /\ a \div size \in Int /\ a % size \in 0 .. size - 1
      /\ a = size * (a \div size) + (a % size)
  BY <1>1
<1>5. PICK p \in Int : p = q
  BY <1>3, <1>4
<1>6. PICK r \in 0 .. size - 1 : L + size - 1 = size * p + r
  BY <1>3, <1>4, <1>5
<1>7. p * size <= k * size
  BY <1>1, <1>2, <1>5, MultipleGrows
<1>8. size * p = p * size /\ p * size \in Int /\ k * size \in Int
  BY <1>1
<1>. QED BY <1>1, <1>6, <1>7, <1>8 DEF L, size

(* The first k chunks of the file are in the memory.                       *)
FirstChunks(file, ts, k, memory) ==
  LET image == Image(file, ts)
  IN  \A j \in 1 .. Len(image) :
        j <= k * ChunkSize(image) => memory[file.at + j - 1] = image[j]

(* A frame adds its chunk to those before it, and touches nothing before   *)
(* the place of the file.                                                  *)
LEMMA OneChunkMore ==
  ASSUME NEW file \in Files, NEW ts \in BOOLEAN, NEW k \in Nat \ {0}, NEW m \in Memory,
         file.at + Len(Image(file, ts)) <= MEM, FirstChunks(file, ts, k - 1, m)
  PROVE  /\ FirstChunks(file, ts, k, Overwrite(m, Frame(file, ts, k)))
         /\ \A a \in 0 .. MEM - 1 : a < file.at => Overwrite(m, Frame(file, ts, k))[a] = m[a]
<1> DEFINE image == Image(file, ts)
           L == Len(image)
           size == ChunkSize(image)
           before == (k - 1) * size
           frame == Frame(file, ts, k)
<1>1. L \in Nat \ {0} /\ size \in Nat \ {0} /\ file.at \in Nat /\ MEM \in Nat
  BY FrameType, KToolAssumption DEF Files
<1>2. before \in Nat /\ k * size = before + size
  BY <1>1, NextMultiple
<1>3. /\ frame.at = before + file.at /\ DOMAIN frame.data = 1 .. size
      /\ \A i \in 1 .. size : frame.data[i] = IF before + i <= L THEN image[before + i] ELSE Zero
  BY DEF Frame, Address, Chunk
<1>4. \A a \in 0 .. MEM - 1 :
        Overwrite(m, frame)[a] =
          IF a - frame.at + 1 \in DOMAIN frame.data THEN frame.data[a - frame.at + 1] ELSE m[a]
  BY DEF Overwrite, Memory
<1>5. \A j \in 1 .. L : j <= before => m[file.at + j - 1] = image[j]
  BY DEF FirstChunks
<1>6. file.at + L <= MEM
  OBVIOUS
<1> HIDE DEF image, L, size, before, frame
<1>7. ASSUME NEW j \in 1 .. L, j <= before + size
      PROVE  Overwrite(m, frame)[file.at + j - 1] = image[j]
  <2>1. file.at + j - 1 \in 0 .. MEM - 1 /\ (file.at + j - 1) - frame.at + 1 = j - before
    BY <1>1, <1>2, <1>3, <1>6
  <2>2. CASE j <= before
    <3>1. j - before \notin 1 .. size
      BY <1>1, <1>2, <2>2
    <3>. QED BY <1>3, <1>4, <1>5, <2>1, <2>2, <3>1
  <2>3. CASE j > before
    <3>1. j - before \in 1 .. size /\ before + (j - before) = j /\ j <= L
      BY <1>1, <1>2, <1>7, <2>3
    <3>2. frame.data[j - before] = image[j]
      BY <1>3, <3>1
    <3>. QED BY <1>3, <1>4, <2>1, <3>1, <3>2
  <2>. QED BY <1>1, <1>2, <2>2, <2>3
<1>8. ASSUME NEW a \in 0 .. MEM - 1, a < file.at
      PROVE  Overwrite(m, frame)[a] = m[a]
  <2>1. a - frame.at + 1 \notin 1 .. size
    BY <1>1, <1>2, <1>3, <1>8
  <2>. QED BY <1>3, <1>4, <2>1
<1>9. \A j \in 1 .. Len(Image(file, ts)) : j <= k * ChunkSize(Image(file, ts)) =>
        Overwrite(m, frame)[file.at + j - 1] = Image(file, ts)[j]
  BY <1>2, <1>7 DEF image, L, size
<1>. QED BY <1>8, <1>9 DEF FirstChunks, frame

(* Before the first chunk there is nothing to say.                         *)
LEMMA NoChunks ==
  ASSUME NEW file \in Files, NEW ts \in BOOLEAN, NEW m
  PROVE  FirstChunks(file, ts, 0, m)
<1>1. ChunkSize(Image(file, ts)) \in Nat /\ Len(Image(file, ts)) \in Nat
  <2>1. 1 \in Nat \ {0}
    OBVIOUS
  <2>. QED BY <2>1, FrameType
<1>. QED BY <1>1 DEF FirstChunks

(* All chunks are the whole file.                                          *)
LEMMA AllChunks ==
  ASSUME NEW file \in Files, tosram \in BOOLEAN, NEW k \in Nat, NEW m,
         k >= TotalChunks(Image(file, tosram)), FirstChunks(file, tosram, k, m)
  PROVE  ReadsBack(file, m)
<1> DEFINE image == Image(file, tosram)
           last == k * ChunkSize(image)
<1>1. Len(image) <= last /\ Len(image) \in Nat /\ last \in Nat
  <2>1. ChunkSize(image) \in Nat /\ Len(image) \in Nat
    <3>1. 1 \in Nat \ {0}
      OBVIOUS
    <3>. QED BY <3>1, FrameType
  <2>2. \A x, y \in Nat : x * y \in Nat
    OBVIOUS
  <2>. QED BY <2>1, <2>2, ChunksSuffice
<1>2. \A j \in 1 .. Len(image) : j <= last => m[file.at + j - 1] = image[j]
  BY DEF FirstChunks
<1> HIDE DEF image, last
<1>3. \A j \in 1 .. Len(image) : m[file.at + j - 1] = image[j]
  BY <1>1, <1>2
<1>. QED BY <1>3 DEF ReadsBack, image

(* Until the first frame is sent, f and n are at the start; then the files *)
(* before the f-th end before its place, and they and the chunks of it that*)
(* are through are what the frames taken for written make of the memory;   *)
(* after the last frame, all files.                                        *)
FilesInv ==
  /\ pc \notin {"send", "exec", "reboot", "exited"} => f = 1
  /\ pc \in {"hello", "baud", "load", "init", "id"} => n = 1
  /\ LaidOut(job.files) =>
       /\ pc = "send" =>
            /\ \A i \in 1 .. f - 1 :
                 /\ End(job.files[i]) <= job.files[f].at
                 /\ ReadsBack(job.files[i], expected)
            /\ FirstChunks(job.files[f], tosram, n - 1, expected)
       /\ pc \in {"exec", "reboot"} \/ (exit = 0 /\ job.mode \in {"flash", "sram"}) =>
            \A i \in 1 .. Len(job.files) : ReadsBack(job.files[i], expected)

(* A method that sends no frame.                                           *)
LEMMA NoFrameSent ==
  ASSUME KToolTypes, BoardInv, FilesInv, UNCHANGED job,
         pc \notin {"send", "exited"},
         \/ /\ pc' = "exited" /\ (exit' = 0 => pc \in {"erase", "read", "exec", "reboot"})
            /\ expected' = expected \/ pc = "erase"
         \/ /\ pc' \notin {"send", "exec", "reboot", "exited"} /\ UNCHANGED <<expected, f, exit>>
            /\ pc \notin {"exec", "reboot"}
            /\ pc' \in {"hello", "baud", "load", "init", "id"} => n' = 1
         \/ pc = "reboot" /\ UNCHANGED <<pc, f, exit, expected>>
         \/ /\ pc \in {"load", "id"} /\ pc' = "send" /\ UNCHANGED <<f, n, exit, expected>>
            /\ job.mode \in {"flash", "sram"}
  PROVE  FilesInv'
<1>1. exit = -1 /\ (pc \in {"erase", "read"} => job.mode = pc)
  BY DEF BoardInv
<1>2. tosram' = tosram /\ (LaidOut(job.files)' <=> LaidOut(job.files))
  BY DEF tosram, LaidOut, End
<1>3. CASE /\ pc' = "exited" /\ (exit' = 0 => pc \in {"erase", "read", "exec", "reboot"})
           /\ expected' = expected \/ pc = "erase"
  <2> SUFFICES ASSUME LaidOut(job.files), exit' = 0, job.mode \in {"flash", "sram"}
               PROVE  \A i \in 1 .. Len(job.files) : ReadsBack(job.files[i], expected)'
    BY <1>2, <1>3 DEF FilesInv
  <2>1. pc \in {"exec", "reboot"} /\ expected' = expected
    BY <1>1, <1>3
  <2>2. \A i \in 1 .. Len(job.files) : ReadsBack(job.files[i], expected)
    BY <2>1 DEF FilesInv
  <2>. QED BY <1>2, <2>1, <2>2 DEF ReadsBack
<1>4. CASE /\ pc' \notin {"send", "exec", "reboot", "exited"} /\ UNCHANGED <<expected, f, exit>>
           /\ pc \notin {"exec", "reboot"}
           /\ pc' \in {"hello", "baud", "load", "init", "id"} => n' = 1
  BY <1>1, <1>4 DEF FilesInv
<1>5. CASE pc = "reboot" /\ UNCHANGED <<pc, f, exit, expected>>
  BY <1>1, <1>2, <1>5 DEF FilesInv, ReadsBack
<1>6. CASE /\ pc \in {"load", "id"} /\ pc' = "send" /\ UNCHANGED <<f, n, exit, expected>>
           /\ job.mode \in {"flash", "sram"}
  <2>1. f' = 1 /\ n' = 1 /\ exit' = -1
    BY <1>1, <1>6 DEF FilesInv
  <2>2. 1 \in 1 .. Len(job.files) /\ job.files[1] \in Files /\ tosram \in BOOLEAN
    BY <1>6, JobTypes DEF KToolTypes, TypeOK, tosram
  <2>3. FirstChunks(job.files[1], tosram, 0, expected)
    BY <2>2, NoChunks
  <2>. QED BY <1>2, <1>6, <2>1, <2>3 DEF FilesInv
<1>. QED BY <1>3, <1>4, <1>5, <1>6

(* A frame that is taken for written, and what follows it.                 *)
LEMMA FrameSent ==
  ASSUME KToolTypes, BoardInv, FilesInv, UNCHANGED job, pc = "send", exit' = -1,
         expected' = Overwrite(expected, TheFrame), Advance
  PROVE  FilesInv'
<1> SUFFICES ASSUME LaidOut(job.files) PROVE FilesInv'
  <2>1. LaidOut(job.files)' => LaidOut(job.files)
    BY DEF LaidOut, End, tosram
  <2>2. pc' \in {"send", "exec", "reboot"}
    BY DEF Advance
  <2>. QED BY <2>1, <2>2 DEF FilesInv
<1> DEFINE files == job.files
           file == job.files[f]
<1>1. /\ f \in 1 .. Len(files) /\ Len(files) \in Nat /\ n \in Nat \ {0} /\ tosram \in BOOLEAN
      /\ \A i \in 1 .. Len(files) : files[i] \in Files
      /\ expected \in Memory /\ MEM \in Nat
  BY JobTypes, TheFrameType, KToolAssumption DEF KToolTypes, TypeOK, tosram
<1>2. tosram' = tosram /\ job' = job
  BY DEF tosram
<1>3. /\ \A i \in 1 .. Len(files) : End(files[i]) <= MEM
      /\ \A i \in 1 .. Len(files) - 1 : End(files[i]) <= files[i + 1].at
      /\ \A i \in 1 .. Len(files) : End(files[i]) = files[i].at + Len(Image(files[i], tosram))
  BY <1>1, JobTypes DEF LaidOut, End, KToolTypes, TypeOK, JobType
<1>4. \A i \in 1 .. Len(files) : files[i].at \in Nat /\ Len(Image(files[i], tosram)) \in Nat \ {0}
  <2>1. 1 \in Nat \ {0}
    OBVIOUS
  <2>. QED BY <1>1, <2>1, FrameType DEF Files
<1>5. /\ \A i \in 1 .. f - 1 : End(files[i]) <= file.at /\ ReadsBack(files[i], expected)
      /\ FirstChunks(file, tosram, n - 1, expected)
  BY DEF FilesInv
<1>6. /\ FirstChunks(file, tosram, n, expected')
      /\ \A a \in 0 .. MEM - 1 : a < file.at => expected'[a] = expected[a]
  <2>1. file \in Files /\ file.at + Len(Image(file, tosram)) <= MEM
    BY <1>1, <1>3
  <2>2. expected' = Overwrite(expected, Frame(file, tosram, n))
    BY DEF TheFrame
  <2>3. n \in Nat \ {0}
    BY <1>1
  <2> HIDE DEF file
  <2>. QED BY <1>1, <1>5, <2>1, <2>2, <2>3, OneChunkMore
<1>7. ASSUME NEW i \in 1 .. f - 1 PROVE ReadsBack(files[i], expected')
  <2> DEFINE image == Image(files[i], tosram)
  <2>1. i \in 1 .. Len(files)
    BY <1>1
  <2>2. files[i].at \in Nat /\ Len(image) \in Nat /\ files[i].at + Len(image) <= file.at
    BY <1>3, <1>4, <1>5, <2>1
  <2>3. file.at \in Nat /\ file.at <= MEM
    <3>1. End(file) <= MEM /\ End(file) = file.at + Len(Image(file, tosram))
      BY <1>1, <1>3
    <3>2. file.at \in Nat /\ Len(Image(file, tosram)) \in Nat
      BY <1>1, <1>4
    <3>. QED BY <1>1, <3>1, <3>2
  <2>4. \A k \in 1 .. Len(image) : expected[files[i].at + k - 1] = image[k]
    BY <1>5 DEF ReadsBack
  <2> HIDE DEF image
  <2>5. ASSUME NEW k \in 1 .. Len(image) PROVE expected'[files[i].at + k - 1] = image[k]
    <3> DEFINE x == files[i].at
               y == file.at
               L == Len(image)
    <3>1. x \in Nat /\ y \in Nat /\ L \in Nat /\ MEM \in Nat /\ k \in 1 .. L /\ x + L <= y /\ y <= MEM
      BY <1>1, <2>2, <2>3
    <3> HIDE DEF x, y, L
    <3>2. x + k - 1 \in 0 .. MEM - 1 /\ x + k - 1 < y
      BY <3>1
    <3>. QED BY <1>6, <2>4, <3>2 DEF x, y, L
  <2>. QED BY <2>5 DEF ReadsBack, image
<1>8. ASSUME n >= TotalChunks(Image(file, tosram)) PROVE ReadsBack(file, expected')
  <2>1. file \in Files /\ n \in Nat
    BY <1>1
  <2> HIDE DEF file
  <2>. QED BY <1>1, <1>6, <1>8, <2>1, AllChunks
<1>9. \A i \in 1 .. Len(files) : ReadsBack(files[i], expected)' <=> ReadsBack(files[i], expected')
  BY <1>2 DEF ReadsBack
<1>10. CASE n' = n + 1 /\ pc' = "send" /\ UNCHANGED f
  <2>1. \A i \in 1 .. f - 1 : End(files[i])' <= file.at' /\ ReadsBack(files[i], expected)'
    BY <1>1, <1>2, <1>5, <1>7, <1>9, <1>10 DEF End
  <2>2. FirstChunks(file, tosram, n - 1, expected)'
    <3>1. n' - 1 = n
      BY <1>1, <1>10
    <3>. QED BY <1>2, <1>6, <1>10, <3>1 DEF FirstChunks
  <2>. QED BY <1>2, <1>10, <2>1, <2>2 DEF FilesInv
<1>11. CASE /\ n >= TotalChunks(Image(file, tosram)) /\ f < Len(files)
            /\ f' = f + 1 /\ n' = 1 /\ pc' = "send"
  <2>1. f' \in 1 .. Len(files) /\ f' - 1 = f
    BY <1>1, <1>11
  <2>2. ASSUME NEW i \in 1 .. f
        PROVE  End(files[i]) <= files[f + 1].at /\ ReadsBack(files[i], expected')
    <3>1. CASE i = f
      BY <1>1, <1>3, <1>8, <1>11, <3>1
    <3>2. CASE i \in 1 .. f - 1
      <4>1. f \in 1 .. Len(files) - 1 /\ i \in 1 .. Len(files) /\ f + 1 \in 1 .. Len(files)
        BY <1>1, <1>11, <3>2
      <4>2. End(files[i]) <= file.at /\ ReadsBack(files[i], expected')
        BY <1>5, <1>7, <3>2
      <4>3. End(file) <= files[f + 1].at
        BY <1>3, <4>1
      <4>4. /\ End(file) = file.at + Len(Image(file, tosram))
            /\ End(files[i]) = files[i].at + Len(Image(files[i], tosram))
        BY <1>3, <4>1
      <4>5. /\ file.at \in Nat /\ files[f + 1].at \in Nat /\ files[i].at \in Nat
            /\ Len(Image(file, tosram)) \in Nat /\ Len(Image(files[i], tosram)) \in Nat
        BY <1>1, <1>4, <4>1
      <4>. QED BY <4>2, <4>3, <4>4, <4>5
    <3>. QED BY <1>1, <2>2, <3>1, <3>2
  <2>3. \A i \in 1 .. f : End(files[i])' <= files[f + 1].at /\ ReadsBack(files[i], expected)'
    <3>1. \A i \in 1 .. Len(files) : End(files[i])' = End(files[i])
      BY <1>2 DEF End
    <3>2. \A i \in 1 .. f : i \in 1 .. Len(files)
      BY <1>1
    <3>. QED BY <1>9, <2>2, <3>1, <3>2
  <2>4. FirstChunks(files[f + 1], tosram, 0, expected')
    BY <1>1, <1>11, <2>1, NoChunks
  <2>5. FirstChunks(file, tosram, n - 1, expected)'
    <3>1. files[f]' = files[f + 1] /\ (n - 1)' = 0 /\ tosram' = tosram
      BY <1>2, <1>11
    <3>2. file' = files[f + 1]
      BY <3>1
    <3>. QED BY <2>4, <3>1, <3>2, Zenon DEF FirstChunks
  <2>. QED BY <1>2, <1>11, <2>1, <2>3, <2>5 DEF FilesInv
<1>12. CASE n >= TotalChunks(Image(file, tosram)) /\ f >= Len(files) /\ pc' \in {"exec", "reboot"}
  <2>1. \A i \in 1 .. Len(files) : i \in 1 .. f - 1 \/ i = f
    BY <1>1, <1>12
  <2>2. \A i \in 1 .. Len(files) : ReadsBack(files[i], expected)'
    BY <1>7, <1>8, <1>9, <1>12, <2>1
  <2>. QED BY <1>2, <1>12, <2>2 DEF FilesInv
<1>13. TotalChunks(Image(file, tosram)) \in Int
  <2> DEFINE L == Len(Image(file, tosram))
             size == ChunkSize(Image(file, tosram))
  <2>1. L \in Nat /\ size \in Nat \ {0}
    <3>1. file \in Files
      BY <1>1
    <3> HIDE DEF file
    <3>. QED BY <1>1, <3>1, FrameType
  <2> HIDE DEF L, size
  <2>2. (L + size - 1) \div size \in Int
    BY <2>1
  <2>. QED BY <2>2 DEF TotalChunks, L, size
<1>14. \/ n' = n + 1 /\ pc' = "send" /\ UNCHANGED f
       \/ /\ n >= TotalChunks(Image(file, tosram)) /\ f < Len(files)
          /\ f' = f + 1 /\ n' = 1 /\ pc' = "send"
       \/ n >= TotalChunks(Image(file, tosram)) /\ f >= Len(files) /\ pc' \in {"exec", "reboot"}
  BY <1>1, <1>13 DEF Advance
<1>. QED BY <1>10, <1>11, <1>12, <1>14

(* Every step keeps FilesInv: one case for each method.                    *)
LEMMA FilesStep == KToolTypes /\ BoardInv /\ FilesInv /\ [Next]_vars => FilesInv'
<1> SUFFICES ASSUME KToolTypes, BoardInv, FilesInv, [Next]_vars PROVE FilesInv'
  OBVIOUS
<1>a. job.mode \in {"flash", "sram", "erase", "read"}
  BY JobTypes DEF KToolTypes, TypeOK
<1>1. CASE OpenPort
  BY <1>1, NoFrameSent DEF OpenPort, Exit, host, ended
<1>2. CASE CheckFile
  BY <1>2, NoFrameSent DEF CheckFile, Exit, ended, hist
<1>3. CASE SetLines
  BY <1>3, NoFrameSent DEF SetLines, ended, hist
<1>4. CASE greeting
  <2>1. pc = "reset" /\ UNCHANGED <<job, f, expected>>
    BY <1>4 DEF greeting
  <2>2. (pc' \in {"install", "reset"} /\ exit' = exit) \/ (pc' = "exited" /\ exit' = 1)
    BY <1>4 DEF greeting, GoTo, Exit, ended
  <2>. QED BY <2>1, <2>2, NoFrameSent
<1>5. CASE install_flash_bootloader
  <2>1. pc = "install" /\ UNCHANGED <<job, f, expected>>
    BY <1>5 DEF install_flash_bootloader
  <2>2. (pc' \in {"install", "boot"} /\ exit' = exit) \/ (pc' = "exited" /\ exit' = 1)
    BY <1>5 DEF install_flash_bootloader, GoTo, Exit, ended
  <2>. QED BY <2>1, <2>2, NoFrameSent
<1>6. CASE boot
  BY <1>6, NoFrameSent DEF boot, ended
<1>7. CASE WriteToClosedPort
  BY <1>7, NoFrameSent DEF WriteToClosedPort, Exit, hist
<1>8. ASSUME NEW op, NEW r, NEW next, Retry(op, r, next)
      PROVE  (pc' = "exited" /\ exit' = 1) \/ (pc' \in {pc, next} /\ exit' = exit)
  BY <1>8 DEF Retry, GoTo, Exit, ended
<1>9. CASE flash_greeting
  <2>1. pc = "hello" /\ UNCHANGED <<job, f, n, expected>> /\ \E r : Retry("NOP", r, AfterGreeting)
    BY <1>9 DEF flash_greeting
  <2>2. AfterGreeting \in {"baud", "load", "init"} /\ n = 1
    BY <2>1 DEF AfterGreeting, FilesInv
  <2>3. (pc' = "exited" /\ exit' = 1) \/ (pc' \in {"hello", "baud", "load", "init"} /\ exit' = exit)
    BY <1>8, <2>1, <2>2
  <2>. QED BY <2>1, <2>2, <2>3, NoFrameSent
<1>10. CASE change_baudrate
  <2>1. pc = "baud" /\ pc' = "hello" /\ UNCHANGED <<job, f, n, expected, exit>> /\ n = 1
    BY <1>10 DEF change_baudrate, ended, FilesInv
  <2>. QED BY <2>1, NoFrameSent
<1>11. CASE LoadToSram
  <2>1. pc = "load" /\ UNCHANGED <<job, f, n, expected>> /\ job.mode = "sram"
    BY <1>11 DEF LoadToSram, host, hist, KToolTypes
  <2>2. (pc' = "exited" /\ exit' = 1) \/ (pc' = "send" /\ exit' = exit)
    BY <1>11 DEF LoadToSram, Exit, ended
  <2>. QED BY <2>1, <2>2, NoFrameSent
<1>12. CASE init_flash
  <2>1. pc = "init" /\ UNCHANGED <<job, f, n, expected>> /\ \E r : Retry("FLASH_INIT", r, "id")
    BY <1>12 DEF init_flash
  <2>2. (pc' = "exited" /\ exit' = 1) \/ (pc' \in {"init", "id"} /\ exit' = exit)
    BY <1>8, <2>1
  <2>3. n = 1
    BY <2>1 DEF FilesInv
  <2>. QED BY <2>1, <2>2, <2>3, NoFrameSent
<1>13. CASE get_flash_id
  <2>1. /\ pc = "id" /\ UNCHANGED <<job, f, n, expected, exit>>
        /\ pc' = IF job.mode = "flash" THEN "send" ELSE job.mode
    BY <1>13 DEF get_flash_id, GoTo, host, ended
  <2>2. job.mode # "sram"
    BY <2>1 DEF KToolTypes
  <2>. QED BY <1>a, <2>1, <2>2, NoFrameSent
<1>14. CASE flash_erase
  BY <1>14, NoFrameSent DEF flash_erase, Exit
<1>15. CASE RefuseRead
  BY <1>15, NoFrameSent DEF RefuseRead, Exit, hist
<1>16. CASE read_flash
  <2>1. pc = "read" /\ UNCHANGED <<job, f, expected>> /\ (pc' = "exited" \/ (pc' = "read" /\ exit' = exit))
    BY <1>16 DEF read_flash, Exit
  <2>. QED BY <2>1, NoFrameSent
<1>17. CASE send_data_to_isp
  <2>1. pc = "send" /\ UNCHANGED job /\ exit = -1
    BY <1>17 DEF send_data_to_isp, BoardInv
  <2>2. \/ Advance /\ expected' = Overwrite(expected, TheFrame) /\ UNCHANGED ended
        \/ pc' = "exited" /\ exit' = 2
        \/ pc' = "send" /\ UNCHANGED <<ended, f, n, expected>>
    BY <1>17 DEF send_data_to_isp, Exit, GoTo
  <2>3. CASE Advance /\ expected' = Overwrite(expected, TheFrame) /\ UNCHANGED ended
    BY <2>1, <2>3, FrameSent DEF ended
  <2>4. CASE pc' = "exited" /\ exit' = 2
    BY <2>4 DEF FilesInv
  <2>5. CASE pc' = "send" /\ UNCHANGED <<ended, f, n, expected>>
    BY <2>1, <2>5 DEF FilesInv, ended, LaidOut, End, ReadsBack, FirstChunks, tosram
  <2>. QED BY <2>2, <2>3, <2>4, <2>5
<1>18. CASE send_to_closed_port
  <2>1. /\ pc = "send" /\ exit = -1 /\ UNCHANGED <<job, f, n, expected>>
        /\ (pc' = "exited" /\ exit' = 2) \/ (pc' = "send" /\ exit' = exit)
    BY <1>18 DEF send_to_closed_port, Exit, ended, hist, BoardInv
  <2>. QED BY <2>1 DEF FilesInv, LaidOut, End, ReadsBack, FirstChunks, tosram
<1>19. CASE start_program
  BY <1>19, NoFrameSent DEF start_program, Exit
<1>20. CASE Rebooted
  BY <1>20, NoFrameSent DEF Rebooted, Exit, hist
<1>21. CASE UNCHANGED vars
  <2>1. UNCHANGED <<job, pc, f, n, exit, expected>>
    BY <1>21 DEF vars, host, ended, hist
  <2>. QED BY <2>1 DEF FilesInv, LaidOut, End, ReadsBack, FirstChunks, tosram
<1>. QED BY <1>1, <1>2, <1>3, <1>4, <1>5, <1>6, <1>7, <1>9, <1>10, <1>11, <1>12, <1>13, <1>14,
            <1>15, <1>16, <1>17, <1>18, <1>19, <1>20, <1>21 DEF Next

(* ktool.py:1196: whatever is lost, exit status 0 means that every file is *)
(* in the memory, whole and at its address, if the files are laid out one  *)
(* behind the other: the padding of none destroys another.                 *)
THEOREM FilesReadBack == Spec => []EveryFileReadsBack
<1>1. Init => KToolTypes /\ LossInv /\ BoardInv
  BY InitTypes DEF Init, LossInv, BoardInv
<1>2. Init => FilesInv
  BY DEF Init, FilesInv
<1>3. KToolTypes /\ LossInv /\ FilesInv => EveryFileReadsBack
  <2> SUFFICES ASSUME KToolTypes, LossInv, FilesInv, exit = 0, job.mode \in {"flash", "sram"},
                      kinds \subseteq Losses, LaidOut(job.files)
               PROVE  \A i \in DOMAIN job.files : ReadsBack(job.files[i], mem)
    BY DEF EveryFileReadsBack
  <2>1. mem = expected
    BY DEF LossInv
  <2>2. DOMAIN job.files = 1 .. Len(job.files)
    BY JobTypes DEF KToolTypes, TypeOK, JobType
  <2>. QED BY <2>1, <2>2 DEF FilesInv
<1>. QED BY <1>1, <1>2, <1>3, TypesStep, LossStep, BoardStep, FilesStep, PTL DEF Spec

-----------------------------------------------------------------------------
(* Sessions of ssh_run.py on a quiet line.                                 *)

(* The reset of a dan board: what counts is the setting that holds the chip*)
(* in reset and the one after it, not what the chip ran before.            *)
IntoRom ==
  \/ script \in {<<Idle, RTS, DTR>>, <<RTS, DTR>>}
  \/ script = <<DTR>> /\ lines = RTS /\ ~devfast
  \/ script = <<>> /\ stage = "rom" /\ ~devfast

IntoApp ==
  \/ script \in {<<Idle, RTS, Idle>>, <<RTS, Idle>>}
  \/ script = <<Idle>> /\ lines = RTS
  \/ script = <<>> /\ stage = "app"

(* The methods that a session of -B dan for a file goes through, and what  *)
(* is true in them as long as the line is quiet.                           *)
Route == {"start", "file", "reset", "install", "boot", "hello", "baud", "init", "id", "send",
          "reboot", "exited"}

Quiet ==
  /\ pc \in Route /\ Board = "dan" /\ mem = expected
  /\ exit = (IF pc = "exited" THEN 0 ELSE -1) /\ ~log
  /\ pc \notin {"start", "reboot", "exited"} => port = "open" /\ rx = <<>>
  /\ pc \in {"start", "file", "reset", "install", "boot", "baud"} => ~hostfast
  /\ pc \in {"start", "file", "reset"} => n = 1 /\ address = 1
  /\ pc = "reset" => IntoRom /\ tries = 0
  /\ pc \in {"install", "boot"} => stage = "rom" /\ ~devfast
  /\ pc = "install" => address = n /\ \A i \in 1 .. n - 1 : sram[i] = i
  /\ pc = "boot" => \A i \in 1 .. LOADER : sram[i] = i
  /\ pc \in {"hello", "baud", "init", "id", "send"} => stage = "isp" /\ devfast = hostfast
  /\ pc = "reboot" => IntoApp
  /\ pc = "exited" => stage = "app"

QuietInv == kinds = {} /\ RightJob => Quiet

(* main() of ssh_run.py comes back to ktool.py only with a new process.    *)
SshInv == phase = "sdcard" => KToolTypes /\ QuietInv

-----------------------------------------------------------------------------
(* A quiet line.                                                           *)

LEMMA DanLines ==
  /\ Probes("dan") = <<"dan">> /\ Len(<<"dan">>) = 1 /\ <<"dan">>[1] = "dan"
  /\ ResetToIsp("dan") = <<Idle, RTS, DTR>>
  /\ ResetToBoot("dan") = <<Idle, RTS, Idle>>
  /\ \A s, l : NextStage("dan", s, l, RTS) = "off"
  /\ \A s : NextStage("dan", s, RTS, DTR) = "rom" /\ NextStage("dan", s, RTS, Idle) = "app"
<1>1. /\ \A s, l : NextStage("dan", s, l, RTS) = "off"
      /\ \A s : NextStage("dan", s, RTS, DTR) = "rom" /\ NextStage("dan", s, RTS, Idle) = "app"
  BY SettingsDiffer DEF NextStage, InReset, IO16Low
<1>2. /\ ResetToIsp("dan") = <<Idle, RTS, DTR>>
      /\ ResetToBoot("dan") = <<Idle, RTS, Idle>>
  BY DEF ResetToIsp, ResetToBoot, reset_to_isp_dan, reset_to_boot_dan
<1>3. Probes("dan") = <<"dan">>
  BY DEF Probes
<1>. QED BY <1>1, <1>2, <1>3

(* A fault leaves its mark.                                                *)
LEMMA NoFault ==
  ASSUME NEW kind, Happens(kind), kinds' = {}
  PROVE  kind = "none" /\ kinds = {}
BY DEF Happens

(* What serves a request answers it, and the answer is all that arrives.   *)
LEMMA QuietAnswer ==
  ASSUME rx = <<>>, NEW op \in Ops, NEW kind, NEW at, NEW r \in Received(op, kind, at), Serves(op),
         NEW rest, Exchange(kind, rest), kinds' = {}
  PROVE  /\ kind = "none" /\ kinds = {} /\ rx' = rest
         /\ r.got = "packet" /\ r.body = Body(op, "OK", at) /\ r.rest = <<>>
         /\ Op(r) = op /\ Ret(r) = "OK" /\ Confirms(op, r) /\ ~Unparsable(r)
<1> DEFINE b == Body(op, "OK", at)
<1>1. kind = "none" /\ kinds = {} /\ rx' = rest
  BY NoFault DEF Exchange
<1>2. b # C0 /\ b[1] = op /\ b[2] = "OK" /\ op # "?"
  BY DEF Body, C0, Ops
<1>3. r = recv_one_return(<<>> \o <<C0, b, C0>>)
  BY <1>1 DEF Received, Answers
<1> HIDE DEF b
<1>4. <<>> \o <<C0, b, C0>> = <<C0, b, C0>>
  OBVIOUS
<1>5. r.got = "packet" /\ r.body = b /\ r.rest = <<>>
  BY <1>2, <1>3, <1>4, WholePacket
<1>6. Op(r) = op /\ Ret(r) = "OK" /\ Confirms(op, r) /\ ~Unparsable(r)
  BY <1>2, <1>5 DEF Op, Ret, Confirms, Unparsable
<1>. QED BY <1>1, <1>5, <1>6 DEF b

(* A line that is quiet after a step was quiet before.                     *)
LEMMA QuietBefore ==
  ASSUME [Next]_vars, kinds' = {}
  PROVE  kinds = {} /\ job' = job
<1>1. CASE UNCHANGED vars
  BY <1>1 DEF vars, hist
<1>2. CASE OpenPort \/ boot \/ change_baudrate
  BY <1>2, NoFault DEF OpenPort, boot, change_baudrate
<1>3. CASE CheckFile \/ SetLines \/ WriteToClosedPort \/ LoadToSram \/ RefuseRead \/ Rebooted
           \/ send_to_closed_port
  BY <1>3 DEF CheckFile, SetLines, WriteToClosedPort, LoadToSram, RefuseRead, Rebooted,
              send_to_closed_port, hist
<1>4. CASE greeting \/ install_flash_bootloader \/ flash_greeting \/ init_flash \/ get_flash_id
  BY <1>4, NoFault DEF greeting, install_flash_bootloader, flash_greeting, init_flash, get_flash_id,
                       Exchange
<1>5. CASE flash_erase \/ read_flash \/ send_data_to_isp \/ start_program
  BY <1>5, NoFault DEF flash_erase, read_flash, send_data_to_isp, start_program, Exchange
<1>. QED BY <1>1, <1>2, <1>3, <1>4, <1>5 DEF Next

-----------------------------------------------------------------------------
(* One session.                                                            *)

LEMMA Resetting ==
  ASSUME KToolTypes, Quiet, RightJob, SetLines
  PROVE  Quiet'
<1>1. /\ pc \in {"reset", "reboot"} /\ script # <<>> /\ lines' = Head(script) /\ script' = Tail(script)
      /\ stage' = NextStage("dan", stage, lines, lines')
      /\ UNCHANGED <<pc, Board, tries, n, address, hostfast, exit, log, port, rx, mem, expected>>
  BY DEF SetLines, RightJob, ended, hist
<1>2. stage' = "off" \/ (stage' = "rom" /\ stage # "rom") => ~devfast'
  BY DEF SetLines
<1>3. ~(stage' = "off" \/ (stage' = "rom" /\ stage # "rom")) => devfast' = devfast
  BY DEF SetLines
<1>4. \A x, y, z : /\ Head(<<x, y, z>>) = x /\ Tail(<<x, y, z>>) = <<y, z>>
                   /\ Head(<<y, z>>) = y /\ Tail(<<y, z>>) = <<z>>
                   /\ Head(<<z>>) = z /\ Tail(<<z>>) = <<>>
  OBVIOUS
<1>5. CASE pc = "reset"
  <2>1. IntoRom'
    <3>1. CASE script = <<Idle, RTS, DTR>>
      BY <1>1, <1>4, <3>1 DEF IntoRom
    <3>2. CASE script = <<RTS, DTR>>
      <4>1. lines' = RTS /\ script' = <<DTR>>
        BY <1>1, <1>4, <3>2
      <4>2. ~devfast'
        BY <1>1, <1>2, <4>1, DanLines
      <4>. QED BY <4>1, <4>2 DEF IntoRom
    <3>3. CASE script = <<DTR>> /\ lines = RTS /\ ~devfast
      <4>1. lines' = DTR /\ script' = <<>>
        BY <1>1, <1>4, <3>3
      <4>2. stage' = "rom"
        BY <1>1, <3>3, <4>1, DanLines
      <4>3. ~devfast'
        BY <1>2, <1>3, <3>3
      <4>. QED BY <4>1, <4>2, <4>3 DEF IntoRom
    <3>. QED BY <1>1, <1>5, <3>1, <3>2, <3>3 DEF Quiet, IntoRom
  <2>. QED BY <1>1, <1>5, <2>1 DEF Quiet
<1>6. CASE pc = "reboot"
  <2>1. IntoApp'
    <3>1. CASE script = <<Idle, RTS, Idle>>
      BY <1>1, <1>4, <3>1 DEF IntoApp
    <3>2. CASE script = <<RTS, Idle>>
      BY <1>1, <1>4, <3>2 DEF IntoApp
    <3>3. CASE script = <<Idle>> /\ lines = RTS
      <4>1. lines' = Idle /\ script' = <<>>
        BY <1>1, <1>4, <3>3
      <4>. QED BY <1>1, <3>3, <4>1, DanLines DEF IntoApp
    <3>. QED BY <1>1, <1>6, <3>1, <3>2, <3>3 DEF Quiet, IntoApp
  <2>. QED BY <1>1, <1>6, <2>1 DEF Quiet
<1>. QED BY <1>1, <1>5, <1>6

LEMMA Greeting ==
  ASSUME KToolTypes, Quiet, RightJob, greeting, kinds' = {}
  PROVE  Quiet'
<1>1. /\ pc = "reset" /\ script = <<>> /\ stage = "rom" /\ ~devfast /\ ~hostfast /\ rx = <<>>
      /\ port = "open" /\ tries = 0 /\ Board = "dan" /\ n = 1 /\ address = 1
  BY DEF greeting, Quiet, IntoRom
<1>2. PICK kind \in Asked : \E r \in Received("GREET", kind, 0) :
        /\ Exchange(kind, r.rest)
        /\ LET probes == Probes(Board)
               again  == Raised(r.got) = "TimeoutError"
           IN  IF r.got = "packet"
               THEN /\ Board' = probes[(tries % Len(probes)) + 1]
                    /\ GoTo("install", r)
                    /\ UNCHANGED <<script, tries>>
               ELSE IF again /\ tries + 1 < MAX_ROUNDS * Len(probes)
               THEN /\ tries' = tries + 1
                    /\ script' = ResetToIsp(probes[(tries' % Len(probes)) + 1])
                    /\ GoTo("reset", r)
                    /\ UNCHANGED Board
               ELSE Exit(1, again) /\ UNCHANGED <<Board, script, tries>>
  BY DEF greeting
<1>3. PICK r \in Received("GREET", kind, 0) :
        /\ Exchange(kind, r.rest)
        /\ r.got = "packet" => Board' = Probes(Board)[(tries % Len(Probes(Board))) + 1] /\ GoTo("install", r)
  BY <1>2
<1>4. Serves("GREET") /\ "GREET" \in Ops
  BY <1>1 DEF Serves, RomOps, Ops, KToolTypes, TypeOK
<1>5. r.got = "packet" /\ r.rest = <<>> /\ rx' = <<>>
  BY <1>1, <1>3, <1>4, QuietAnswer
<1>6. Board' = "dan"
  <2>1. Board' = Probes(Board)[(tries % Len(Probes(Board))) + 1]
    BY <1>3, <1>5
  <2>2. Probes(Board) = <<"dan">> /\ Len(<<"dan">>) = 1 /\ <<"dan">>[1] = "dan"
    BY <1>1, DanLines
  <2>3. (0 % 1) + 1 = 1
    OBVIOUS
  <2>. QED BY <1>1, <2>1, <2>2, <2>3
<1>7. pc' = "install" /\ port' = "open" /\ UNCHANGED ended
  BY <1>1, <1>3, <1>5 DEF GoTo
<1>8. UNCHANGED <<n, address, hostfast, stage, devfast, sram, mem, expected>>
  BY DEF greeting, device
<1>9. \A i \in 1 .. n - 1 : sram[i] = i
  BY <1>1
<1>10. exit = -1 /\ ~log /\ mem = expected
  BY <1>1 DEF Quiet
<1>. QED BY <1>1, <1>5, <1>6, <1>7, <1>8, <1>9, <1>10 DEF Quiet, Route, ended

LEMMA Loading ==
  ASSUME KToolTypes, Quiet, RightJob, install_flash_bootloader, kinds' = {}
  PROVE  Quiet'
<1>1. /\ pc = "install" /\ stage = "rom" /\ ~devfast /\ ~hostfast /\ rx = <<>>
      /\ port = "open" /\ address = n /\ \A i \in 1 .. n - 1 : sram[i] = i
      /\ n \in 1 .. LOADER /\ LOADER \in Nat /\ n \in Nat /\ sram \in [1 .. LOADER -> 0 .. LOADER]
  BY KToolAssumption DEF install_flash_bootloader, Quiet, KToolTypes, TypeOK
<1>2. PICK kind \in Asked : \E r \in Received("MEMORY_WRITE", kind, 0) :
        /\ Exchange(kind, r.rest)
        /\ sram' = IF Obeys("MEMORY_WRITE", kind) /\ address \in 1 .. LOADER
                   THEN [sram EXCEPT ![address] = n] ELSE sram
        /\ IF r.got # "packet" \/ Ret(r) = "?" THEN Exit(1, FALSE) /\ UNCHANGED n
           ELSE IF Ret(r) = "BAD" THEN GoTo("install", r) /\ UNCHANGED n
           ELSE n' = n + 1 /\ GoTo(IF n = LOADER THEN "boot" ELSE "install", r)
  BY DEF install_flash_bootloader
<1>3. PICK r \in Received("MEMORY_WRITE", kind, 0) :
        /\ Exchange(kind, r.rest)
        /\ r.got = "packet" /\ Ret(r) = "OK" =>
             n' = n + 1 /\ GoTo(IF n = LOADER THEN "boot" ELSE "install", r)
  BY <1>2
<1>4. Serves("MEMORY_WRITE") /\ "MEMORY_WRITE" \in Ops
  BY <1>1 DEF Serves, RomOps, Ops, KToolTypes, TypeOK
<1>5. kind = "none" /\ r.got = "packet" /\ Ret(r) = "OK" /\ r.rest = <<>> /\ rx' = <<>>
  BY <1>1, <1>3, <1>4, QuietAnswer
<1>6. /\ n' = n + 1 /\ port' = "open" /\ UNCHANGED ended
      /\ pc' = (IF n = LOADER THEN "boot" ELSE "install")
  BY <1>1, <1>3, <1>5 DEF GoTo
<1>7. sram' = [sram EXCEPT ![n] = n]
  BY <1>1, <1>2, <1>4, <1>5 DEF Obeys
<1>8. \A i \in 1 .. n : sram'[i] = i
  BY <1>1, <1>7
<1>9. address' = n' /\ UNCHANGED <<Board, hostfast, stage, devfast, mem, expected>>
  BY <1>1, <1>6 DEF install_flash_bootloader
<1>10. \A i \in 1 .. n' - 1 : sram'[i] = i
  BY <1>1, <1>6, <1>8
<1>11. pc' = "boot" => \A i \in 1 .. LOADER : sram'[i] = i
  BY <1>6, <1>8
<1>12. exit = -1 /\ ~log /\ mem = expected /\ Board = "dan"
  BY <1>1 DEF Quiet
<1>. QED BY <1>1, <1>5, <1>6, <1>9, <1>10, <1>11, <1>12 DEF Quiet, Route, ended

LEMMA Booting ==
  ASSUME KToolTypes, Quiet, RightJob, boot, kinds' = {}
  PROVE  Quiet'
<1>1. /\ pc = "boot" /\ stage = "rom" /\ ~devfast /\ ~hostfast /\ rx = <<>> /\ port = "open"
      /\ \A i \in 1 .. LOADER : sram[i] = i
  BY DEF boot, Quiet
<1>2. Obeys("MEMORY_BOOT", "none")
  BY <1>1 DEF Obeys, Serves, RomOps, KToolTypes, TypeOK
<1>3. stage' = "isp" /\ rx' = rx
  BY <1>1, <1>2, NoFault DEF boot
<1>4. /\ pc' = "hello"
      /\ UNCHANGED <<Board, hostfast, exit, log, port, devfast, mem, expected>>
  BY DEF boot, ended
<1>5. exit = -1 /\ ~log /\ mem = expected /\ Board = "dan"
  BY <1>1 DEF Quiet
<1>6. devfast' = hostfast'
  BY <1>1, <1>4 DEF KToolTypes, TypeOK
<1>. QED BY <1>1, <1>3, <1>4, <1>5, <1>6 DEF Quiet, Route

(* The methods behind the greeting of the second stage ISP.                *)
LEMMA FlashGreeting ==
  ASSUME KToolTypes, Quiet, RightJob, flash_greeting, kinds' = {}
  PROVE  Quiet'
<1>1. /\ pc = "hello" /\ stage = "isp" /\ devfast = hostfast /\ rx = <<>> /\ port = "open"
      /\ exit = -1 /\ ~log /\ mem = expected /\ Board = "dan"
  BY DEF flash_greeting, Quiet
<1>2. PICK kind \in Asked : \E r \in Received("NOP", kind, 0) : \E k \in 1 .. Len(r.rest) + 1 :
        /\ Exchange(kind, SubSeq(r.rest, IF Confirms("NOP", r) THEN k ELSE 1, Len(r.rest)))
        /\ Retry("NOP", r, AfterGreeting)
  BY DEF flash_greeting
<1>0. PICK r \in Received("NOP", kind, 0) : \E k \in 1 .. Len(r.rest) + 1 :
        /\ Exchange(kind, SubSeq(r.rest, IF Confirms("NOP", r) THEN k ELSE 1, Len(r.rest)))
        /\ Retry("NOP", r, AfterGreeting)
  BY <1>2
<1>3. PICK k \in 1 .. Len(r.rest) + 1 :
        /\ Exchange(kind, SubSeq(r.rest, IF Confirms("NOP", r) THEN k ELSE 1, Len(r.rest)))
        /\ Retry("NOP", r, AfterGreeting)
  BY <1>0
<1>4. Serves("NOP") /\ "NOP" \in Ops
  BY <1>1 DEF Serves, RomOps, Ops
<1> DEFINE rest == SubSeq(r.rest, IF Confirms("NOP", r) THEN k ELSE 1, Len(r.rest))
<1>5. Exchange(kind, rest)
  BY <1>3
<1> HIDE DEF rest
<1>6. r.got = "packet" /\ Confirms("NOP", r) /\ r.rest = <<>> /\ rx' = rest
  BY <1>1, <1>4, <1>5, QuietAnswer
<1>7. rest = <<>>
  <2>1. Len(<<>>) = 0
    OBVIOUS
  <2>2. k \in 1 .. 1 /\ rest = SubSeq(<<>>, k, 0)
    BY <1>6, <2>1 DEF rest
  <2>3. SubSeq(<<>>, 1, 0) = <<>>
    OBVIOUS
  <2>. QED BY <2>2, <2>3
<1>8. pc' = AfterGreeting /\ port' = "open" /\ UNCHANGED ended
  BY <1>1, <1>3, <1>6 DEF Retry, GoTo
<1>9. pc' \in {"baud", "init"} /\ (pc' = "baud" => ~hostfast)
  BY <1>8 DEF AfterGreeting, RightJob
<1>10. UNCHANGED <<Board, hostfast, stage, devfast, mem, expected>>
  BY DEF flash_greeting, device
<1>. QED BY <1>1, <1>6, <1>7, <1>8, <1>9, <1>10 DEF Quiet, Route, ended

LEMMA ChangeBaudrate ==
  ASSUME KToolTypes, Quiet, RightJob, change_baudrate, kinds' = {}
  PROVE  Quiet'
<1>1. /\ pc = "baud" /\ stage = "isp" /\ devfast = hostfast /\ rx = <<>> /\ port = "open"
      /\ exit = -1 /\ ~log /\ mem = expected /\ Board = "dan"
  BY DEF change_baudrate, Quiet
<1>2. Obeys("BAUD", "none")
  BY <1>1 DEF Obeys, Serves, RomOps
<1>3. devfast' = TRUE /\ rx' = rx
  BY <1>2, NoFault DEF change_baudrate
<1>4. pc' = "hello" /\ hostfast' = TRUE /\ UNCHANGED <<Board, exit, log, port, stage, mem, expected>>
  BY DEF change_baudrate, ended
<1>. QED BY <1>1, <1>3, <1>4 DEF Quiet, Route

LEMMA InitFlash ==
  ASSUME KToolTypes, Quiet, RightJob, init_flash, kinds' = {}
  PROVE  Quiet'
<1>1. /\ pc = "init" /\ stage = "isp" /\ devfast = hostfast /\ rx = <<>> /\ port = "open"
      /\ exit = -1 /\ ~log /\ mem = expected /\ Board = "dan"
  BY DEF init_flash, Quiet
<1>0. PICK kind \in Asked : \E r \in Received("FLASH_INIT", kind, 0) :
        Exchange(kind, r.rest) /\ Retry("FLASH_INIT", r, "id")
  BY DEF init_flash
<1>2. PICK r \in Received("FLASH_INIT", kind, 0) : Exchange(kind, r.rest) /\ Retry("FLASH_INIT", r, "id")
  BY <1>0
<1>3. Serves("FLASH_INIT") /\ "FLASH_INIT" \in Ops
  BY <1>1 DEF Serves, RomOps, Ops
<1>4. r.got = "packet" /\ Confirms("FLASH_INIT", r) /\ rx' = <<>>
  BY <1>1, <1>2, <1>3, QuietAnswer
<1>5. pc' = "id" /\ port' = "open" /\ UNCHANGED ended
  BY <1>1, <1>2, <1>4 DEF Retry, GoTo
<1>6. UNCHANGED <<Board, hostfast, stage, devfast, mem, expected>>
  BY DEF init_flash, device
<1>. QED BY <1>1, <1>4, <1>5, <1>6 DEF Quiet, Route, ended

LEMMA GetFlashId ==
  ASSUME KToolTypes, Quiet, RightJob, get_flash_id, kinds' = {}
  PROVE  Quiet'
<1>1. /\ pc = "id" /\ stage = "isp" /\ devfast = hostfast /\ rx = <<>> /\ port = "open"
      /\ exit = -1 /\ ~log /\ mem = expected /\ Board = "dan" /\ job.mode = "flash"
  BY DEF get_flash_id, Quiet, RightJob
<1>0. PICK kind \in Asked : \E r \in Received("FLASH_ID", kind, 0) :
        Exchange(kind, r.rest) /\ GoTo("send", r)
  BY <1>1 DEF get_flash_id
<1>2. PICK r \in Received("FLASH_ID", kind, 0) : Exchange(kind, r.rest) /\ GoTo("send", r)
  BY <1>0
<1>3. Serves("FLASH_ID") /\ "FLASH_ID" \in Ops
  BY <1>1 DEF Serves, RomOps, Ops
<1>4. r.got = "packet" /\ rx' = <<>>
  BY <1>1, <1>2, <1>3, QuietAnswer
<1>5. pc' = "send" /\ port' = "open" /\ UNCHANGED ended
  BY <1>1, <1>2, <1>4 DEF GoTo
<1>6. UNCHANGED <<Board, hostfast, stage, devfast, mem, expected>>
  BY DEF get_flash_id, device, host
<1>. QED BY <1>1, <1>4, <1>5, <1>6 DEF Quiet, Route, ended

LEMMA Sending ==
  ASSUME KToolTypes, Quiet, RightJob, send_data_to_isp, kinds' = {}
  PROVE  Quiet'
<1>1. /\ pc = "send" /\ stage = "isp" /\ devfast = hostfast /\ rx = <<>> /\ port = "open"
      /\ exit = -1 /\ ~log /\ mem = expected /\ Board = "dan" /\ ~tosram
  BY DEF send_data_to_isp, Quiet, RightJob, tosram
<1>2. PICK kind \in Asked : \E r \in Received(SendOp, kind, 0) :
        /\ Exchange(kind, r.rest)
        /\ mem' = IF Obeys(SendOp, kind) THEN Overwrite(mem, TheFrame) ELSE mem
        /\ IF ~Unparsable(r)
           THEN /\ Advance /\ tries' = 0
                /\ expected' = Overwrite(expected, TheFrame)
                /\ UNCHANGED <<port, ended>>
           ELSE /\ tries' = tries + 1
                /\ IF tries' > MAX_RETRY_TIMES THEN Exit(2, TRUE) ELSE GoTo("send", r)
                /\ UNCHANGED <<f, n, script, expected>>
  BY DEF send_data_to_isp
<1>3. PICK r \in Received(SendOp, kind, 0) :
        /\ Exchange(kind, r.rest)
        /\ ~Unparsable(r) => /\ Advance /\ UNCHANGED <<port, ended>>
                             /\ expected' = Overwrite(expected, TheFrame)
  BY <1>2
<1>4. Serves(SendOp) /\ SendOp \in Ops
  BY <1>1 DEF Serves, RomOps, Ops, SendOp
<1>5. kind = "none" /\ ~Unparsable(r) /\ r.rest = <<>> /\ rx' = <<>>
  BY <1>1, <1>3, <1>4, QuietAnswer
<1>6. mem' = expected'
  BY <1>1, <1>2, <1>3, <1>4, <1>5 DEF Obeys
<1>7. pc' = "send" \/ (pc' = "reboot" /\ script' = ResetToBoot("dan"))
  BY <1>1, <1>3, <1>5 DEF Advance
<1>8. pc' = "reboot" => IntoApp'
  BY <1>7, DanLines DEF IntoApp
<1>9. UNCHANGED <<Board, hostfast, stage, devfast>>
  BY DEF send_data_to_isp
<1>. QED BY <1>1, <1>3, <1>5, <1>6, <1>7, <1>8, <1>9 DEF Quiet, Route, ended

LEMMA QuietStep == KToolTypes /\ QuietInv /\ [Next]_vars => QuietInv'
<1> SUFFICES ASSUME KToolTypes, QuietInv, [Next]_vars, kinds' = {}, RightJob' PROVE Quiet'
  BY DEF QuietInv
<1>1. kinds = {} /\ RightJob /\ Quiet
  BY QuietBefore DEF QuietInv, RightJob
<1>2. CASE OpenPort
  <2>1. /\ pc = "start" /\ Board = "dan" /\ mem = expected /\ exit = -1 /\ ~log
        /\ ~hostfast /\ n = 1 /\ address = 1
    BY <1>1, <1>2 DEF OpenPort, Quiet
  <2>2. pc' = "file" /\ port' = "open" /\ rx' = <<>> /\ UNCHANGED ended
    BY <1>2, NoFault DEF OpenPort
  <2>3. UNCHANGED <<Board, hostfast, n, address, mem, expected>>
    BY <1>2 DEF OpenPort, host
  <2>. QED BY <2>1, <2>2, <2>3 DEF Quiet, Route, ended
<1>3. CASE CheckFile
  <2>1. /\ pc = "file" /\ Board = "dan" /\ mem = expected /\ exit = -1 /\ ~log
        /\ ~hostfast /\ n = 1 /\ address = 1 /\ port = "open" /\ rx = <<>>
    BY <1>1, <1>3 DEF CheckFile, Quiet
  <2>2. /\ pc' = "reset" /\ script' = ResetToIsp(Probes(Board)[1]) /\ tries' = 0
        /\ UNCHANGED <<port, ended>>
    BY <1>1, <1>3 DEF CheckFile, RightJob
  <2>3. script' = <<Idle, RTS, DTR>>
    BY <2>1, <2>2, DanLines
  <2>4. IntoRom'
    BY <2>3 DEF IntoRom
  <2>5. UNCHANGED <<Board, hostfast, n, address, rx, mem, expected>>
    BY <1>3 DEF CheckFile, device, hist
  <2>. QED BY <2>1, <2>2, <2>4, <2>5 DEF Quiet, Route, ended
<1>4. CASE SetLines \/ greeting \/ install_flash_bootloader \/ boot
  BY <1>1, <1>4, Resetting, Greeting, Loading, Booting
<1>5. CASE flash_greeting \/ change_baudrate \/ init_flash \/ get_flash_id \/ send_data_to_isp
  BY <1>1, <1>5, FlashGreeting, ChangeBaudrate, InitFlash, GetFlashId, Sending
<1>6. CASE WriteToClosedPort \/ send_to_closed_port
  BY <1>1, <1>6 DEF WriteToClosedPort, send_to_closed_port, Quiet, Route
<1>7. CASE LoadToSram \/ flash_erase \/ RefuseRead \/ read_flash \/ start_program
  BY <1>1, <1>7 DEF LoadToSram, flash_erase, RefuseRead, read_flash, start_program, Quiet, Route
<1>8. CASE Rebooted
  <2>1. pc = "reboot" /\ script = <<>> /\ Board = "dan" /\ mem = expected /\ ~log
    BY <1>1, <1>8 DEF Rebooted, Quiet
  <2>2. stage = "app"
    BY <1>1, <2>1 DEF Quiet, IntoApp
  <2>3. pc' = "exited" /\ exit' = 0 /\ ~log'
    BY <1>8, <2>1 DEF Rebooted, Exit
  <2>4. UNCHANGED <<Board, stage, mem, expected>>
    BY <1>8 DEF Rebooted, host, device, hist
  <2>. QED BY <2>1, <2>2, <2>3, <2>4 DEF Quiet, Route
<1>9. CASE UNCHANGED vars
  BY <1>1, <1>9 DEF Quiet, IntoRom, IntoApp, vars, host, ended, serial, device, hist
<1>. QED BY <1>2, <1>3, <1>4, <1>5, <1>6, <1>7, <1>8, <1>9 DEF Next

-----------------------------------------------------------------------------
(* One session after the other.                                            *)

LEMMA Afresh ==
  ASSUME KToolTypes, NewProcess
  PROVE  KToolTypes' /\ QuietInv'
<1>1. job \in Jobs /\ job' = job /\ LOADER \in Nat \ {0}
  BY KToolAssumption DEF KToolTypes, TypeOK, NewProcess
<1>2. Normal(job.Board) \in Normals
  BY <1>1, JobTypes
<1>3. /\ pc' = "start" /\ Board' = Normal(job.Board)
      /\ script' = <<>> /\ tries' = 0 /\ f' = 1 /\ n' = 1 /\ address' = 1
      /\ hostfast' = FALSE /\ dump' = <<>>
      /\ exit' = -1 /\ log' = FALSE
      /\ kinds' = {} /\ expected' = mem
      /\ UNCHANGED <<job, port, lines, rx, stage, devfast, sram, mem, faults>>
  BY DEF NewProcess, serial, device
<1>4. Normals \subseteq Boards
  BY DEF Normals, Boards
<1>5. <<>> \in Seq(Settings) /\ <<>> \in Seq(Cells)
  OBVIOUS
<1>6. TypeOK'
  <2>1. /\ tries' \in Nat /\ n' \in Nat /\ address' \in Nat \ {0} /\ exit' \in -1 .. 2
        /\ f' \in 1 .. Len(job'.files) \cup {1}
    BY <1>3
  <2>2. /\ script' \in Seq(Settings) /\ dump' \in Seq(Cells)
        /\ hostfast' \in BOOLEAN /\ log' \in BOOLEAN
    BY <1>3, <1>5
  <2>3. Board' \in Boards /\ kinds' \subseteq Faults
    BY <1>2, <1>3, <1>4
  <2>4. /\ lines' \in Settings /\ devfast' \in BOOLEAN /\ port' \in {"open", "closed"}
        /\ rx' \in Seq(Tokens) /\ stage' \in Stages /\ sram' \in [1 .. LOADER -> 0 .. LOADER]
        /\ mem' \in Memory /\ expected' \in Memory /\ faults' \in 0 .. MaxFaults
    BY <1>3 DEF KToolTypes, TypeOK
  <2>. QED BY <1>1, <1>3, <2>1, <2>2, <2>3, <2>4 DEF TypeOK, Memory
<1>7. KToolTypes'
  BY <1>1, <1>2, <1>3, <1>6 DEF KToolTypes
<1>8. RightJob' => Board' = "dan"
  BY <1>3 DEF RightJob, Normal
<1>9. QuietInv'
  BY <1>3, <1>8 DEF QuietInv, Quiet, Route
<1>. QED BY <1>7, <1>9

LEMMA FirstSession == SshInit => SshInv
<1> SUFFICES ASSUME SshInit PROVE KToolTypes /\ QuietInv
  BY DEF SshInv
<1>1. KToolTypes
  BY InitTypes DEF SshInit
<1>2. QuietInv
  BY DEF SshInit, Init, QuietInv, RightJob, Normal, Quiet, Route
<1>. QED BY <1>1, <1>2

LEMMA SshStep == SshInv /\ [SshNext]_<<vars, sshvars>> => SshInv'
<1> SUFFICES ASSUME SshInv, [SshNext]_<<vars, sshvars>>, phase' = "sdcard"
             PROVE  KToolTypes' /\ QuietInv'
  BY DEF SshInv
<1>1. CASE KToolStep
  BY <1>1, TypesStep, QuietStep DEF KToolStep, SshInv
<1>2. CASE EvaluateSession
  <2>1. NewProcess /\ KToolTypes
    BY <1>2 DEF EvaluateSession, Raise, SshInv
  <2>. QED BY <2>1, Afresh
<1>3. CASE StartWriter \/ StartKernel
  BY <1>3 DEF StartWriter, StartKernel, OpenSerial, Raise
<1>4. CASE CallReadline \/ WaitForFinish \/ FlashKernel \/ CaptureLine
  BY <1>4 DEF CallReadline, WaitForFinish, FlashKernel, CaptureLine, Raise
<1>5. CASE ReadByte \/ UNCHANGED <<vars, sshvars>>
  <2>1. UNCHANGED <<vars, phase>>
    BY <1>5 DEF ReadByte, sshvars
  <2>. QED BY <2>1, TypesStep, QuietStep DEF SshInv
<1>. QED BY <1>1, <1>2, <1>3, <1>4, <1>5 DEF SshNext

(* Whatever the sessions before it did to the board and the line, every one*)
(* starts with what a quiet session needs.                                 *)
THEOREM SessionsInductive == SshSpec => []SshInv
<1>. QED BY FirstSession, SshStep, PTL DEF SshSpec

(* Another session is worth it: on a quiet line it succeeds, for every list*)
(* of files, loader and memory.                                            *)
THEOREM RetriesAreWorthIt == SshSpec => []RetryStartsAfresh
<1>1. SshInv => RetryStartsAfresh
  BY DEF SshInv, QuietInv, Quiet, RetryStartsAfresh
<1>. QED BY <1>1, SessionsInductive, PTL

=============================================================================
