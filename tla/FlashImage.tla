----------------------------- MODULE FlashImage -----------------------------
(***************************************************************************)
(* flash_firmware() of ktool.py: the frames a file is sent in.  Memory is  *)
(* measured in cells; a sector stands for 4096 bytes, a block for 65536 and*)
(* LIMIT for 128 KB.                                                       *)
(***************************************************************************)
EXTENDS Integers, Sequences

CONSTANTS SECTOR, BLOCK, LIMIT

ASSUME LayoutAssumption == {SECTOR, BLOCK, LIMIT} \subseteq Nat \ {0}

(* A file: its number, the address it goes to, its length, whether header  *)
(* and hash go with it, and whether its words are swapped.                 *)
Files == [id : Nat, at : Nat, len : Nat \ {0}, sha : BOOLEAN, swap : BOOLEAN]

(* A cell: the k-th of file id, as it is or with its words swapped.        *)
Cells == Nat \X Nat \X BOOLEAN
Zero  == <<0, 0, FALSE>>
Blank == <<0, 1, FALSE>>   \* after an erase
Old   == <<0, 2, FALSE>>   \* before the session

(* Flag and length before the data, the hash of both behind them; neither  *)
(* in SRAM.                                                                *)
Image(file, tosram) ==
  LET wrapped == file.sha /\ ~tosram
      first   == IF wrapped THEN 0 ELSE 1
      total   == IF wrapped THEN file.len + 2 ELSE file.len
  IN  [i \in 1 .. total |-> <<file.id, first + i - 1, file.swap /\ ~tosram>>]

ChunkSize(image) == IF Len(image) < LIMIT THEN SECTOR ELSE BLOCK

TotalChunks(image) == (Len(image) + ChunkSize(image) - 1) \div ChunkSize(image)

(* Mutant: chunk_size is not scaled by n.                                  *)
AddressUnscaled(file, image, n) == n - 1 + file.at

Address(file, image, n) == (n - 1) * ChunkSize(image) + file.at

(* The n-th chunk, filled with zeros; zeros swap to zeros.                 *)
Chunk(image, n) ==
  LET size == ChunkSize(image)
  IN  [k \in 1 .. size |->
         IF (n - 1) * size + k <= Len(image) THEN image[(n - 1) * size + k] ELSE Zero]

Frame(file, tosram, n) ==
  LET image == Image(file, tosram)
  IN  [at |-> Address(file, image, n), data |-> Chunk(image, n)]

(* What a memory holds after a frame has been written to it.               *)
Overwrite(mem, frame) ==
  [a \in DOMAIN mem |->
     IF a - frame.at + 1 \in DOMAIN frame.data THEN frame.data[a - frame.at + 1] ELSE mem[a]]

=============================================================================
