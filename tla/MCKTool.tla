------------------------------ MODULE MCKTool -------------------------------
(***************************************************************************)
(* Calls of ktool.py, on the board that -B names or should have named.     *)
(***************************************************************************)
EXTENDS KTool

File(i, at, len, sha, swap) == [id |-> i, at |-> at, len |-> len, sha |-> sha, swap |-> swap]

(* One file in sectors, and one in blocks, wrapped.                        *)
Small == <<File(1, 0, 3, TRUE, FALSE)>>
Large == <<File(1, 4, 5, TRUE, TRUE)>>
(* A package whose first file is padded over the place of the second one.  *)
Package == <<File(1, 0, 6, FALSE, FALSE), File(2, 6, 1, FALSE, TRUE)>>
(* The same the other way round: the padding destroys what was written.    *)
Reversed == <<File(2, 6, 1, FALSE, TRUE), File(1, 0, 6, FALSE, FALSE)>>
Segments == <<File(1, 0, 2, TRUE, FALSE), File(2, 4, 3, TRUE, FALSE)>>

Call(mode, form, b, circuit, fast, files) ==
  [mode |-> mode, form |-> form, found |-> TRUE, Board |-> b, attached |-> circuit,
   fast |-> fast, rdlen |-> 3, files |-> files]

MCJobs ==
  {Call("flash", "bin", "dan", "dan", TRUE, Small),
   Call("flash", "kfpkg", "trainer", "dan", FALSE, Package),
   Call("flash", "kfpkg", "kd233", "kd233", FALSE, Reversed),
   Call("flash", "bin", "bit_mic", "kd233", FALSE, Large),
   Call("flash", "bin", "goD", "goD", FALSE, Small),
   Call("flash", "bin", "none", "dan", FALSE, Small),
   Call("flash", "bin", "none", "kd233", FALSE, Small),
   Call("flash", "bin", "dan", "kd233", FALSE, Small),
   Call("flash", "elf", "dan", "dan", FALSE, Segments),
   Call("sram", "elf", "kd233", "kd233", TRUE, Segments),
   Call("sram", "bin", "dan", "dan", FALSE, Small),
   Call("sram", "kfpkg", "dan", "dan", FALSE, Package),
   Call("erase", "bin", "dan", "dan", TRUE, <<>>),
   Call("read", "bin", "dan", "dan", FALSE, <<>>),
   [Call("read", "bin", "kd233", "kd233", FALSE, <<>>) EXCEPT !.rdlen = 7],
   [Call("read", "bin", "dan", "dan", FALSE, <<>>) EXCEPT !.rdlen = 1],
   [Call("flash", "bin", "dan", "dan", FALSE, Small) EXCEPT !.found = FALSE]}

=============================================================================
