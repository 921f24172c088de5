------------------------------ MODULE LinkApp -------------------------------
(***************************************************************************)
(* link_app.py: lists the programs that were built and writes two files    *)
(* from the list, manifest.order for the packer of the file system and     *)
(* link_app.S for the kernel. A run may be interrupted and run again, in   *)
(* the other mode or over other programs.                                  *)
(***************************************************************************)
EXTENDS Integers, SequencesExt, FiniteSetsExt

CONSTANTS
  Names,    (* names of programs, numbered as sorted() orders them         *)
  MaxRuns   (* bound: runs                                                 *)

ASSUME LinkAppAssumption == Names \subseteq Nat /\ IsFiniteSet(Names) /\ MaxRuns \in Nat

VARIABLES
  build,           (* build[f]: "absent", "file" or "dir" in elf_dir       *)
  step,            (* what link_app.py does next; "idle", "done"           *)
  filesystem_mode,
  elf_files,       (* the list                                             *)
  order,           (* what is in manifest.order                            *)
  table,           (* what is in link_app.S: _num_app and the programs     *)
  links,           (* how many runs there were                             *)
  built            (* history: the programs there were when the run began  *)

linkvars == <<build, step, filesystem_mode, elf_files, order, table, links, built>>

Empty == [num |-> 0, apps |-> <<>>]

LinkInit ==
  /\ build = [f \in Names |-> "absent"]
  /\ step = "idle" /\ filesystem_mode = FALSE
  /\ elf_files = <<>> /\ order = <<>> /\ table = Empty
  /\ links = 0 /\ built = {}

Programs == {f \in Names : build[f] = "file"}

(* The build between two runs makes and removes programs.                  *)
Rebuild ==
  /\ step \in {"idle", "done"}
  /\ \E f \in Names, kind \in {"absent", "file", "dir"} :
       build[f] # kind /\ build' = [build EXCEPT ![f] = kind]
  /\ step' = "idle"
  /\ UNCHANGED <<filesystem_mode, elf_files, order, table, links, built>>

(* sorted(): what is in S, each once, in ascending order.                  *)
sorted(S) ==
  CHOOSE s \in [1 .. Cardinality(S) -> S] :
    ToSet(s) = S /\ \A i, j \in DOMAIN s : i < j => s[i] < s[j]

(* Mutant: in the order in which the directory is listed.                  *)
collect_unsorted(listing) ==
  SelectSeq(listing, LAMBDA f : build[f] = "file")

collect_elf_files(listing) == sorted({f \in ToSet(listing) : build[f] = "file"})

(* listdir() gives any order.                                              *)
ListPrograms ==
  /\ step \in {"idle", "done"} /\ links < MaxRuns
  /\ \E listing \in SetToSeqs({f \in Names : build[f] # "absent"}) :
       elf_files' = collect_elf_files(listing)
  /\ filesystem_mode' \in BOOLEAN
  /\ step' = "order" /\ links' = links + 1
  /\ built' = Programs
  /\ UNCHANGED <<build, order, table>>

write_manifest_order ==
  /\ step = "order"
  /\ order' = elf_files
  /\ step' = "table"
  /\ UNCHANGED <<build, filesystem_mode, elf_files, table, links, built>>

generate_stub_link_app ==
  /\ step = "table" /\ filesystem_mode
  /\ table' = Empty
  /\ step' = "done"
  /\ UNCHANGED <<build, filesystem_mode, elf_files, order, links, built>>

generate_link_app ==
  /\ step = "table" /\ ~filesystem_mode
  /\ table' = [num |-> Len(elf_files), apps |-> elf_files]
  /\ step' = "done"
  /\ UNCHANGED <<build, filesystem_mode, elf_files, order, links, built>>

(* Interrupted before a file is opened, or with a part of it written.      *)
Interrupt ==
  /\ step \in {"order", "table"}
  /\ \/ UNCHANGED <<order, table>>
     \/ /\ step = "order" /\ UNCHANGED table
        /\ \E k \in 0 .. Len(elf_files) : order' = SubSeq(elf_files, 1, k)
     \/ /\ step = "table" /\ UNCHANGED order
        /\ \E k \in 0 .. Len(elf_files) :
             table' = [num |-> Len(elf_files), apps |-> SubSeq(elf_files, 1, k)]
  /\ step' = "idle"
  /\ UNCHANGED <<build, filesystem_mode, elf_files, links, built>>

LinkNext ==
  \/ Rebuild \/ ListPrograms \/ write_manifest_order
  \/ generate_stub_link_app \/ generate_link_app \/ Interrupt

LinkSpec == LinkInit /\ [][LinkNext]_linkvars

-----------------------------------------------------------------------------

(* After a run, whatever the runs before it left, both files are about the *)
(* programs that were there, each once, in the order of their names, which *)
(* is not that of listdir(); the kernel's table has them all or, with a    *)
(* file system, none (link_app.py:85-99).                                  *)
TablesAgree ==
  step = "done" =>
    /\ ToSet(order) = built /\ Len(order) = Cardinality(built)
    /\ \A i, j \in DOMAIN order : i < j => order[i] < order[j]
    /\ table = IF filesystem_mode THEN Empty ELSE [num |-> Len(order), apps |-> order]

=============================================================================
