------------------------------ MODULE MCSshRun ------------------------------
(***************************************************************************)
(* The command line of ssh_run.py: -b 3000000 -B dan img.kfpkg.            *)
(***************************************************************************)
EXTENDS SshRun

CardImage == <<[id |-> 1, at |-> 0, len |-> 2, sha |-> TRUE, swap |-> FALSE]>>

MCJobs ==
  {[mode |-> "flash", form |-> "kfpkg", found |-> TRUE, Board |-> "dan", attached |-> "dan",
    fast |-> TRUE, rdlen |-> 0, files |-> CardImage]}

=============================================================================
