------------------------------ MODULE InOrder -------------------------------
(***************************************************************************)
(* What ch8b_test_condvar.c and ch8b_sync_sem.c show: the second thread    *)
(* goes on once, and only after the first one has done its work.           *)
(***************************************************************************)
VARIABLES done, resumed

orderVars == <<done, resumed>>

OrderInit == done = FALSE /\ resumed = FALSE

Work   == ~done /\ done' = TRUE /\ UNCHANGED resumed
Resume == done /\ ~resumed /\ resumed' = TRUE /\ UNCHANGED done

OrderNext == Work \/ Resume

OrderSpec == OrderInit /\ [][OrderNext]_orderVars

=============================================================================
