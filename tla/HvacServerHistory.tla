------------------------- MODULE HvacServerHistory --------------------------
(***************************************************************************)
(* HvacServer with one history variable.  QueueDrained does not hold: a    *)
(* signal sent while the mover is not in pthread_cond_wait is lost.  This  *)
(* module states what pthread_cond_signal does achieve, which takes a      *)
(* variable that remembers where the mover was when a path was pushed.     *)
(***************************************************************************)
EXTENDS HvacServer

VARIABLE owed   \* a path was pushed during pthread_cond_wait and is still queued

historyVars == <<vars, owed>>

\* pthread_cond_wait was called and has not given data_mutex back to the mover.
InCondWait == mover \in {"wait", "woken"}

PathQueued == Len(data_queue') > Len(data_queue)

HistoryInit == Init /\ owed = FALSE

HistoryNext ==
    /\ Next
    /\ owed' = (data_queue' # <<>> /\ (owed \/ (InCondWait /\ PathQueued)))

HistorySpec == HistoryInit /\ [][HistoryNext]_historyVars /\ Fairness

\* A path that a close pushes while the mover is in pthread_cond_wait is taken by
\* the mover without any further close, and with it the whole queue: the paths
\* whose own signal came too early are made good by the next close that finds the
\* mover waiting (the signal of hvac_close_rpc_handler, the drain loop of
\* hvac_data_mover_fn).
SignalDrainsQueue == owed ~> (~owed \/ ~Up)
=============================================================================
