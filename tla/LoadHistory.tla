---------------------------- MODULE LoadHistory -----------------------------
(***************************************************************************)
(* DocumentIngestion with a memory of how its calls followed each other:   *)
(* alone is true as long as no two of them have been under way at the same *)
(* time.                                                                   *)
(***************************************************************************)
EXTENDS DocumentIngestion

VARIABLE alone

HistoryInit == Init /\ alone = TRUE

HistoryNext ==
  /\ Next
  /\ alone' = (alone /\ \E p \in Indexers : \A q \in Indexers \ {p} : call'[q].pc = "idle")

HistorySpec == HistoryInit /\ [][HistoryNext]_<<vars, alone>>

(* When a call returns, what it read can be recalled, and it is chunked and *)
(* indexed once, however often and through whatever entry point it has been *)
(* loaded, and though a load failed between its two commits, as long as no  *)
(* process was killed and no two loads overlapped.                          *)
IngestedOnce == alone /\ crashes = 0 => IngestedIsRecallable /\ NothingTwice
=============================================================================
