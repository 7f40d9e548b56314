-------------------------- MODULE MCTransactionGroup --------------------------
(***************************************************************************)
(* Two transactions, each asked for at most twice, and three syncs, so     *)
(* that a sync meets the requests of two that failed before it.            *)
(***************************************************************************)
EXTENDS TransactionGroup

CONSTANTS t1, t2, s1, s2, s3

MCTxs == {t1, t2}
MCSyncs == {s1, s2, s3}

=============================================================================
