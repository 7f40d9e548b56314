------------------------- MODULE MCSilentBlockCodec -------------------------
(***************************************************************************)
(* Bytes of eight values: counts below 5 take one byte, those below 64     *)
(* three, others five.  Blocks have up to five transactions, so that the   *)
(* number of transactions and those of outputs reach the second class and  *)
(* the latter the third.                                                   *)
(***************************************************************************)
EXTENDS SilentBlockCodec

MCOutputCounts == {1, 4, 5, 64}

=============================================================================
