----------------------------- MODULE MCEndpoints -----------------------------
(***************************************************************************)
(* Two branches, for the runs of Endpoints:                                *)
(*                                                                         *)
(*     g -- a1 -- a2 -- a3                                                 *)
(*           \                                                             *)
(*            b2 -- b3                                                     *)
(*                                                                         *)
(* q2 is mined in a2 or b3 and spends q1's first output; q3 is mined in a3 *)
(* or b2.  Every route is asked for heights, hashes, txids and times that  *)
(* the rollback changes, for some that are refused, with and without       *)
(* filterSpent; the times also at both ends of what a key holds.           *)
(***************************************************************************)
EXTENDS Endpoints, TLC

CONSTANTS g, a1, a2, a3, b2, b3, q1, q2, q3

MCBlocks == {g, a1, a2, a3, b2, b3}
MCTxids  == {q1, q2, q3}

MCHeight == (g :> 0 @@ a1 :> 1 @@ a2 :> 2 @@ a3 :> 3 @@ b2 :> 2 @@ b3 :> 3)
MCTime   == (g :> 0 @@ a1 :> 3 @@ a2 :> 2 @@ a3 :> 4 @@ b2 :> 3 @@ b3 :> 5)

MCLineage ==
    (g :> {g} @@ a1 :> {g, a1} @@ a2 :> {g, a1, a2} @@ a3 :> {g, a1, a2, a3}
     @@ b2 :> {g, a1, b2} @@ b3 :> {g, a1, b2, b3})

MCBlockTxs ==
    (g :> << >> @@ a1 :> <<q1>> @@ a2 :> <<q2>> @@ a3 :> <<q3>> @@ b2 :> <<q3>> @@ b3 :> <<q2>>)

MCOutputs == (q1 :> {0, 2} @@ q2 :> {1} @@ q3 :> {0})

MCSpends == (q1 :> {} @@ q2 :> {<<q1, 0>>} @@ q3 :> {})

MCUrls ==
    {Url("height", 1, 0, "absent"), Url("height", 1, 0, "true"), Url("height", 2, 0, "other"),
     Url("height", 3, 0, "false"), Url("height", -1, 0, "absent"),
     Url("silent height", 2, 0, "absent"),
     Url("range", 2, 3, "false"), Url("range", 1, 2, "true"), Url("range", 0, 3, "absent"),
     Url("range", 3, 2, "absent"), Url("hash", a2, 0, "absent"), Url("hash", b2, 0, "true"),
     Url("silent hash", b3, 0, "false"), Url("txid", q2, 0, "false"), Url("txid", q1, 0, "true"),
     Url("timestamp", 2, 0, "absent"), Url("timestamp", 4, 0, "absent"),
     Url("timestamp", -1, 0, "absent"), Url("timestamp", -2, 0, "absent"),
     Url("timestamp", 25, 0, "absent"),
     Url("latest", 0, 0, "absent")}

=============================================================================
