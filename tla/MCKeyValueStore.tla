--------------------------- MODULE MCKeyValueStore ---------------------------
(***************************************************************************)
(* Three branches, for the runs of KeyValueStore:                          *)
(*                                                                         *)
(*     g -- a1 -- a2 -- a3                                                 *)
(*      \    \                                                             *)
(*       \    b2 -- b3                                                     *)
(*        d1 -- d2                                                         *)
(*                                                                         *)
(* with bytes of three values and two of them to a digest, so that hashes  *)
(* and txids stand side by side, with and without a carry between them,    *)
(* and share first bytes.  Timestamps are not in the order of the heights. *)
(* p2 spends p1's first output, p4 one of p3's in the same block; p5 is    *)
(* not eligible and spends p3's other one.                                 *)
(***************************************************************************)
EXTENDS KeyValueStore

CONSTANTS g, a1, a2, a3, b2, b3, d1, d2, p1, p2, p3, p4, p5

MCBlocks == {g, a1, a2, a3, b2, b3, d1, d2}
MCTxids  == {p1, p2, p3, p4, p5}

MCHeight == (g :> 0 @@ a1 :> 1 @@ a2 :> 2 @@ a3 :> 3 @@ b2 :> 2 @@ b3 :> 3
             @@ d1 :> 1 @@ d2 :> 2)
MCTime   == (g :> 0 @@ a1 :> 3 @@ a2 :> 2 @@ a3 :> 4 @@ b2 :> 3 @@ b3 :> 1
             @@ d1 :> 3 @@ d2 :> 1)

MCLineage ==
    (g :> {g} @@ a1 :> {g, a1} @@ a2 :> {g, a1, a2} @@ a3 :> {g, a1, a2, a3}
     @@ b2 :> {g, a1, b2} @@ b3 :> {g, a1, b2, b3} @@ d1 :> {g, d1} @@ d2 :> {g, d1, d2})

MCBlockTxs ==
    (g :> << >> @@ a1 :> <<p1>> @@ a2 :> <<p2, p3, p4>> @@ a3 :> <<p5>>
     @@ b2 :> <<p3, p5>> @@ b3 :> <<p4, p2>>
     @@ d1 :> <<p3, p1>> @@ d2 :> <<p5, p4>>)

MCOutputs == (p1 :> {0, 2} @@ p2 :> {1} @@ p3 :> {0, 1} @@ p4 :> {0} @@ p5 :> {})

MCSpends ==
    (p1 :> {} @@ p2 :> {<<p1, 0>>} @@ p3 :> {} @@ p4 :> {<<p3, 0>>} @@ p5 :> {<<p3, 1>>})

MCHash ==
    (g :> <<0, 0>> @@ a1 :> <<0, 1>> @@ a2 :> <<0, 2>> @@ a3 :> <<1, 0>>
     @@ b2 :> <<2, 1>> @@ b3 :> <<2, 0>> @@ d1 :> <<1, 2>> @@ d2 :> <<1, 1>>)

MCTxid == (p1 :> <<0, 1>> @@ p2 :> <<0, 2>> @@ p3 :> <<1, 0>> @@ p4 :> <<1, 2>> @@ p5 :> <<2, 0>>)

=============================================================================
