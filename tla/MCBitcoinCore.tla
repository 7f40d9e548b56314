---------------------------- MODULE MCBitcoinCore ----------------------------
(***************************************************************************)
(* A block tree with two forks, for the runs of BitcoinCoreProvider:       *)
(*                                                                         *)
(*     g -- a1 -- a2 -- a3                                                 *)
(*           \      \                                                      *)
(*            \      c3 -- c4 -- c5                                        *)
(*             b2 -- b3 -- b4                                              *)
(*                                                                         *)
(* so that a node that moves from a3 to b4 to c5 brings a rolled back block *)
(* back.  t0 is mined in the base block, so never indexed.  t2 spends t1's *)
(* first output, in a2 on one branch and in b3 on the other.  t3 spends    *)
(* t2's output and is not eligible; branch b never mines it.  t4 is mined  *)
(* in b2 or in c4, t5 and t6 in b4 or in c5: t6 spends an output t5        *)
(* creates in the same block.  Timestamps do not follow the heights.       *)
(***************************************************************************)
EXTENDS BitcoinCoreProvider, TLC

CONSTANTS g, a1, a2, a3, b2, b3, b4, c3, c4, c5, t0, t1, t2, t3, t4, t5, t6

MCBlocks == {g, a1, a2, a3, b2, b3, b4, c3, c4, c5}
MCTxids  == {t0, t1, t2, t3, t4, t5, t6}

MCHeight ==
    ( g  :> 0 @@ a1 :> 1 @@ a2 :> 2 @@ a3 :> 3 @@ b2 :> 2 @@ b3 :> 3 @@ b4 :> 4
   @@ c3 :> 3 @@ c4 :> 4 @@ c5 :> 5 )

MCTime ==
    ( g  :> 0 @@ a1 :> 3 @@ a2 :> 2 @@ a3 :> 4 @@ b2 :> 3 @@ b3 :> 3 @@ b4 :> 5
   @@ c3 :> 4 @@ c4 :> 4 @@ c5 :> 3 )

MCParent ==
    ( a1 :> g @@ a2 :> a1 @@ a3 :> a2 @@ b2 :> a1 @@ b3 :> b2 @@ b4 :> b3
   @@ c3 :> a2 @@ c4 :> c3 @@ c5 :> c4 )

RECURSIVE Path(_)
Path(b) == {b} \cup (IF b = g THEN {} ELSE Path(MCParent[b]))

MCLineage == [b \in MCBlocks |-> Path(b)]

MCBlockTxs ==
    ( g  :> <<t0>> @@ a1 :> <<t1>> @@ a2 :> <<t2>> @@ a3 :> <<t3>>
   @@ b2 :> <<t4>> @@ b3 :> <<t2>> @@ b4 :> <<t5, t6>>
   @@ c3 :> <<t3>> @@ c4 :> <<t4>> @@ c5 :> <<t5, t6>> )

MCOutputs ==
    ( t0 :> {0} @@ t1 :> {0, 2} @@ t2 :> {0} @@ t3 :> {} @@ t4 :> {1}
   @@ t5 :> {0, 1} @@ t6 :> {0} )

MCSpends ==
    ( t0 :> {} @@ t1 :> {<<t0, 0>>} @@ t2 :> {<<t1, 0>>} @@ t3 :> {<<t2, 0>>}
   @@ t4 :> {<<t1, 2>>} @@ t5 :> {<<t4, 1>>, <<t0, 1>>} @@ t6 :> {<<t5, 1>>} )

=============================================================================
