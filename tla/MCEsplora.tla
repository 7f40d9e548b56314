------------------------------ MODULE MCEsplora ------------------------------
(***************************************************************************)
(* A block tree for the runs of EsploraProvider, with BatchSize 2 in mind: *)
(*                                                                         *)
(*     g -- a1 -- a2 -- a3                                                 *)
(*      \    \                                                             *)
(*       \    b2 -- b3 -- b4                                               *)
(*        d1 -- d2 -- d3                                                   *)
(*                                                                         *)
(* a1 takes two batches, and u2 spends u1's output in the first of them.   *)
(* a2 and b2 are long enough that their last transactions are reached with *)
(* the index a1 leaves behind.  a3 and b4 have no transaction but the      *)
(* coinbase.  d2 mines nearly everything and is reached from a2 by rolling *)
(* back two blocks, or from g.  Its last transactions are those of a1: a   *)
(* sync that strays from a1 to d2 saves them twice.  u8 spends u3's output *)
(* on every branch, u9 one of u1's on one; u7 is not eligible.             *)
(***************************************************************************)
EXTENDS EsploraProvider, TLC

CONSTANTS g, a1, a2, a3, b2, b3, b4, d1, d2, d3, u1, u2, u3, u4, u5, u6, u7, u8, u9

MCBlocks == {g, a1, a2, a3, b2, b3, b4, d1, d2, d3}
MCTxids  == {u1, u2, u3, u4, u5, u6, u7, u8, u9}

MCHeight == (g :> 0 @@ a1 :> 1 @@ a2 :> 2 @@ a3 :> 3 @@ b2 :> 2 @@ b3 :> 3 @@ b4 :> 4
             @@ d1 :> 1 @@ d2 :> 2 @@ d3 :> 3)
MCTime   == (g :> 0 @@ a1 :> 2 @@ a2 :> 3 @@ a3 :> 2 @@ b2 :> 3 @@ b3 :> 1 @@ b4 :> 4
             @@ d1 :> 1 @@ d2 :> 1 @@ d3 :> 2)

MCLineage ==
    ( g  :> {g} @@ a1 :> {g, a1} @@ a2 :> {g, a1, a2} @@ a3 :> {g, a1, a2, a3}
   @@ b2 :> {g, a1, b2} @@ b3 :> {g, a1, b2, b3} @@ b4 :> {g, a1, b2, b3, b4}
   @@ d1 :> {g, d1} @@ d2 :> {g, d1, d2} @@ d3 :> {g, d1, d2, d3} )

MCBlockTxs ==
    ( g  :> << >> @@ a1 :> <<u1, u2, u3>> @@ a2 :> <<u4, u5, u6, u7, u8>> @@ a3 :> << >>
   @@ b2 :> <<u4, u5, u7, u6, u9, u8>> @@ b3 :> << >> @@ b4 :> << >>
   @@ d1 :> << >> @@ d2 :> <<u4, u5, u6, u7, u1, u2, u3, u8>> @@ d3 :> << >> )

MCOutputs == [u \in MCTxids |-> IF u = u7 THEN {} ELSE IF u = u1 THEN {0, 1} ELSE {0}]

MCSpends ==
    ( u2 :> {<<u1, 0>>} @@ u5 :> {<<u4, 0>>} @@ u7 :> {<<u4, 1>>} @@ u8 :> {<<u3, 0>>}
   @@ u9 :> {<<u1, 1>>} @@ [u \in MCTxids |-> {}] )

=============================================================================
