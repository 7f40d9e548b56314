------------------------------ MODULE ChainView ------------------------------
(***************************************************************************)
(* What an indexer promises its clients: a view of one branch of the block *)
(* tree that grows by a child of its last block or loses its last block,   *)
(* and, at every height of the view, the eligible transactions of the      *)
(* view's block and no others.  The promise is void once the node has left *)
(* a branch it was being read from.                                        *)
(***************************************************************************)
EXTENDS Ledger

VARIABLES
    view,   \* the last block of the branch in view; NoBlock before the start
    served, \* served[h]: the transactions served for height h
    strayed \* has the node left a branch while it was being read from?

IsParent(p, b) == p \in Lineage[b] /\ Height[b] = Height[p] + 1

Init ==
    /\ view = NoBlock
    /\ served = [h \in Heights |-> {}]
    /\ strayed = FALSE

\* The base block is in view from the start, its transactions are not served.
Begin ==
    /\ view = NoBlock
    /\ view' = BaseBlock
    /\ UNCHANGED served

Extend(b) ==
    /\ view # NoBlock
    /\ IsParent(view, b)
    /\ view' = b
    /\ served' = [served EXCEPT ![Height[b]] = Eligible(TxsOf(b))]

Rollback(p) ==
    /\ view # NoBlock
    /\ IsParent(p, view)
    /\ view' = p
    /\ served' = [served EXCEPT ![Height[view]] = {}]

Next ==
    \/ /\ UNCHANGED strayed
       /\ Begin \/ \E b \in Blocks : Extend(b) \/ Rollback(b)
    \/ strayed'

Spec == Init /\ [][Next]_<<view, served, strayed>>

=============================================================================
