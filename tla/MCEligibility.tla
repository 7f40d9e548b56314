---------------------------- MODULE MCEligibility ----------------------------
(***************************************************************************)
(* A group of five elements: secrets 1 and 4, and 2 and 3, share an x      *)
(* coordinate, and 1 + 4 cancel out.  Inputs of every kind, two to a       *)
(* transaction; vouts of more than one byte, so that the order of the      *)
(* serialized outpoints is not that of the vouts.                          *)
(***************************************************************************)
EXTENDS Eligibility

MCSpends ==
    [type : {"p2pkh"}, secret : {1, 4}, size : {33, 65}, malleated : BOOLEAN, annex : {FALSE},
     internal : {"none"}, opcode : {0}]
    \cup [type : {"p2wpkh", "p2sh-p2wpkh"}, secret : {3, 4}, size : {33, 65}, malleated : {FALSE},
          annex : {FALSE}, internal : {"none"}, opcode : {0}]
    \cup [type : {"p2tr-key"}, secret : {1, 3}, size : {33}, malleated : {FALSE}, annex : BOOLEAN,
          internal : {"none"}, opcode : {0}]
    \cup [type : {"p2tr-script"}, secret : {4}, size : {33}, malleated : {FALSE}, annex : BOOLEAN,
          internal : {"NUMS_H", "other"}, opcode : {0}]
    \cup [type : {"bare"}, secret : {0}, size : {33}, malleated : {FALSE}, annex : {FALSE},
          internal : {"none"}, opcode : {81, 82}]
    \cup [type : {"segwit", "p2sh"}, secret : {0}, size : {33}, malleated : {FALSE}, annex : {FALSE},
          internal : {"none"}, opcode : {82}]

MCOutpoints == {<<1, 1>>, <<1, 2>>, <<2, 0>>}

MCOutputForms == {"p2tr", "other"}

=============================================================================
