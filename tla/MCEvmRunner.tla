----------------------------- MODULE MCEvmRunner -----------------------------
(***************************************************************************)
(* Values of EvmRunner's constants for the runs.                           *)
(***************************************************************************)
EXTENDS EvmRunner

CONSTANTS create, bid, mint, approval, other

MCSourceOf == [l \in Logs |-> IF l \in {mint, approval, other} THEN 2 ELSE 1]
FromFirst == [s \in Sources |-> 1]
Staggered == [s \in Sources |-> s]

(* The market emits create before bid; a reorg can change the rest.        *)
MCHistories ==
  {<<create, bid, mint>>, <<mint, create, bid>>, <<create, mint, bid>>}

(* The decoders skip approval and reject other.                            *)
WithOther ==
  {<<create, other, bid>>, <<other, create, bid>>,
   <<create, bid, mint, approval>>}
=============================================================================
