-------------------------- MODULE MCTradeSettlement --------------------------
(***************************************************************************)
(* An instance of TradeSettlement for TLC.                                 *)
(***************************************************************************)
EXTENDS TradeSettlement

CONSTANTS ann, ben, t1, t2, a1, a2

\* One investor is selected twice and has two wallets.
Selections == [i \in Investors |-> IF i = ann THEN 2 ELSE 1]
=============================================================================
