------------------------------ MODULE MCMiner ------------------------------
(***************************************************************************)
(* Instances of Miner: payments "a" and "e" spend a coin each, and "b"     *)
(* spends what "a" pays.                                                   *)
(***************************************************************************)
EXTENDS Miner

PaymentOuts == {"c1", "c2", "a1", "b1", "e1"}
MCCoins == {"c1", "c2"}

MCIns ==
  [tx \in Txs |-> CASE tx = "a" -> {"c1"} [] tx = "e" -> {"c2"} [] tx = "b" -> {"a1"}]

MCCreates ==
  [tx \in Txs |-> CASE tx = "a" -> {"a1"} [] tx = "b" -> {"b1"} [] tx = "e" -> {"e1"}]

ASSUME PaymentsAreIndependent == Unchained /\ Unconflicting

SomeBodies == {<<>>, <<"a">>, <<"e", "a">>}

=============================================================================
