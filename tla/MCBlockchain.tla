---------------------------- MODULE MCBlockchain ----------------------------
(***************************************************************************)
(* Instances of Blockchain for TLC: block trees of a few blocks.           *)
(***************************************************************************)
EXTENDS Blockchain

(* What follows from the tree. *)
MCHeight[b \in Blocks] == IF b = Genesis THEN 0 ELSE MCHeight[Parent[b]] + 1

MCAncestors[b \in Blocks] ==
  IF b = Genesis THEN {b} ELSE MCAncestors[Parent[b]] \cup {b}

MCReplay[b \in Blocks] ==
  IF b = Genesis THEN {} ELSE (MCReplay[Parent[b]] \cup CreatedBy(b)) \ SpentBy(b)

MCReward == [b \in Blocks |-> 5]

-----------------------------------------------------------------------------
(***************************************************************************)
(* Two forks over a common block p2, the checkpoint of the run that has    *)
(* one, and a rival chain from genesis.  The payment "t" is in both forks, *)
(* at different heights, and each goes on to spend its change in another   *)
(* way.                                                                    *)
(*                                                                         *)
(*                      a3 - a4                                            *)
(*        g - p1 - p2 <                                                    *)
(*          \           b3 - b4 - b5                                       *)
(*           q1 - q2                                                       *)
(***************************************************************************)
ForkBlocks == {"g", "p1", "p2", "q1", "q2", "a3", "a4", "b3", "b4", "b5"}
StopBlocks == ForkBlocks \ {"q2"}

ForkParent ==
  [b \in Blocks |->
     CASE b \in {"g", "p1", "q1"} -> "g"
       [] b = "p2" -> "p1" [] b = "q2" -> "q1"
       [] b \in {"a3", "b3"} -> "p2"
       [] b = "a4" -> "a3" [] b = "b4" -> "b3" [] b = "b5" -> "b4"]

(* The rival chain is short and outweighs all others.                        *)
ForkWork ==
  [b \in Blocks |-> Height[b] + IF b \in {"q1", "q2"} THEN 9 ELSE 0]

ForkRank ==
  [b \in Blocks |->
     CASE b = "g"  -> 0 [] b = "p1" -> 1 [] b = "p2" -> 2
       [] b = "a3" -> 6 [] b = "b3" -> 5 [] b = "a4" -> 3 [] b = "b4" -> 4
       [] b = "b5" -> 7 [] b = "q1" -> 8 [] b = "q2" -> 9]

(***************************************************************************)
(* One coinbase per block, with one output, both named after the block;    *)
(* the payments; and three payments no valid block holds here: "w" spends  *)
(* t1 again, "x" pays out more than it takes in, "y" spends an output that *)
(* was never made.                                                         *)
(***************************************************************************)
Payments == {"t", "u", "v", "w", "x", "y"}
ForkTxs == ForkBlocks \cup Payments
ForkOuts == ForkBlocks \cup {"t1", "t2", "u1", "v1", "w1", "x1", "none"}

ForkIns ==
  [tx \in ForkTxs |->
     CASE tx = "t" -> {"p1"}
       [] tx \in {"u", "w"} -> {"t1"}
       [] tx = "v" -> {"t1", "t2"}
       [] tx = "x" -> {"t2"}
       [] tx = "y" -> {"none"}
       [] OTHER -> {}]

ForkCreates ==
  [tx \in ForkTxs |->
     CASE tx = "t" -> {"t1", "t2"} [] tx = "u" -> {"u1"} [] tx = "v" -> {"v1"}
       [] tx = "w" -> {"w1"} [] tx = "x" -> {"x1"}
       [] tx = "y" -> {}
       [] OTHER -> {tx}]

(* Each payment leaves a fee of one, which the coinbase of its block takes.  *)
ForkValue ==
  [o \in ForkOuts |->
     CASE o \in {"t1", "t2"} -> 2 [] o \in {"u1", "w1"} -> 1 [] o = "v1" -> 3
       [] o = "x1" -> 9
       [] o \in {"a3", "a4", "b4", "b5"} -> 6
       [] OTHER -> 5]

(* Every block valid on its parent.                                          *)
ForkTxSeq ==
  [b \in Blocks |->
     CASE b = "g" -> <<>>
       [] b \in {"a3", "b4"} -> <<b, "t">>
       [] b = "a4" -> <<b, "u">>
       [] b = "b5" -> <<b, "v">>
       [] OTHER -> <<b>>]

(* What the theorems about a node that gets valid blocks suppose of them.    *)
ASSUME ForksAreValid ==
  TxSeq = ForkTxSeq /\ Value = ForkValue => BlocksAreValid /\ OncePerChain

(* Blocks the ledger refuses: b5 spends t1 twice, a4 holds the overspending  *)
(* payment, and the coinbase of q1 claims more than the reward.              *)
BadTxSeq ==
  [ForkTxSeq EXCEPT !["a4"] = <<"a4", "x">>, !["b5"] = <<"b5", "u", "w">>]

BadValue == [ForkValue EXCEPT !["q1"] = 7]

(* Only b5 is refused, on its first payment, before it spends anything.      *)
LateTxSeq == [ForkTxSeq EXCEPT !["b5"] = <<"b5", "y">>]

=============================================================================
