------------------------------- MODULE Ledger -------------------------------
(***************************************************************************)
(* What a block does to the set of unspent outputs: the transactions of    *)
(* each block, the outputs they spend and create, and the checks           *)
(* ProcessBlock makes.                                                     *)
(*                                                                         *)
(* An output is one "utxo:<txid>:<index>" key.  An input whose signature   *)
(* or public key is wrong takes the same error path as one whose output is *)
(* missing, and is represented by naming an output nobody creates.         *)
(***************************************************************************)
EXTENDS BlockTree, Sequences, SequencesExt, FiniteSetsExt

CONSTANTS
  Txs, Outs,
  TxSeq,        \* block -> b.Transactions, the coinbase first
  Ins,          \* tx -> outputs it spends; {} for a coinbase
  Creates,      \* tx -> outputs it creates
  Value,        \* output -> amount
  Reward,       \* block -> the block reward at its height
  Maturity,     \* CoinbaseMaturity
  Replay        \* block -> unspent outputs after genesis .. block, in order

ASSUME LedgerAssumption ==
  /\ TxSeq \in [Blocks -> Seq(Txs)]
  /\ Ins \in [Txs -> SUBSET Outs]
  /\ Creates \in [Txs -> SUBSET Outs]
  /\ Value \in [Outs -> Nat]
  /\ Reward \in [Blocks -> Nat]
  /\ Maturity \in Nat
  \* Genesis has no transactions; of the others AddBlock lets through only
  \* those whose first transaction, and no other, is a coinbase.
  /\ TxSeq[Genesis] = <<>>
  /\ \A b \in Blocks \ {Genesis} :
       /\ TxSeq[b] # <<>>
       /\ \A i \in 1..Len(TxSeq[b]) : Ins[TxSeq[b][i]] = {} <=> i = 1

IsCoinbase(tx) == Ins[tx] = {}

Amount(outputs) == MapThenSumSet(LAMBDA o : Value[o], outputs)

(***************************************************************************)
(* ProcessBlock skips the coinbase in its loop and applies it last.        *)
(***************************************************************************)
ProcessOrder(b) == Append(Tail(TxSeq[b]), Head(TxSeq[b]))

(***************************************************************************)
(* A coinbase output carries the height of the block that made it.         *)
(***************************************************************************)
Mature(o, height) ==
  \A b \in Blocks, tx \in Txs :
    (tx \in ToSet(TxSeq[b]) /\ IsCoinbase(tx) /\ o \in Creates[tx])
      => height >= Height[b] + Maturity

(***************************************************************************)
(* ValidateAndSpendInputs checks every input before it spends one.  A      *)
(* transaction is checked against the set its predecessors in the block    *)
(* left, so it may spend what they created.                                *)
(***************************************************************************)
InputsValid(tx, height, unspent) ==
  Ins[tx] \subseteq unspent /\ \A o \in Ins[tx] : Mature(o, height)

(***************************************************************************)
(* The check that outputs do not exceed inputs comes after the inputs have *)
(* been spent.                                                             *)
(***************************************************************************)
Overspends(tx) == ~IsCoinbase(tx) /\ Amount(Creates[tx]) > Amount(Ins[tx])

Fees(b) ==
  MapThenSumSet(LAMBDA tx : Amount(Ins[tx]) - Amount(Creates[tx]),
                {tx \in ToSet(TxSeq[b]) : ~IsCoinbase(tx)})

Overclaims(tx, b) == Amount(Creates[tx]) > Reward[b] + Fees(b)

(***************************************************************************)
(* The undo record of a block that was processed to the end: SpentUTXOs    *)
(* and CreatedRefs collect the inputs and outputs of all its transactions. *)
(***************************************************************************)
SpentBy(b)   == UNION {Ins[tx] : tx \in ToSet(TxSeq[b])}
CreatedBy(b) == UNION {Creates[tx] : tx \in ToSet(TxSeq[b])}

(***************************************************************************)
(* The reference the chain's UTXO set is held against: block after block   *)
(* from genesis, which has no transactions.                                *)
(***************************************************************************)
ASSUME ReplayAssumption ==
  /\ Replay[Genesis] = {}
  /\ \A b \in Blocks \ {Genesis} :
       Replay[b] = (Replay[Parent[b]] \cup CreatedBy(b)) \ SpentBy(b)

-----------------------------------------------------------------------------
(***************************************************************************)
(* A block that ProcessBlock accepts on top of its parent, whichever way   *)
(* the node came there, and that RollbackBlock takes back: its payments    *)
(* spend what the parent left, no output twice, and it creates new ones.   *)
(* (One that spends an output of its own is accepted too, but its rollback *)
(* would bring that output back.)                                          *)
(***************************************************************************)
Valid(b) ==
  /\ SpentBy(b) \subseteq Replay[Parent[b]]
  /\ CreatedBy(b) \cap Replay[Parent[b]] = {}
  /\ \A i, j \in DOMAIN TxSeq[b] :
       i # j => Ins[TxSeq[b][i]] \cap Ins[TxSeq[b][j]] = {}
  /\ \A tx \in ToSet(TxSeq[b]) :
       IF IsCoinbase(tx)
         THEN ~Overclaims(tx, b)
         ELSE ~Overspends(tx) /\ \A o \in Ins[tx] : Mature(o, Height[b])

BlocksAreValid == \A b \in Blocks \ {Genesis} : Valid(b)

(***************************************************************************)
(* No chain holds one transaction twice.  An id hashes inputs, outputs and *)
(* a timestamp in seconds: a payment cannot be repeated, since its inputs  *)
(* are spent, and two coinbases of one miner on one chain are at least the *)
(* minimum gap between blocks apart.                                       *)
(***************************************************************************)
OncePerChain ==
  \A b \in Blocks : \A a, c \in Ancestors[b] :
    a # c => ToSet(TxSeq[a]) \cap ToSet(TxSeq[c]) = {}

=============================================================================
