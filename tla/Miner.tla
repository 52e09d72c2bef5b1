------------------------------- MODULE Miner -------------------------------
(***************************************************************************)
(* mineLoop over the mempool and the chain.  The miner reads the tip, the  *)
(* pool and the outputs one after the other, none of it under chainMu, and *)
(* may then hash for minutes; blocks of peers change all three meanwhile.  *)
(*                                                                         *)
(* The chain here is that of module Blockchain with even work per block,   *)
(* reduced to what a miner can tell apart: a block is a hash and a list of *)
(* payments, a block is undone in one step and applied one payment at a    *)
(* time, and nothing stops.  Coinbases are left out: their outputs are not *)
(* spendable for CoinbaseMaturity blocks, and the fees they claim depend   *)
(* on the payments of the block alone.                                     *)
(***************************************************************************)
EXTENDS Mempool, SequencesExt

CONSTANTS
  Hashes,       \* bound: block hashes, as numbers in their order
  Coins,        \* outputs that are spendable from the start
  PeerBodies,   \* the lists of payments in blocks that peers find
  MaxTemplate   \* payments a template takes from the pool

ASSUME MinerAssumption ==
  /\ Hashes \subseteq Nat \ {0}
  /\ Coins \subseteq Outs
  /\ \A tx \in Txs : Creates[tx] \cap Coins = {}
  /\ PeerBodies \subseteq Seq(Txs)
  /\ MaxTemplate \in Nat

VARIABLES
  path,     \* hash -> the chain from genesis through it; <<>> if not found yet
  body,     \* hash -> its payments
  stored,   \* blocks the node holds
  chain,    \* the main chain, as a path
  job,      \* the block the holder of chainMu moves to, the path it has come to
  intact,   \* history: no block has been refused half way yet
  miner     \* where mineLoop stands

chainVars == <<path, body, stored, chain, job, intact>>
vars == <<utxo, poolVars, chainVars, miner>>

NoJob == [block |-> 0, at |-> <<>>, left |-> <<>>, own |-> FALSE]
Resting == [at |-> "idle", prev |-> <<>>, todo |-> {}, txs |-> <<>>, block |-> 0]

Found == {h \in Hashes : path[h] # <<>>}

TypeOK ==
  /\ PoolTypeOK
  /\ utxo \subseteq Outs
  /\ path \in [Hashes -> Seq(Hashes)]
  /\ body \in [Hashes -> Seq(Txs)]
  /\ stored \subseteq Found
  /\ chain \in Seq(Hashes)
  /\ job \in [block : stored \cup {0}, at : Seq(Hashes), left : Seq(Txs), own : BOOLEAN]
  /\ intact \in BOOLEAN
  /\ miner \in [at : {"idle", "pool", "fees", "add", "adding", "clear"},
                prev : Seq(Hashes), todo : SUBSET Txs, txs : Seq(Txs), block : Found \cup {0}]

Init ==
  /\ PoolInit
  /\ utxo = Coins
  /\ path = [h \in Hashes |-> <<>>]
  /\ body = [h \in Hashes |-> <<>>]
  /\ stored = {} /\ chain = <<>>
  /\ job = NoJob /\ intact = TRUE
  /\ miner = Resting

-----------------------------------------------------------------------------
(* Blocks *)

Spent(h)   == UNION {Ins[tx] : tx \in ToSet(body[h])}
Created(h) == UNION {Creates[tx] : tx \in ToSet(body[h])}

(* The outputs after a chain: what was there or created, and is not spent.   *)
Replay(p) == (Coins \cup UNION {Created(h) : h \in ToSet(p)}) \ UNION {Spent(h) : h \in ToSet(p)}

(* Payment after payment, each finds its inputs.                             *)
ValidOn(unspent, txs) ==
  \A i \in 1..Len(txs) :
    LET before == {txs[j] : j \in 1..(i - 1)}
    IN  Ins[txs[i]] \subseteq
          (unspent \cup UNION {Creates[tx] : tx \in before})
            \ UNION {Ins[tx] : tx \in before}

ValidPath(p) == \A i \in 1..Len(p) : ValidOn(Replay(SubSeq(p, 1, i - 1)), body[p[i]])

(* More work, or as much and a lower hash.                                   *)
Preferred(h) ==
  \/ Len(path[h]) > Len(chain)
  \/ Len(path[h]) = Len(chain) /\ h < Last(chain)

-----------------------------------------------------------------------------
(* AddBlock, under chainMu *)

Extends(h) == Front(path[h]) = chain

(* It extends the tip or beats it.                                           *)
BeginAdd(h, own) ==
  /\ job = NoJob
  /\ Extends(h) \/ Preferred(h)
  /\ stored' = stored \cup {h}
  /\ job' = [block |-> h, at |-> chain, left |-> <<>>, own |-> own]
  /\ UNCHANGED <<utxo, chain, intact>>

(* A side block: AddBlock returns nil.                                       *)
StoreOnly(h) ==
  /\ job = NoJob
  /\ ~Extends(h) /\ ~Preferred(h)
  /\ stored' = stored \cup {h}
  /\ UNCHANGED <<utxo, chain, job, intact>>

(* Mutant: the outputs a rolled-back block spent are not restored.           *)
UndoBlock_Spent ==
  /\ job # NoJob /\ ~IsPrefix(job.at, path[job.block])
  /\ utxo' = utxo \ Created(Last(job.at))
  /\ job' = [job EXCEPT !.at = Front(@)]
  /\ UNCHANGED <<poolVars, path, body, stored, chain, intact, miner>>

(* RollbackBlock, from the tip down to the fork.                             *)
UndoBlock ==
  /\ job # NoJob /\ ~IsPrefix(job.at, path[job.block])
  /\ utxo' = (utxo \ Created(Last(job.at))) \cup Spent(Last(job.at))
  /\ job' = [job EXCEPT !.at = Front(@)]
  /\ UNCHANGED <<poolVars, path, body, stored, chain, intact, miner>>

(* The next block of the new branch.                                         *)
BeginBlock ==
  /\ job # NoJob /\ job.left = <<>>
  /\ IsStrictPrefix(job.at, path[job.block])
  /\ LET h == path[job.block][Len(job.at) + 1]
     IN  job' = [job EXCEPT !.at = Append(@, h), !.left = body[h]]
  /\ UNCHANGED <<utxo, poolVars, path, body, stored, chain, intact, miner>>

ApplyTx ==
  /\ job.left # <<>>
  /\ LET tx == Head(job.left)
     IN  /\ Ins[tx] \subseteq utxo
         /\ utxo' = (utxo \ Ins[tx]) \cup Creates[tx]
  /\ job' = [job EXCEPT !.left = Tail(@)]
  /\ UNCHANGED <<poolVars, path, body, stored, chain, intact, miner>>

(* ProcessBlock refuses the payment; what was written stays.                 *)
RefuseTx ==
  /\ job.left # <<>>
  /\ ~(Ins[Head(job.left)] \subseteq utxo)
  /\ job' = NoJob /\ intact' = FALSE
  /\ miner' = IF job.own THEN Resting ELSE miner
  /\ UNCHANGED <<utxo, poolVars, path, body, stored, chain>>

EndAdd ==
  /\ job # NoJob /\ job.left = <<>> /\ job.at = path[job.block]
  /\ chain' = job.at
  /\ job' = NoJob
  /\ miner' = IF job.own THEN [miner EXCEPT !.at = "clear"] ELSE miner
  /\ UNCHANGED <<utxo, poolVars, path, body, stored, intact>>

(***************************************************************************)
(* A peer finds a block, on any valid chain of blocks the node holds, and  *)
(* the node adds it.  Its payments are not cleared from the pool.          *)
(***************************************************************************)
PeerBlock(h) ==
  /\ h \notin Found
  /\ \E p \in {<<>>} \cup {path[g] : g \in stored}, txs \in PeerBodies :
       /\ ValidPath(p) /\ ValidOn(Replay(p), txs)
       /\ path' = [path EXCEPT ![h] = Append(p, h)]
       /\ body' = [body EXCEPT ![h] = txs]
  /\ UNCHANGED <<utxo, poolVars, stored, chain, job, intact, miner>>

AddPeerBlock(h) ==
  /\ h \in Found \ stored
  /\ h # miner.block
  /\ BeginAdd(h, FALSE) \/ StoreOnly(h)
  /\ UNCHANGED <<poolVars, path, body, miner>>

-----------------------------------------------------------------------------
(* mineLoop *)

(* GetLastBlock.                                                             *)
TakeTip ==
  /\ miner = Resting
  /\ miner' = [Resting EXCEPT !.at = "pool", !.prev = chain]
  /\ UNCHANGED <<utxo, poolVars, chainVars>>

(* GetAll, in the order of a Go map, cut to the size of a template.          *)
TakePool ==
  /\ miner.at = "pool"
  /\ \E txs \in SUBSET pool :
       /\ \/ txs = pool /\ Cardinality(pool) <= MaxTemplate
          \/ Cardinality(txs) = MaxTemplate
       /\ miner' = [miner EXCEPT !.at = "fees", !.todo = txs]
  /\ UNCHANGED <<utxo, poolVars, chainVars>>

(* Mutant: a payment whose inputs are spent is kept.                         *)
CheckFee_KeepSpent ==
  /\ miner.at = "fees"
  /\ \E tx \in miner.todo :
       miner' = [miner EXCEPT !.todo = @ \ {tx}, !.txs = Append(@, tx)]
  /\ UNCHANGED <<utxo, poolVars, chainVars>>

(* CalculateFee, payment by payment, against the outputs as they are now.    *)
CheckFee ==
  /\ miner.at = "fees"
  /\ \E tx \in miner.todo :
       miner' = [miner EXCEPT !.todo = @ \ {tx},
                              !.txs = IF Ins[tx] \subseteq utxo THEN Append(@, tx) ELSE @]
  /\ UNCHANGED <<utxo, poolVars, chainVars>>

(* NewBlock on the tip read at first; MineBlock finds a hash.                *)
MineBlock(h) ==
  /\ miner.at = "fees" /\ miner.todo = {}
  /\ h \notin Found
  /\ path' = [path EXCEPT ![h] = Append(miner.prev, h)]
  /\ body' = [body EXCEPT ![h] = miner.txs]
  /\ miner' = [miner EXCEPT !.at = "add", !.block = h]
  /\ UNCHANGED <<utxo, poolVars, stored, chain, job, intact>>

AddOwn ==
  /\ miner.at = "add"
  /\ \/ BeginAdd(miner.block, TRUE) /\ miner' = [miner EXCEPT !.at = "adding"]
     \/ StoreOnly(miner.block) /\ miner' = [miner EXCEPT !.at = "clear"]
  /\ UNCHANGED <<poolVars, path, body>>

(* AddBlock returned nil.                                                    *)
ClearOwn ==
  /\ miner.at = "clear"
  /\ ClearConfirmed(ToSet(miner.txs))
  /\ miner' = Resting
  /\ UNCHANGED <<utxo, chainVars>>

-----------------------------------------------------------------------------

Next ==
  \/ PoolNext /\ UNCHANGED <<chainVars, miner>>
  \/ \E tx \in Txs : Expire(tx) /\ UNCHANGED <<chainVars, miner>>
  \/ \E h \in Hashes : PeerBlock(h) \/ AddPeerBlock(h) \/ MineBlock(h)
  \/ UndoBlock \/ BeginBlock \/ ApplyTx \/ RefuseTx \/ EndAdd
  \/ TakeTip \/ TakePool \/ CheckFee \/ AddOwn \/ ClearOwn

Spec == Init /\ [][Next]_vars

-----------------------------------------------------------------------------
(* Properties *)

Refused == job.left # <<>> /\ ~(Ins[Head(job.left)] \subseteq utxo)

(* No payment spends what another creates.                                   *)
Unchained == \A tx, other \in Txs : Ins[tx] \cap Creates[other] = {}

(* No two payments spend one output.                                         *)
Unconflicting == \A tx, other \in Txs : tx # other => Ins[tx] \cap Ins[other] = {}

(***************************************************************************)
(* Where payments do not conflict, a block is refused only if the tip      *)
(* moved between GetLastBlock and AddBlock and the block then won a        *)
(* reorganisation.  The tip only ever improves, so a block that still      *)
(* extends it was checked against the outputs of that tip, although some   *)
(* reorganisation may have been under way when each of the two was read.   *)
(* After a first refusal the outputs are those of no chain.                *)
(***************************************************************************)
ExtensionApplies ==
  intact /\ job # NoJob /\ Extends(job.block) => ~Refused

(***************************************************************************)
(* Until a block is refused half way, the outputs are those of the main    *)
(* chain whenever the lock is free.                                        *)
(***************************************************************************)
OutputsMatchChain == job = NoJob /\ intact => utxo = Replay(chain)

=============================================================================
