------------------------------ MODULE Mempool ------------------------------
(***************************************************************************)
(* The pool of unconfirmed payments and its one interesting operation,     *)
(* Add, which three goroutines or thirty may be in at once: quick checks   *)
(* under the read lock, validation against the chain's outputs under no    *)
(* lock at all, the insert under the write lock.                           *)
(*                                                                         *)
(* utxo belongs to the chain (module Miner); Add only reads it.            *)
(***************************************************************************)
EXTENDS Integers, FiniteSets

CONSTANTS
  Txs,       \* payments that pass tx.Validate
  Outs,      \* outputs they spend and create
  Ins,       \* payment -> outputs it spends
  Creates,   \* payment -> outputs it creates
  Adders,    \* goroutines in Add: a reader per peer, an RPC handler per request
  MaxPool,   \* maxMempoolSize
  NoTx

ASSUME PoolAssumption ==
  /\ Ins \in [Txs -> SUBSET Outs]
  /\ Creates \in [Txs -> SUBSET Outs]
  /\ \A tx \in Txs : Ins[tx] # {}
  /\ \A tx, other \in Txs : tx # other => Creates[tx] \cap Creates[other] = {}
  /\ MaxPool \in Nat
  /\ NoTx \notin Txs

VARIABLES
  utxo,      \* unspent outputs
  pool,      \* m.transactions
  aged,      \* those that have been in the pool for mempoolTxTTL
  calls      \* adder -> the payment it is adding and how far it has come

poolVars == <<pool, aged, calls>>

Idle == [tx |-> NoTx, at |-> "idle"]

PoolInit ==
  /\ pool = {} /\ aged = {}
  /\ calls = [a \in Adders |-> Idle]

PoolTypeOK ==
  /\ pool \subseteq Txs
  /\ aged \subseteq pool
  /\ calls \in [Adders -> [tx : Txs \cup {NoTx}, at : {"idle", "validate", "insert"}]]
  /\ \A a \in Adders : calls[a].tx = NoTx <=> calls[a].at = "idle"

(* Add begins: unknown, and the pool has room.                               *)
Submit(a, tx) ==
  /\ calls[a] = Idle
  /\ tx \notin pool
  /\ Cardinality(pool) < MaxPool
  /\ calls' = [calls EXCEPT ![a] = [tx |-> tx, at |-> "validate"]]
  /\ UNCHANGED <<utxo, pool, aged>>

(* ValidateInputsOnly, without the lock.                                     *)
InputsFound(a) ==
  /\ calls[a].at = "validate"
  /\ Ins[calls[a].tx] \subseteq utxo
  /\ calls' = [calls EXCEPT ![a].at = "insert"]
  /\ UNCHANGED <<utxo, pool, aged>>

InputsMissing(a) ==
  /\ calls[a].at = "validate"
  /\ ~(Ins[calls[a].tx] \subseteq utxo)
  /\ calls' = [calls EXCEPT ![a] = Idle]
  /\ UNCHANGED <<utxo, pool, aged>>

(* Mutant: the second check is left out.                                     *)
Insert_NoRecheck(a) ==
  /\ calls[a].at = "insert"
  /\ pool' = (pool \ aged) \cup {calls[a].tx}
  /\ aged' = {}
  /\ calls' = [calls EXCEPT ![a] = Idle]
  /\ UNCHANGED utxo

(***************************************************************************)
(* Under the write lock: evict what has expired, check again, insert.  The *)
(* eviction stands when the insert is refused.                             *)
(***************************************************************************)
Insert(a) ==
  /\ calls[a].at = "insert"
  /\ LET kept == pool \ aged
     IN  pool' = IF Cardinality(kept) < MaxPool THEN kept \cup {calls[a].tx} ELSE kept
  /\ aged' = {}
  /\ calls' = [calls EXCEPT ![a] = Idle]
  /\ UNCHANGED utxo

(* Seventy-two hours pass for a payment.                                     *)
Expire(tx) ==
  /\ tx \in pool \ aged
  /\ aged' = aged \cup {tx}
  /\ UNCHANGED <<utxo, pool, calls>>

(* Mutant: addedAt is not cleared with the payments.                         *)
ClearConfirmed_KeepAges(txs) ==
  /\ pool' = pool \ txs
  /\ UNCHANGED <<aged, calls>>

ClearConfirmed(txs) ==
  /\ pool' = pool \ txs
  /\ aged' = aged \ txs
  /\ UNCHANGED calls

PoolNext ==
  \E a \in Adders :
    \/ InputsFound(a) \/ InputsMissing(a) \/ Insert(a)
    \/ \E tx \in Txs : Submit(a, tx)

(***************************************************************************)
(* However many goroutines pass the first check together, the pool never   *)
(* holds more than its maximum.                                            *)
(***************************************************************************)
PoolBounded == Cardinality(pool) <= MaxPool

=============================================================================
