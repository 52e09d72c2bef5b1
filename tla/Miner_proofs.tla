---------------------------- MODULE Miner_proofs ----------------------------
(***************************************************************************)
(* The pool, the chain and the miner between them, for every number of     *)
(* goroutines in Add, of payments and of blocks: the bound of the pool,    *)
(* the types, the outputs, and that what extends the tip applies.          *)
(***************************************************************************)
EXTENDS Miner, FiniteSetTheorems, SequenceTheorems, TLAPS

PoolInv == IsFiniteSet(pool) /\ PoolBounded

LEMMA InitPool == Init => PoolInv
  BY FS_EmptySet, PoolAssumption DEF Init, PoolInit, PoolInv, PoolBounded

(* Part of a bounded pool is bounded.                                        *)
LEMMA SmallerPool ==
  ASSUME PoolInv, pool' \subseteq pool
  PROVE  PoolInv'
  <1>1. IsFiniteSet(pool') /\ Cardinality(pool') <= Cardinality(pool)
    BY FS_Subset DEF PoolInv
  <1>2. Cardinality(pool) \in Nat /\ Cardinality(pool') \in Nat
    BY <1>1, FS_CardinalityType DEF PoolInv
  <1> QED
    BY <1>1, <1>2, PoolAssumption DEF PoolInv, PoolBounded

(* The check that counts is the one under the write lock: Insert never looks *)
(* at what Submit saw.                                                       *)
LEMMA InsertKeepsBound ==
  ASSUME PoolInv, NEW a, Insert(a)
  PROVE  PoolInv'
  <1> DEFINE kept == pool \ aged
  <1>1. IsFiniteSet(kept) /\ Cardinality(kept) <= Cardinality(pool)
    BY FS_Subset DEF PoolInv
  <1>2. Cardinality(pool) \in Nat /\ Cardinality(kept) \in Nat
    BY <1>1, FS_CardinalityType DEF PoolInv
  <1>3. CASE Cardinality(kept) < MaxPool
    <2>1. pool' = kept \cup {calls[a].tx}
      BY <1>3 DEF Insert
    <2>2. IsFiniteSet(pool') /\ Cardinality(pool') <= Cardinality(kept) + 1
      BY <1>1, <1>2, <2>1, FS_AddElement
    <2>3. Cardinality(pool') \in Nat
      BY <2>2, FS_CardinalityType
    <2> QED
      BY <1>2, <1>3, <2>2, <2>3, PoolAssumption DEF PoolInv, PoolBounded
  <1>4. CASE ~(Cardinality(kept) < MaxPool)
    <2>1. pool' = kept
      BY <1>4 DEF Insert
    <2> QED
      BY <2>1, SmallerPool
  <1> QED
    BY <1>3, <1>4

LEMMA NextPool == PoolInv /\ [Next]_vars => PoolInv'
  <1> SUFFICES ASSUME PoolInv, [Next]_vars PROVE PoolInv'
    OBVIOUS
  <1>1. ASSUME NEW a \in Adders, Insert(a) PROVE PoolInv'
    BY <1>1, InsertKeepsBound
  <1>2. CASE UNCHANGED pool
    BY <1>2, SmallerPool
  <1>3. CASE ClearOwn
    BY <1>3, SmallerPool DEF ClearOwn, ClearConfirmed
  <1>4. ASSUME Next, ~ClearOwn, \A a \in Adders : ~Insert(a) PROVE UNCHANGED pool
    <2>1. ASSUME PoolNext PROVE UNCHANGED pool
      BY <1>4, <2>1 DEF PoolNext, InputsFound, InputsMissing, Submit
    <2>2. ASSUME NEW tx \in Txs, Expire(tx) PROVE UNCHANGED pool
      BY <2>2 DEF Expire
    <2>3. ASSUME NEW h \in Hashes, PeerBlock(h) \/ AddPeerBlock(h) \/ MineBlock(h)
          PROVE  UNCHANGED pool
      BY <2>3 DEF PeerBlock, AddPeerBlock, MineBlock, poolVars
    <2>4. ASSUME UndoBlock \/ BeginBlock \/ ApplyTx \/ RefuseTx \/ EndAdd PROVE UNCHANGED pool
      BY <2>4 DEF UndoBlock, BeginBlock, ApplyTx, RefuseTx, EndAdd, poolVars
    <2>5. ASSUME TakeTip \/ TakePool \/ CheckFee \/ AddOwn PROVE UNCHANGED pool
      BY <2>5 DEF TakeTip, TakePool, CheckFee, AddOwn, poolVars
    <2> QED
      BY <1>4, <2>1, <2>2, <2>3, <2>4, <2>5 DEF Next
  <1>5. UNCHANGED vars => UNCHANGED pool
    BY DEF vars, poolVars
  <1> QED
    BY <1>1, <1>2, <1>3, <1>4, <1>5

(***************************************************************************)
(* Add's two size checks with an unlocked validation between them hold the *)
(* pool to its maximum, however many goroutines are between them.          *)
(***************************************************************************)
THEOREM PoolStaysBounded == Spec => []PoolBounded
  <1>1. PoolInv => PoolBounded
    BY DEF PoolInv
  <1> QED
    BY InitPool, NextPool, <1>1, PTL DEF Spec

-----------------------------------------------------------------------------
(* Types.  The holder of chainMu works for a block the node has stored, and  *)
(* what the miner adds has been found.                                       *)

Steps == {"idle", "pool", "fees", "add", "adding", "clear"}

ChainTypeOK ==
  /\ utxo \subseteq Outs
  /\ path \in [Hashes -> Seq(Hashes)] /\ body \in [Hashes -> Seq(Txs)]
  /\ stored \subseteq Found /\ chain \in Seq(Hashes) /\ intact \in BOOLEAN

JobTypeOK ==
  /\ job \in [block : stored \cup {0}, at : Seq(Hashes), left : Seq(Txs), own : BOOLEAN]
  /\ job # NoJob => job.block \in stored

MinerTypeOK ==
  /\ miner \in [at : Steps, prev : Seq(Hashes), todo : SUBSET Txs, txs : Seq(Txs),
                block : Found \cup {0}]
  /\ miner.at = "add" => miner.block \in Found

TypeInv == PoolTypeOK /\ ChainTypeOK /\ JobTypeOK /\ MinerTypeOK

LEMMA InitTypes == Init => TypeInv
  <1> SUFFICES ASSUME Init PROVE TypeInv
    OBVIOUS
  <1>1. PoolTypeOK
    BY PoolAssumption DEF Init, PoolInit, PoolTypeOK, Idle
  <1>2. ChainTypeOK
    BY MinerAssumption DEF Init, ChainTypeOK, Found
  <1>3. JobTypeOK
    BY DEF Init, JobTypeOK, NoJob
  <1>4. MinerTypeOK
    BY DEF Init, MinerTypeOK, Resting, Steps
  <1> QED  BY <1>1, <1>2, <1>3, <1>4 DEF TypeInv

(* The pool's steps.                                                         *)
LEMMA PoolTypes ==
  ASSUME PoolTypeOK, PoolNext \/ \E tx \in Txs : Expire(tx)
  PROVE  PoolTypeOK'
  <1>1. ASSUME NEW a \in Adders, NEW tx \in Txs, Submit(a, tx) PROVE PoolTypeOK'
    BY <1>1, PoolAssumption DEF Submit, PoolTypeOK
  <1>2. ASSUME NEW a \in Adders, InputsFound(a) PROVE PoolTypeOK'
    BY <1>2 DEF InputsFound, PoolTypeOK
  <1>3. ASSUME NEW a \in Adders, InputsMissing(a) PROVE PoolTypeOK'
    BY <1>3 DEF InputsMissing, PoolTypeOK, Idle
  <1>4. ASSUME NEW a \in Adders, Insert(a) PROVE PoolTypeOK'
    <2>1. calls[a].tx \in Txs  BY <1>4 DEF Insert, PoolTypeOK
    <2>2. pool' \subseteq Txs /\ aged' = {}  BY <1>4, <2>1 DEF Insert, PoolTypeOK
    <2>3. calls' = [calls EXCEPT ![a] = Idle]  BY <1>4 DEF Insert
    <2> QED  BY <2>2, <2>3 DEF PoolTypeOK, Idle
  <1>5. ASSUME NEW tx \in Txs, Expire(tx) PROVE PoolTypeOK'
    BY <1>5 DEF Expire, PoolTypeOK
  <1> QED  BY <1>1, <1>2, <1>3, <1>4, <1>5 DEF PoolNext

(* A block is found: nothing found before is lost.                           *)
LEMMA FoundGrows ==
  ASSUME TypeInv, NEW h \in Hashes, NEW p \in Seq(Hashes), NEW txs \in Seq(Txs), h \notin Found,
         path' = [path EXCEPT ![h] = Append(p, h)], body' = [body EXCEPT ![h] = txs]
  PROVE  /\ path' \in [Hashes -> Seq(Hashes)] /\ body' \in [Hashes -> Seq(Txs)]
         /\ path'[h] = Append(p, h) /\ body'[h] = txs
         /\ \A g \in Found : path'[g] = path[g] /\ body'[g] = body[g]
         /\ Found' = Found \cup {h}
  <1>1. path \in [Hashes -> Seq(Hashes)] /\ body \in [Hashes -> Seq(Txs)]
    BY DEF TypeInv, ChainTypeOK
  <1>2. Append(p, h) \in Seq(Hashes) /\ Append(p, h) # <<>>
    <2>1. PICK u : u = Append(p, h)  OBVIOUS
    <2>2. u \in Seq(Hashes) /\ Len(u) = Len(p) + 1 /\ Len(p) \in Nat  BY <2>1
    <2>3. Len(u) # 0  BY <2>2
    <2>4. u # <<>>  BY <2>3
    <2> QED  BY <2>1, <2>2, <2>4
  <1>3. /\ path' \in [Hashes -> Seq(Hashes)] /\ body' \in [Hashes -> Seq(Txs)]
        /\ path'[h] = Append(p, h) /\ body'[h] = txs
        /\ \A g \in Hashes : g # h => path'[g] = path[g] /\ body'[g] = body[g]
    BY <1>1, <1>2
  <1>4. Found' = Found \cup {h}  BY <1>2, <1>3 DEF Found
  <1>5. \A g \in Found : g \in Hashes /\ g # h  BY DEF Found
  <1> QED  BY <1>3, <1>4, <1>5

(* A peer's block.                                                           *)
LEMMA PeerTypes ==
  ASSUME TypeInv, NEW h \in Hashes, PeerBlock(h)
  PROVE  TypeInv'
  <1>1. PICK p \in {<<>>} \cup {path[g] : g \in stored}, txs \in PeerBodies :
          /\ path' = [path EXCEPT ![h] = Append(p, h)]
          /\ body' = [body EXCEPT ![h] = txs]
    BY DEF PeerBlock
  <1>2. p \in Seq(Hashes)
    <2>1. path \in [Hashes -> Seq(Hashes)] /\ stored \subseteq Hashes
      BY DEF TypeInv, ChainTypeOK, Found
    <2>2. <<>> \in Seq(Hashes)  OBVIOUS
    <2> QED  BY <2>1, <2>2
  <1>3. txs \in Seq(Txs)  BY MinerAssumption
  <1>4. h \notin Found /\ UNCHANGED <<utxo, poolVars, stored, chain, job, intact, miner>>
    BY DEF PeerBlock
  <1>5. path' \in [Hashes -> Seq(Hashes)] /\ body' \in [Hashes -> Seq(Txs)] /\ Found' = Found \cup {h}
    BY <1>1, <1>2, <1>3, <1>4, FoundGrows
  <1>6. ChainTypeOK'  BY <1>4, <1>5 DEF TypeInv, ChainTypeOK
  <1>7. MinerTypeOK'  BY <1>4, <1>5 DEF TypeInv, MinerTypeOK
  <1>8. PoolTypeOK' /\ JobTypeOK'
    BY <1>4 DEF TypeInv, PoolTypeOK, poolVars, JobTypeOK
  <1> QED  BY <1>6, <1>7, <1>8 DEF TypeInv

(* The miner's block.                                                        *)
LEMMA MineTypes ==
  ASSUME TypeInv, NEW h \in Hashes, MineBlock(h)
  PROVE  TypeInv'
  <1>1. /\ h \notin Found /\ path' = [path EXCEPT ![h] = Append(miner.prev, h)]
        /\ body' = [body EXCEPT ![h] = miner.txs]
        /\ miner' = [miner EXCEPT !.at = "add", !.block = h]
        /\ UNCHANGED <<utxo, poolVars, stored, chain, job, intact>>
    BY DEF MineBlock
  <1>2. miner.prev \in Seq(Hashes) /\ miner.txs \in Seq(Txs)
    BY DEF TypeInv, MinerTypeOK
  <1>3. PICK p, txs : p = miner.prev /\ txs = miner.txs  OBVIOUS
  <1>4. path' \in [Hashes -> Seq(Hashes)] /\ body' \in [Hashes -> Seq(Txs)] /\ Found' = Found \cup {h}
    BY <1>1, <1>2, <1>3, FoundGrows
  <1>5. ChainTypeOK'  BY <1>1, <1>4 DEF TypeInv, ChainTypeOK
  <1>6. MinerTypeOK'  BY <1>1, <1>4 DEF TypeInv, MinerTypeOK, Steps
  <1>7. PoolTypeOK' /\ JobTypeOK'
    BY <1>1 DEF TypeInv, PoolTypeOK, poolVars, JobTypeOK
  <1> QED  BY <1>5, <1>6, <1>7 DEF TypeInv

(* A block is added.                                                         *)
LEMMA AddTypes ==
  ASSUME TypeInv, NEW h \in Found, NEW own \in BOOLEAN, BeginAdd(h, own) \/ StoreOnly(h),
         UNCHANGED <<poolVars, path, body>>
  PROVE  PoolTypeOK' /\ ChainTypeOK' /\ JobTypeOK' /\ Found' = Found
  <1>1. Found' = Found  BY DEF Found
  <1>2. utxo' = utxo /\ chain' = chain /\ intact' = intact /\ stored' = stored \cup {h}
    BY DEF BeginAdd, StoreOnly
  <1>3. PoolTypeOK'  BY DEF TypeInv, PoolTypeOK, poolVars
  <1>4. ChainTypeOK'  BY <1>1, <1>2 DEF TypeInv, ChainTypeOK
  <1>5. CASE BeginAdd(h, own)
    <2>1. job' = [block |-> h, at |-> chain, left |-> <<>>, own |-> own]  BY <1>5 DEF BeginAdd
    <2>2. chain \in Seq(Hashes) /\ <<>> \in Seq(Txs)  BY DEF TypeInv, ChainTypeOK
    <2> QED  BY <1>1, <1>2, <1>3, <1>4, <2>1, <2>2 DEF JobTypeOK
  <1>6. CASE StoreOnly(h)
    <2>1. job' = job  BY <1>6 DEF StoreOnly
    <2>2. JobTypeOK'  BY <1>2, <2>1 DEF TypeInv, JobTypeOK
    <2> QED  BY <1>1, <1>3, <1>4, <2>2
  <1> QED  BY <1>5, <1>6

(* The outputs a block spends and creates.                                   *)
LEMMA SpentTypes ==
  ASSUME ChainTypeOK, NEW h \in Hashes
  PROVE  Spent(h) \subseteq Outs /\ Created(h) \subseteq Outs
  <1>1. ToSet(body[h]) \subseteq Txs  BY DEF ChainTypeOK, ToSet
  <1> QED  BY <1>1, PoolAssumption DEF Spent, Created

(* Undoing and applying.                                                     *)
LEMMA JobTypes ==
  ASSUME TypeInv, UndoBlock \/ BeginBlock \/ ApplyTx \/ RefuseTx \/ EndAdd
  PROVE  PoolTypeOK' /\ ChainTypeOK' /\ JobTypeOK'
  <1>1. PoolTypeOK /\ ChainTypeOK /\ JobTypeOK  BY DEF TypeInv
  <1>2. UNCHANGED <<poolVars, path, body, stored>> /\ Found' = Found
    BY DEF UndoBlock, BeginBlock, ApplyTx, RefuseTx, EndAdd, Found
  <1>3. PoolTypeOK'  BY <1>1, <1>2 DEF PoolTypeOK, poolVars
  <1>4. CASE UndoBlock
    <2>1. PICK at, h : at = job.at /\ h = Last(job.at)  OBVIOUS
    <2>2. /\ job # NoJob /\ ~IsPrefix(at, path[job.block])
          /\ utxo' = (utxo \ Created(h)) \cup Spent(h)
          /\ job' = [job EXCEPT !.at = Front(at)]
          /\ UNCHANGED <<chain, intact>>
      BY <1>4, <2>1 DEF UndoBlock
    <2>3. at \in Seq(Hashes) /\ job.block \in stored /\ job.block \in Hashes
      BY <1>1, <2>1, <2>2 DEF JobTypeOK, ChainTypeOK, Found
    <2>4. at # <<>>
      <3>1. PICK q : q = path[job.block]  OBVIOUS
      <3>2. q \in Seq(Hashes)  BY <1>1, <2>3, <3>1 DEF ChainTypeOK
      <3>3. IsPrefix(<<>>, q)  BY <3>2 DEF IsPrefix
      <3> QED  BY <2>2, <3>1, <3>3
    <2>5. h \in Hashes /\ Front(at) \in Seq(Hashes)
      BY <2>1, <2>3, <2>4 DEF Last, Front
    <2>6. ChainTypeOK'
      BY <1>1, <1>2, <2>2, <2>5, SpentTypes DEF ChainTypeOK
    <2>7. job' \in [block : stored \cup {0}, at : Seq(Hashes), left : Seq(Txs), own : BOOLEAN]
          /\ job'.block = job.block
      BY <1>1, <2>2, <2>5 DEF JobTypeOK
    <2>8. JobTypeOK'  BY <1>2, <2>3, <2>7 DEF JobTypeOK
    <2> QED  BY <1>3, <2>6, <2>8
  <1>5. CASE BeginBlock
    <2>1. PICK at, q, h : at = job.at /\ q = path[job.block] /\ h = path[job.block][Len(job.at) + 1]
      OBVIOUS
    <2>2. /\ job # NoJob /\ IsStrictPrefix(at, q)
          /\ job' = [job EXCEPT !.at = Append(@, h), !.left = body[h]]
          /\ UNCHANGED <<utxo, chain, intact>>
      BY <1>5, <2>1 DEF BeginBlock
    <2>3. at \in Seq(Hashes) /\ job.block \in stored /\ q \in Seq(Hashes)
      BY <1>1, <2>1, <2>2 DEF JobTypeOK, ChainTypeOK, Found
    <2>4. h \in Hashes
      <3>1. Len(at) <= Len(q) /\ SubSeq(at, 1, Len(at)) = SubSeq(q, 1, Len(at)) /\ at # q
        BY <2>2 DEF IsStrictPrefix, IsPrefix
      <3>2. Len(at) # Len(q)  BY <2>3, <3>1
      <3>3. Len(at) + 1 \in 1..Len(q)  BY <2>3, <3>1, <3>2
      <3> QED  BY <2>1, <2>3, <3>3
    <2>5. body[h] \in Seq(Txs)  BY <1>1, <2>4 DEF ChainTypeOK
    <2>6. ChainTypeOK'  BY <1>1, <1>2, <2>2 DEF ChainTypeOK
    <2>7. job' \in [block : stored \cup {0}, at : Seq(Hashes), left : Seq(Txs), own : BOOLEAN]
          /\ job'.block = job.block
      <3>1. PICK at2, left2 : at2 = Append(at, h) /\ left2 = body[h]  OBVIOUS
      <3>2. at2 \in Seq(Hashes) /\ left2 \in Seq(Txs)  BY <2>3, <2>4, <2>5, <3>1
      <3>3. job' = [job EXCEPT !.at = at2, !.left = left2]  BY <2>1, <2>2, <3>1
      <3> QED  BY <1>1, <3>2, <3>3 DEF JobTypeOK
    <2>8. JobTypeOK'  BY <1>2, <2>3, <2>7 DEF JobTypeOK
    <2> QED  BY <1>3, <2>6, <2>8
  <1>6. CASE ApplyTx
    <2>1. PICK left, tx : left = job.left /\ tx = Head(job.left)  OBVIOUS
    <2>2. /\ left # <<>> /\ utxo' = (utxo \ Ins[tx]) \cup Creates[tx]
          /\ job' = [job EXCEPT !.left = Tail(left)]
          /\ UNCHANGED <<chain, intact>>
      BY <1>6, <2>1 DEF ApplyTx
    <2>3. left \in Seq(Txs)  BY <1>1, <2>1 DEF JobTypeOK
    <2>4. tx \in Txs /\ Tail(left) \in Seq(Txs)  BY <2>1, <2>2, <2>3
    <2>5. ChainTypeOK'
      BY <1>1, <1>2, <2>2, <2>4, PoolAssumption DEF ChainTypeOK
    <2>6. job # NoJob  BY <2>1, <2>2 DEF NoJob
    <2>7. job' \in [block : stored \cup {0}, at : Seq(Hashes), left : Seq(Txs), own : BOOLEAN]
          /\ job'.block = job.block
      BY <1>1, <2>2, <2>4 DEF JobTypeOK
    <2>8. JobTypeOK'  BY <1>1, <1>2, <2>6, <2>7 DEF JobTypeOK
    <2> QED  BY <1>3, <2>5, <2>8
  <1>7. CASE RefuseTx \/ EndAdd
    <2>1. job' = NoJob /\ utxo' = utxo /\ intact' \in BOOLEAN /\ chain' \in {chain, job.at}
      BY <1>1, <1>7 DEF RefuseTx, EndAdd, ChainTypeOK
    <2>2. ChainTypeOK'  BY <1>1, <1>2, <2>1 DEF ChainTypeOK, JobTypeOK
    <2>3. JobTypeOK'  BY <2>1 DEF JobTypeOK, NoJob
    <2> QED  BY <1>3, <2>2, <2>3
  <1> QED  BY <1>4, <1>5, <1>6, <1>7

(* Every step keeps the types.                                               *)
LEMMA NextTypes == TypeInv /\ [Next]_vars => TypeInv'
  <1> SUFFICES ASSUME TypeInv, [Next]_vars PROVE TypeInv'
    OBVIOUS
  <1>1. PoolTypeOK /\ ChainTypeOK /\ JobTypeOK /\ MinerTypeOK  BY DEF TypeInv
  <1>2. ASSUME UNCHANGED <<utxo, chainVars>>
        PROVE  ChainTypeOK' /\ JobTypeOK' /\ Found' = Found
    BY <1>1, <1>2 DEF chainVars, ChainTypeOK, JobTypeOK, Found
  <1>3. CASE (PoolNext \/ \E tx \in Txs : Expire(tx)) /\ UNCHANGED <<chainVars, miner>>
    <2>1. UNCHANGED utxo
      BY <1>3 DEF PoolNext, Submit, InputsFound, InputsMissing, Insert, Expire
    <2>2. PoolTypeOK'  BY <1>1, <1>3, PoolTypes
    <2>3. MinerTypeOK'  BY <1>1, <1>2, <1>3, <2>1 DEF MinerTypeOK
    <2> QED  BY <1>2, <1>3, <2>1, <2>2, <2>3 DEF TypeInv
  <1>4. ASSUME NEW h \in Hashes, PeerBlock(h) PROVE TypeInv'
    BY <1>4, PeerTypes
  <1>5. ASSUME NEW h \in Hashes, MineBlock(h) PROVE TypeInv'
    BY <1>5, MineTypes
  <1>6. ASSUME NEW h \in Hashes, AddPeerBlock(h) PROVE TypeInv'
    <2>1. /\ h \in Found /\ UNCHANGED <<poolVars, path, body, miner>>
          /\ BeginAdd(h, FALSE) \/ StoreOnly(h)
      BY <1>6 DEF AddPeerBlock
    <2>2. PoolTypeOK' /\ ChainTypeOK' /\ JobTypeOK' /\ Found' = Found  BY <2>1, AddTypes
    <2>3. MinerTypeOK'  BY <1>1, <2>1, <2>2 DEF MinerTypeOK
    <2> QED  BY <2>2, <2>3 DEF TypeInv
  <1>7. CASE AddOwn
    <2>1. PICK h : h = miner.block  OBVIOUS
    <2>2. /\ miner.at = "add" /\ UNCHANGED <<poolVars, path, body>>
          /\ \/ BeginAdd(h, TRUE) /\ miner' = [miner EXCEPT !.at = "adding"]
             \/ StoreOnly(h) /\ miner' = [miner EXCEPT !.at = "clear"]
      BY <1>7, <2>1 DEF AddOwn
    <2>3. h \in Found  BY <1>1, <2>1, <2>2 DEF MinerTypeOK
    <2>4. BeginAdd(h, TRUE) \/ StoreOnly(h)  BY <2>2
    <2>5. PoolTypeOK' /\ ChainTypeOK' /\ JobTypeOK' /\ Found' = Found  BY <2>2, <2>3, <2>4, AddTypes
    <2>6. MinerTypeOK'  BY <1>1, <2>2, <2>5 DEF MinerTypeOK, Steps
    <2> QED  BY <2>5, <2>6 DEF TypeInv
  <1>8. CASE UndoBlock \/ BeginBlock \/ ApplyTx \/ RefuseTx \/ EndAdd
    <2>1. Found' = Found
      BY <1>8 DEF UndoBlock, BeginBlock, ApplyTx, RefuseTx, EndAdd, Found
    <2>2. miner' \in {miner, Resting, [miner EXCEPT !.at = "clear"]}
      BY <1>8 DEF UndoBlock, BeginBlock, ApplyTx, RefuseTx, EndAdd
    <2>3. MinerTypeOK'
      <3>1. CASE miner' = miner  BY <1>1, <2>1, <3>1 DEF MinerTypeOK
      <3>2. CASE miner' = Resting  BY <3>2 DEF MinerTypeOK, Resting, Steps
      <3>3. CASE miner' = [miner EXCEPT !.at = "clear"]
        BY <1>1, <2>1, <3>3 DEF MinerTypeOK, Steps
      <3> QED  BY <2>2, <3>1, <3>2, <3>3
    <2> QED  BY <1>8, <2>3, JobTypes DEF TypeInv
  <1>9. CASE TakeTip
    <2>1. miner' = [Resting EXCEPT !.at = "pool", !.prev = chain] /\ UNCHANGED <<utxo, poolVars, chainVars>>
      BY <1>9 DEF TakeTip
    <2>2. PoolTypeOK'  BY <1>1, <2>1 DEF PoolTypeOK, poolVars
    <2>3. PICK p \in Seq(Hashes) : p = chain  BY <1>1 DEF ChainTypeOK
    <2>4. miner' = [at |-> "pool", prev |-> p, todo |-> {}, txs |-> <<>>, block |-> 0]
      BY <2>1, <2>3 DEF Resting
    <2>5. MinerTypeOK'  BY <2>4 DEF MinerTypeOK, Steps
    <2> QED  BY <1>2, <2>1, <2>2, <2>5 DEF TypeInv
  <1>10. CASE TakePool
    <2>1. PICK txs \in SUBSET pool : miner' = [miner EXCEPT !.at = "fees", !.todo = txs]
      BY <1>10 DEF TakePool
    <2>2. UNCHANGED <<utxo, poolVars, chainVars>>  BY <1>10 DEF TakePool
    <2>3. PoolTypeOK' /\ txs \subseteq Txs  BY <1>1, <2>2 DEF PoolTypeOK, poolVars
    <2>4. MinerTypeOK'  BY <1>1, <1>2, <2>1, <2>2, <2>3 DEF MinerTypeOK, Steps
    <2> QED  BY <1>2, <2>2, <2>3, <2>4 DEF TypeInv
  <1>11. CASE CheckFee
    <2>1. PICK tx \in miner.todo :
            miner' = [miner EXCEPT !.todo = @ \ {tx},
                                   !.txs = IF Ins[tx] \subseteq utxo THEN Append(@, tx) ELSE @]
      BY <1>11 DEF CheckFee
    <2>2. UNCHANGED <<utxo, poolVars, chainVars>> /\ miner.at = "fees"  BY <1>11 DEF CheckFee
    <2>3. PoolTypeOK'  BY <1>1, <2>2 DEF PoolTypeOK, poolVars
    <2>4. tx \in Txs /\ miner.txs \in Seq(Txs) /\ Append(miner.txs, tx) \in Seq(Txs)
      BY <1>1, <2>1 DEF MinerTypeOK
    <2>5. PICK txs \in Seq(Txs) : miner' = [miner EXCEPT !.todo = @ \ {tx}, !.txs = txs]
      BY <2>1, <2>4
    <2>6. MinerTypeOK'  BY <1>1, <1>2, <2>2, <2>5 DEF MinerTypeOK
    <2> QED  BY <1>2, <2>2, <2>3, <2>6 DEF TypeInv
  <1>12. CASE ClearOwn
    <2>1. miner' = Resting /\ UNCHANGED <<utxo, chainVars>> /\ ClearConfirmed(ToSet(miner.txs))
      BY <1>12 DEF ClearOwn
    <2>2. PoolTypeOK'  BY <1>1, <2>1 DEF PoolTypeOK, ClearConfirmed
    <2>3. MinerTypeOK'  BY <2>1 DEF MinerTypeOK, Resting, Steps
    <2> QED  BY <1>2, <2>1, <2>2, <2>3 DEF TypeInv
  <1>13. CASE UNCHANGED vars
    <2>1. UNCHANGED <<utxo, poolVars, chainVars, miner>>  BY <1>13 DEF vars
    <2>2. PoolTypeOK'  BY <1>1, <2>1 DEF PoolTypeOK, poolVars
    <2>3. MinerTypeOK'  BY <1>1, <1>2, <2>1 DEF MinerTypeOK
    <2> QED  BY <1>2, <2>1, <2>2, <2>3 DEF TypeInv
  <1> QED
    BY <1>3, <1>4, <1>5, <1>6, <1>7, <1>8, <1>9, <1>10, <1>11, <1>12, <1>13 DEF Next

(* The types hold in every run.                                              *)
LEMMA TypesAreKept == Spec => []TypeInv
  BY InitTypes, NextTypes, PTL DEF Spec

(***************************************************************************)
(* Every reachable state of pool, chain and miner is well typed: what the  *)
(* holder of chainMu undoes or applies and what the miner submits is a     *)
(* block the node holds or has found.                                      *)
(***************************************************************************)
THEOREM MinerTypesHold == Spec => []TypeOK
  <1>1. TypeInv => TypeOK
    BY DEF TypeInv, ChainTypeOK, JobTypeOK, MinerTypeOK, Steps, TypeOK
  <1> QED  BY <1>1, TypesAreKept, PTL

-----------------------------------------------------------------------------
(* What sets of payments do to the outputs.                                  *)

InsOf(T)  == UNION {Ins[tx] : tx \in T}
OutsOf(T) == UNION {Creates[tx] : tx \in T}

(* The outputs when the payments of T are applied.                           *)
Unspent(T) == (Coins \cup OutsOf(T)) \ InsOf(T)

(* The payments of a chain, where b gives the payments of a block.           *)
PaidBy(b, p) == UNION {ToSet(b[h]) : h \in ToSet(p)}

(* The blocks of a chain spend coins, and no two of them the same.           *)
Sound(b, p) ==
  \A i \in DOMAIN p :
    /\ InsOf(ToSet(b[p[i]])) \subseteq Coins
    /\ \A j \in DOMAIN p : i # j => InsOf(ToSet(b[p[i]])) \cap InsOf(ToSet(b[p[j]])) = {}

(* Two sets of payments together.                                            *)
LEMMA Together ==
  ASSUME NEW S, NEW T
  PROVE  InsOf(S \cup T) = InsOf(S) \cup InsOf(T) /\ OutsOf(S \cup T) = OutsOf(S) \cup OutsOf(T)
  BY DEF InsOf, OutsOf

(* Replay is the outputs after all payments of the chain.                    *)
LEMMA ReplayIsUnspent == \A p : Replay(p) = Unspent(PaidBy(body, p))
  <1> TAKE p
  <1>1. UNION {Created(h) : h \in ToSet(p)} = OutsOf(PaidBy(body, p))
    BY DEF Created, OutsOf, PaidBy
  <1>2. UNION {Spent(h) : h \in ToSet(p)} = InsOf(PaidBy(body, p))
    BY DEF Spent, InsOf, PaidBy
  <1> QED  BY <1>1, <1>2 DEF Replay, Unspent

(* A payment that finds its inputs spends coins that nobody spent.           *)
LEMMA PaymentApplied ==
  ASSUME Unchained, NEW T, T \subseteq Txs, NEW tx \in Txs, Ins[tx] \subseteq Unspent(T)
  PROVE  /\ (Unspent(T) \ Ins[tx]) \cup Creates[tx] = Unspent(T \cup {tx})
         /\ Ins[tx] \subseteq Coins /\ Ins[tx] \cap InsOf(T) = {}
  <1>1. InsOf({tx}) = Ins[tx] /\ OutsOf({tx}) = Creates[tx]  BY DEF InsOf, OutsOf
  <1>2. Unspent(T \cup {tx}) = (Coins \cup OutsOf(T) \cup Creates[tx]) \ (InsOf(T) \cup Ins[tx])
    BY <1>1, Together DEF Unspent
  <1>3. Creates[tx] \cap (InsOf(T) \cup Ins[tx]) = {}  BY DEF Unchained, InsOf
  <1>4. Ins[tx] \cap OutsOf(T) = {}  BY DEF Unchained, OutsOf
  <1> QED  BY <1>2, <1>3, <1>4 DEF Unspent

(* Undoing the payments of a block leaves the outputs before it: nobody else *)
(* made what it made, and what it spent was there.                           *)
LEMMA BlockUndone ==
  ASSUME NEW T, T \subseteq Txs, NEW B, B \subseteq Txs,
         InsOf(B) \subseteq Coins, InsOf(B) \cap InsOf(T) = {}
  PROVE  (Unspent(T \cup B) \ OutsOf(B)) \cup InsOf(B) = Unspent(T)
  <1>1. B \cap T = {}
    <2> SUFFICES ASSUME NEW tx \in B, tx \in T PROVE FALSE
      OBVIOUS
    <2>1. Ins[tx] # {}  BY PoolAssumption
    <2>2. Ins[tx] \subseteq InsOf(B) /\ Ins[tx] \subseteq InsOf(T)  BY DEF InsOf
    <2> QED  BY <2>1, <2>2
  <1>2. OutsOf(B) \cap OutsOf(T) = {}
    <2> SUFFICES ASSUME NEW o \in OutsOf(B), o \in OutsOf(T) PROVE FALSE
      OBVIOUS
    <2>1. PICK tx \in B, other \in T : o \in Creates[tx] /\ o \in Creates[other]
      BY DEF OutsOf
    <2> QED  BY <1>1, <2>1, PoolAssumption
  <1>3. OutsOf(B) \cap Coins = {}  BY MinerAssumption DEF OutsOf
  <1>4. Unspent(T \cup B) = (Coins \cup OutsOf(T) \cup OutsOf(B)) \ (InsOf(T) \cup InsOf(B))
    <2>1. InsOf(T \cup B) = InsOf(T) \cup InsOf(B) /\ OutsOf(T \cup B) = OutsOf(T) \cup OutsOf(B)
      BY Together
    <2> QED  BY <2>1 DEF Unspent
  <1> QED  BY <1>2, <1>3, <1>4 DEF Unspent

(* One block more.                                                           *)
LEMMA PaidByMore ==
  ASSUME NEW b, NEW p \in Seq(Hashes), NEW h \in Hashes
  PROVE  /\ ToSet(Append(p, h)) = ToSet(p) \cup {h}
         /\ PaidBy(b, Append(p, h)) = PaidBy(b, p) \cup ToSet(b[h])
         /\ Front(Append(p, h)) = p /\ Last(Append(p, h)) = h
  <1>1. PICK q : q = Append(p, h)  OBVIOUS
  <1>2. PICK n \in Nat : n = Len(p)  OBVIOUS
  <1>3. /\ q \in Seq(Hashes) /\ Len(q) = n + 1 /\ q[n + 1] = h
        /\ \A i \in 1..n : q[i] = p[i]
    BY <1>1, <1>2, AppendProperties
  <1>4. DOMAIN q = 1..(n + 1) /\ DOMAIN p = 1..n /\ 1..(n + 1) = 1..n \cup {n + 1}
    BY <1>2, <1>3
  <1>5. ToSet(q) = ToSet(p) \cup {h}  BY <1>3, <1>4 DEF ToSet
  <1>6. PaidBy(b, q) = PaidBy(b, p) \cup ToSet(b[h])  BY <1>5 DEF PaidBy
  <1>7. Last(q) = h  BY <1>3 DEF Last
  <1>8. Front(q) = p
    <2>1. PICK f : f = SubSeq(q, 1, n)  OBVIOUS
    <2>2. Len(q) - 1 = n  BY <1>2, <1>3
    <2>3. Front(q) = f  BY <2>1, <2>2 DEF Front
    <2>4. f \in Seq(Hashes) /\ Len(f) = n /\ \A i \in 1..n : f[i] = q[i]
      BY <1>2, <1>3, <2>1
    <2>5. f = p  BY <1>2, <1>3, <2>4, SeqEqual
    <2> QED  BY <2>3, <2>5
  <1> QED  BY <1>1, <1>5, <1>6, <1>7, <1>8

(* A chain is sound, and its last block spends coins of its own, exactly if  *)
(* it is sound with it.                                                      *)
LEMMA SoundMore ==
  ASSUME NEW b, NEW p \in Seq(Hashes), NEW h \in Hashes
  PROVE  Sound(b, Append(p, h)) <=> /\ Sound(b, p) /\ InsOf(ToSet(b[h])) \subseteq Coins
                                    /\ InsOf(ToSet(b[h])) \cap InsOf(PaidBy(b, p)) = {}
  <1> DEFINE I(g) == InsOf(ToSet(b[g]))
  <1>1. PICK q : q = Append(p, h)  OBVIOUS
  <1>2. PICK n \in Nat : n = Len(p)  OBVIOUS
  <1>3. /\ q \in Seq(Hashes) /\ Len(q) = n + 1 /\ q[n + 1] = h
        /\ \A i \in 1..n : q[i] = p[i]
    BY <1>1, <1>2, AppendProperties
  <1>4. /\ DOMAIN q = 1..(n + 1) /\ DOMAIN p = 1..n /\ 1..(n + 1) = 1..n \cup {n + 1}
        /\ n + 1 \notin 1..n
    BY <1>2, <1>3
  <1>5. InsOf(PaidBy(b, p)) = UNION {I(p[i]) : i \in 1..n}
    <2>1. PaidBy(b, p) = UNION {ToSet(b[p[i]]) : i \in 1..n}
      <3>1. PICK P : P = ToSet(p)  OBVIOUS
      <3>2. P = {p[i] : i \in 1..n}  BY <1>4, <3>1 DEF ToSet
      <3> QED  BY <3>1, <3>2 DEF PaidBy
    <2>2. ASSUME NEW o \in InsOf(PaidBy(b, p)) PROVE \E i \in 1..n : o \in I(p[i])
      <3>1. \E i \in 1..n : \E tx \in ToSet(b[p[i]]) : o \in Ins[tx]  BY <2>1 DEF InsOf
      <3> QED  BY <3>1 DEF InsOf
    <2>3. ASSUME NEW i \in 1..n, NEW o \in I(p[i]) PROVE o \in InsOf(PaidBy(b, p))
      <3>1. PICK tx \in ToSet(b[p[i]]) : o \in Ins[tx]  BY DEF InsOf
      <3> QED  BY <2>1, <3>1 DEF InsOf
    <2> HIDE DEF I
    <2> QED  BY <2>2, <2>3
  <1> HIDE DEF I
  <1>6. Sound(b, p) <=> \A i \in 1..n : /\ I(p[i]) \subseteq Coins
                                        /\ \A j \in 1..n : i # j => I(p[i]) \cap I(p[j]) = {}
    BY <1>4 DEF Sound, I
  <1>7. Sound(b, q) <=> \A i \in 1..(n + 1) :
                          /\ I(q[i]) \subseteq Coins
                          /\ \A j \in 1..(n + 1) : i # j => I(q[i]) \cap I(q[j]) = {}
    BY <1>4 DEF Sound, I
  <1>8. I(h) = InsOf(ToSet(b[h]))  BY DEF I
  <1>9. ASSUME Sound(b, q)
        PROVE  Sound(b, p) /\ I(h) \subseteq Coins /\ I(h) \cap InsOf(PaidBy(b, p)) = {}
    <2>1. Sound(b, p)  BY <1>3, <1>4, <1>6, <1>7, <1>9
    <2>2. I(h) \subseteq Coins  BY <1>3, <1>4, <1>7, <1>9
    <2>3. \A i \in 1..n : I(h) \cap I(p[i]) = {}  BY <1>3, <1>4, <1>7, <1>9
    <2> QED  BY <1>5, <2>1, <2>2, <2>3
  <1>10. ASSUME Sound(b, p), I(h) \subseteq Coins, I(h) \cap InsOf(PaidBy(b, p)) = {}
         PROVE  Sound(b, q)
    <2>1. \A i \in 1..n : I(h) \cap I(p[i]) = {}  BY <1>5, <1>10
    <2> QED  BY <1>3, <1>4, <1>6, <1>7, <1>10, <2>1
  <1> QED  BY <1>1, <1>8, <1>9, <1>10

(* Payments of found blocks never change.                                    *)
LEMMA SameBodies ==
  ASSUME NEW b, NEW c, NEW p, NEW S, ToSet(p) \subseteq S, \A g \in S : c[g] = b[g]
  PROVE  PaidBy(c, p) = PaidBy(b, p) /\ (Sound(c, p) <=> Sound(b, p))
  <1>1. PaidBy(c, p) = PaidBy(b, p)  BY DEF PaidBy
  <1>2. \A i \in DOMAIN p : c[p[i]] = b[p[i]]  BY DEF ToSet
  <1> QED  BY <1>1, <1>2 DEF Sound

-----------------------------------------------------------------------------
(* Blocks and the paths through them.                                        *)

(* Every path the node, the miner or a call of AddBlock holds is one of      *)
(* found blocks, and payments are applied to a block on the new branch.      *)
KeepInv ==
  /\ \A h \in Found : ToSet(path[h]) \subseteq Found /\ Last(path[h]) = h
  /\ ToSet(chain) \subseteq Found /\ ToSet(miner.prev) \subseteq Found
  /\ ToSet(job.at) \subseteq Found
  /\ job.left # <<>> => IsPrefix(job.at, path[job.block]) /\ job.at # <<>>

(* A block is found.                                                         *)
LEMMA FoundKept ==
  ASSUME TypeInv, KeepInv, NEW h \in Hashes, NEW p \in Seq(Hashes), NEW txs \in Seq(Txs),
         h \notin Found, ToSet(p) \subseteq Found,
         path' = [path EXCEPT ![h] = Append(p, h)], body' = [body EXCEPT ![h] = txs],
         UNCHANGED <<stored, chain, job>>, miner'.prev = miner.prev
  PROVE  KeepInv'
  <1>1. /\ path'[h] = Append(p, h) /\ Found' = Found \cup {h}
        /\ \A g \in Found : path'[g] = path[g]
    BY FoundGrows
  <1>2. ToSet(path'[h]) = ToSet(p) \cup {h} /\ Last(path'[h]) = h
    BY <1>1, PaidByMore
  <1>3. \A g \in Found' : ToSet(path'[g]) \subseteq Found' /\ Last(path'[g]) = g
    BY <1>1, <1>2 DEF KeepInv
  <1>4. /\ ToSet(chain') \subseteq Found' /\ ToSet(miner'.prev) \subseteq Found'
        /\ ToSet(job'.at) \subseteq Found'
    BY <1>1 DEF KeepInv
  <1>5. job'.left # <<>> => IsPrefix(job'.at, path'[job'.block]) /\ job'.at # <<>>
    <2> SUFFICES ASSUME job.left # <<>> PROVE IsPrefix(job.at, path'[job.block]) /\ job.at # <<>>
      OBVIOUS
    <2>1. job # NoJob  BY DEF NoJob
    <2>2. job.block \in Found  BY <2>1 DEF TypeInv, JobTypeOK, ChainTypeOK
    <2> QED  BY <1>1, <2>2 DEF KeepInv
  <1> QED  BY <1>3, <1>4, <1>5 DEF KeepInv

(* A step of the holder of chainMu.                                          *)
LEMMA JobKept ==
  ASSUME TypeInv, KeepInv, UndoBlock \/ BeginBlock \/ ApplyTx \/ RefuseTx \/ EndAdd
  PROVE  KeepInv'
  <1>1. UNCHANGED <<path, body, stored>> /\ Found' = Found
    BY DEF UndoBlock, BeginBlock, ApplyTx, RefuseTx, EndAdd, Found
  <1>2. ToSet(miner'.prev) \subseteq Found
    <2>1. miner' \in {miner, Resting, [miner EXCEPT !.at = "clear"]}
      BY DEF UndoBlock, BeginBlock, ApplyTx, RefuseTx, EndAdd
    <2>2. CASE miner' = Resting
      <3>1. miner'.prev = <<>>  BY <2>2 DEF Resting
      <3>2. ToSet(<<>>) = {}  BY DEF ToSet
      <3> QED  BY <3>1, <3>2
    <2>3. CASE miner' # Resting
      <3>1. miner'.prev = miner.prev  BY <2>1, <2>3 DEF TypeInv, MinerTypeOK
      <3> QED  BY <3>1 DEF KeepInv
    <2> QED  BY <2>2, <2>3
  <1>3. \A h \in Found' : ToSet(path'[h]) \subseteq Found' /\ Last(path'[h]) = h
    BY <1>1 DEF KeepInv
  <1>4. job.at \in Seq(Hashes) /\ job.left \in Seq(Txs) /\ (job # NoJob => job.block \in Found)
    BY DEF TypeInv, JobTypeOK, ChainTypeOK
  <1>5. CASE UndoBlock
    <2>1. PICK at : at = job.at  OBVIOUS
    <2>2. /\ job # NoJob /\ ~IsPrefix(at, path[job.block])
          /\ job' = [job EXCEPT !.at = Front(at)] /\ chain' = chain
      BY <1>5, <2>1 DEF UndoBlock
    <2>3. job'.at = Front(at) /\ job'.left = job.left  BY <2>2 DEF TypeInv, JobTypeOK
    <2>4. job.left = <<>>  BY <2>1, <2>2 DEF KeepInv
    <2>5. ToSet(Front(at)) \subseteq Found
      <3>1. at # <<>>
        <4>1. PICK q : q = path[job.block]  OBVIOUS
        <4>2. q \in Seq(Hashes)  BY <1>4, <2>2, <4>1 DEF TypeInv, ChainTypeOK, Found
        <4>3. IsPrefix(<<>>, q)  BY <4>2 DEF IsPrefix
        <4> QED  BY <2>2, <4>1, <4>3
      <3>2. PICK p \in Seq(Hashes), h \in Hashes : at = Append(p, h)
        BY <1>4, <2>1, <3>1, SequenceEmptyOrAppend
      <3>3. Front(at) = p /\ ToSet(at) = ToSet(p) \cup {h}  BY <3>2, PaidByMore
      <3> QED  BY <2>1, <3>3 DEF KeepInv
    <2> QED  BY <1>1, <1>2, <1>3, <2>2, <2>3, <2>4, <2>5 DEF KeepInv
  <1>6. CASE BeginBlock
    <2>1. PICK at, q, h : at = job.at /\ q = path[job.block] /\ h = path[job.block][Len(job.at) + 1]
      OBVIOUS
    <2>2. /\ job # NoJob /\ IsStrictPrefix(at, q)
          /\ job' = [job EXCEPT !.at = Append(@, h), !.left = body[h]] /\ chain' = chain
      BY <1>6, <2>1 DEF BeginBlock
    <2>3. at \in Seq(Hashes) /\ q \in Seq(Hashes) /\ ToSet(q) \subseteq Found
      BY <1>4, <2>1, <2>2 DEF TypeInv, ChainTypeOK, Found, KeepInv
    <2>4. PICK n \in Nat : n = Len(at)  BY <2>3
    <2>5. n + 1 \in 1..Len(q) /\ \A i \in 1..n : at[i] = q[i]
      <3>1. Len(at) <= Len(q) /\ SubSeq(at, 1, Len(at)) = SubSeq(q, 1, Len(at)) /\ at # q
        BY <2>2 DEF IsStrictPrefix, IsPrefix
      <3>2. ASSUME NEW i \in 1..n PROVE at[i] = q[i]
        <4>1. SubSeq(at, 1, n)[i] = at[i] /\ SubSeq(q, 1, n)[i] = q[i]
          BY <2>3, <2>4, <3>1
        <4> QED  BY <2>4, <3>1, <4>1
      <3>3. n # Len(q)  BY <2>3, <2>4, <3>1, <3>2, SeqEqual
      <3> QED  BY <2>3, <2>4, <3>1, <3>2, <3>3
    <2>6. h = q[n + 1] /\ h \in Hashes /\ h \in Found
      BY <2>1, <2>3, <2>4, <2>5 DEF ToSet
    <2>7. PICK at2 : at2 = Append(at, h)  OBVIOUS
    <2>8. job'.at = at2 /\ job'.block = job.block
      BY <2>1, <2>2, <2>7 DEF TypeInv, JobTypeOK
    <2>9. ToSet(at2) \subseteq Found
      <3>1. ToSet(at2) = ToSet(at) \cup {h}  BY <2>3, <2>6, <2>7, PaidByMore
      <3> QED  BY <2>1, <2>6, <3>1 DEF KeepInv
    <2>10. /\ at2 \in Seq(Hashes) /\ Len(at2) = n + 1 /\ at2 # <<>> /\ at2[n + 1] = h
           /\ \A i \in 1..n : at2[i] = at[i]
      BY <2>3, <2>4, <2>6, <2>7, AppendProperties
    <2>11. IsPrefix(at2, q)
      <3>1. PICK s, t : s = SubSeq(at2, 1, n + 1) /\ t = SubSeq(q, 1, n + 1)  OBVIOUS
      <3>2. /\ s \in Seq(Hashes) /\ Len(s) = n + 1 /\ \A i \in 1..(n + 1) : s[i] = at2[i]
        BY <2>10, <3>1
      <3>3. /\ t \in Seq(Hashes) /\ Len(t) = n + 1 /\ \A i \in 1..(n + 1) : t[i] = q[i]
        BY <2>3, <2>5, <3>1
      <3>4. \A i \in 1..(n + 1) : s[i] = t[i]  BY <2>5, <2>6, <2>10, <3>2, <3>3
      <3>5. s = t  BY <3>2, <3>3, <3>4, SeqEqual
      <3> QED  BY <2>5, <2>10, <3>1, <3>5 DEF IsPrefix
    <2> QED  BY <1>1, <1>2, <1>3, <2>1, <2>2, <2>8, <2>9, <2>10, <2>11 DEF KeepInv
  <1>7. CASE ApplyTx
    <2>1. job.left # <<>> /\ job' = [job EXCEPT !.left = Tail(@)] /\ chain' = chain
      BY <1>7 DEF ApplyTx
    <2>2. job'.at = job.at /\ job'.block = job.block  BY <2>1 DEF TypeInv, JobTypeOK
    <2> QED  BY <1>1, <1>2, <1>3, <2>1, <2>2 DEF KeepInv
  <1>8. CASE RefuseTx \/ EndAdd
    <2>1. job' = NoJob /\ chain' \in {chain, job.at}  BY <1>8 DEF RefuseTx, EndAdd
    <2>2. job'.left = <<>> /\ job'.at = <<>>  BY <2>1 DEF NoJob
    <2>3. ToSet(<<>>) = {}  BY DEF ToSet
    <2> QED  BY <1>1, <1>2, <1>3, <2>1, <2>2, <2>3 DEF KeepInv
  <1> QED  BY <1>5, <1>6, <1>7, <1>8

(* Every step keeps the paths.                                               *)
LEMMA NextKept == TypeInv /\ KeepInv /\ [Next]_vars => KeepInv'
  <1> SUFFICES ASSUME TypeInv, KeepInv, [Next]_vars PROVE KeepInv'
    OBVIOUS
  <1>1. ToSet(<<>>) = {}  BY DEF ToSet
  <1>2. ASSUME UNCHANGED <<path, chain, job>>, ToSet(miner'.prev) \subseteq Found PROVE KeepInv'
    <2>1. Found' = Found  BY <1>2 DEF Found
    <2> QED  BY <1>2, <2>1 DEF KeepInv
  <1>3. CASE (PoolNext \/ \E tx \in Txs : Expire(tx)) /\ UNCHANGED <<chainVars, miner>>
    BY <1>2, <1>3 DEF chainVars, KeepInv
  <1>4. ASSUME NEW h \in Hashes, PeerBlock(h) PROVE KeepInv'
    <2>1. PICK p \in {<<>>} \cup {path[g] : g \in stored}, txs \in PeerBodies :
            /\ path' = [path EXCEPT ![h] = Append(p, h)]
            /\ body' = [body EXCEPT ![h] = txs]
      BY <1>4 DEF PeerBlock
    <2>2. h \notin Found /\ UNCHANGED <<stored, chain, job, miner>>  BY <1>4 DEF PeerBlock
    <2>3. stored \subseteq Found /\ path \in [Hashes -> Seq(Hashes)] /\ Found \subseteq Hashes
      BY DEF TypeInv, ChainTypeOK, Found
    <2>4. <<>> \in Seq(Hashes)  OBVIOUS
    <2>5. p \in Seq(Hashes) /\ ToSet(p) \subseteq Found
      BY <1>1, <2>3, <2>4 DEF KeepInv
    <2>6. txs \in Seq(Txs)  BY MinerAssumption
    <2>7. miner'.prev = miner.prev  BY <2>2
    <2> QED  BY <2>1, <2>2, <2>5, <2>6, <2>7, FoundKept
  <1>5. ASSUME NEW h \in Hashes, MineBlock(h) PROVE KeepInv'
    <2>1. PICK p, txs : p = miner.prev /\ txs = miner.txs  OBVIOUS
    <2>2. /\ h \notin Found /\ path' = [path EXCEPT ![h] = Append(p, h)]
          /\ body' = [body EXCEPT ![h] = txs]
          /\ miner' = [miner EXCEPT !.at = "add", !.block = h]
          /\ UNCHANGED <<stored, chain, job>>
      BY <1>5, <2>1 DEF MineBlock
    <2>3. p \in Seq(Hashes) /\ txs \in Seq(Txs) /\ miner'.prev = miner.prev
      BY <2>1, <2>2 DEF TypeInv, MinerTypeOK
    <2>4. ToSet(p) \subseteq Found  BY <2>1 DEF KeepInv
    <2> QED  BY <2>2, <2>3, <2>4, FoundKept
  <1>6. ASSUME NEW h, NEW own, BeginAdd(h, own) \/ StoreOnly(h), UNCHANGED path,
               ToSet(miner'.prev) \subseteq Found
        PROVE  KeepInv'
    <2>1. CASE StoreOnly(h)  BY <1>2, <1>6, <2>1 DEF StoreOnly
    <2>2. CASE BeginAdd(h, own)
      <3>1. chain' = chain /\ job' = [block |-> h, at |-> chain, left |-> <<>>, own |-> own]
        BY <2>2 DEF BeginAdd
      <3>2. job'.at = chain /\ job'.left = <<>>  BY <3>1
      <3>3. Found' = Found  BY <1>6 DEF Found
      <3> QED  BY <1>6, <3>1, <3>2, <3>3 DEF KeepInv
    <2> QED  BY <1>6, <2>1, <2>2
  <1>7. ASSUME NEW h \in Hashes, AddPeerBlock(h) PROVE KeepInv'
    <2>1. (BeginAdd(h, FALSE) \/ StoreOnly(h)) /\ UNCHANGED <<path, miner>>
      BY <1>7 DEF AddPeerBlock
    <2>2. ToSet(miner'.prev) \subseteq Found  BY <2>1 DEF KeepInv
    <2> QED  BY <1>6, <2>1, <2>2
  <1>8. CASE AddOwn
    <2>1. PICK h : h = miner.block  OBVIOUS
    <2>2. (BeginAdd(h, TRUE) \/ StoreOnly(h)) /\ UNCHANGED path
          /\ miner' \in {[miner EXCEPT !.at = "adding"], [miner EXCEPT !.at = "clear"]}
      BY <1>8, <2>1 DEF AddOwn
    <2>3. miner'.prev = miner.prev  BY <2>2 DEF TypeInv, MinerTypeOK
    <2>4. ToSet(miner'.prev) \subseteq Found  BY <2>3 DEF KeepInv
    <2> QED  BY <1>6, <2>2, <2>4
  <1>9. CASE UndoBlock \/ BeginBlock \/ ApplyTx \/ RefuseTx \/ EndAdd
    BY <1>9, JobKept
  <1>10. CASE TakeTip
    <2>1. miner' = [Resting EXCEPT !.at = "pool", !.prev = chain] /\ UNCHANGED chainVars
      BY <1>10 DEF TakeTip
    <2>2. miner'.prev = chain  BY <2>1 DEF Resting
    <2> QED  BY <1>2, <2>1, <2>2 DEF chainVars, KeepInv
  <1>11. CASE TakePool \/ CheckFee
    <2>1. UNCHANGED chainVars /\ miner'.prev = miner.prev
      <3>1. CASE TakePool  BY <3>1 DEF TakePool, TypeInv, MinerTypeOK
      <3>2. CASE CheckFee  BY <3>2 DEF CheckFee, TypeInv, MinerTypeOK
      <3> QED  BY <1>11, <3>1, <3>2
    <2> QED  BY <1>2, <2>1 DEF chainVars, KeepInv
  <1>12. CASE ClearOwn
    <2>1. miner' = Resting /\ UNCHANGED chainVars  BY <1>12 DEF ClearOwn
    <2>2. miner'.prev = <<>>  BY <2>1 DEF Resting
    <2> QED  BY <1>1, <1>2, <2>1, <2>2 DEF chainVars
  <1>13. CASE UNCHANGED vars
    BY <1>2, <1>13 DEF vars, chainVars, KeepInv
  <1> QED
    BY <1>3, <1>4, <1>5, <1>7, <1>8, <1>9, <1>10, <1>11, <1>12, <1>13 DEF Next

-----------------------------------------------------------------------------
(* The outputs.                                                              *)

(* A block is partly applied: A are the payments of it that are done.        *)
PartApplied ==
  \E p \in Seq(Hashes), h \in Hashes, A \in SUBSET Txs :
    /\ job.at = Append(p, h) /\ ToSet(body[h]) = A \cup ToSet(job.left)
    /\ Sound(body, p) /\ InsOf(A) \subseteq Coins /\ InsOf(A) \cap InsOf(PaidBy(body, p)) = {}
    /\ utxo = Unspent(PaidBy(body, p) \cup A)

(* Until a block is refused half way, the outputs are those of the path the  *)
(* holder of chainMu has come to.                                            *)
OutputsInv ==
  intact =>
    /\ Sound(body, chain)
    /\ job = NoJob => utxo = Unspent(PaidBy(body, chain))
    /\ job # NoJob /\ job.left = <<>> => Sound(body, job.at) /\ utxo = Unspent(PaidBy(body, job.at))
    /\ job # NoJob /\ job.left # <<>> => PartApplied

LEMMA InitOutputs == Init => OutputsInv
  <1> SUFFICES ASSUME Init PROVE OutputsInv
    OBVIOUS
  <1>1. chain = <<>> /\ utxo = Coins /\ job = NoJob  BY DEF Init
  <1>2. PICK b : b = body  OBVIOUS
  <1>3. Sound(b, <<>>)  BY DEF Sound
  <1>4. ToSet(<<>>) = {}  BY DEF ToSet
  <1>5. PaidBy(b, <<>>) = {}  BY <1>4 DEF PaidBy
  <1>6. Unspent({}) = Coins  BY DEF Unspent, InsOf, OutsOf
  <1> QED  BY <1>1, <1>2, <1>3, <1>5, <1>6 DEF OutputsInv

(* Payments of a chain are payments.                                         *)
LEMMA PaidAreTxs ==
  ASSUME ChainTypeOK, NEW p, ToSet(p) \subseteq Hashes
  PROVE  PaidBy(body, p) \subseteq Txs
  <1>1. ASSUME NEW h \in ToSet(p) PROVE ToSet(body[h]) \subseteq Txs
    <2>1. body[h] \in Seq(Txs)  BY DEF ChainTypeOK
    <2> QED  BY <2>1 DEF ToSet
  <1> QED  BY <1>1 DEF PaidBy

(* A block is found.                                                         *)
LEMMA FoundOutputs ==
  ASSUME KeepInv, OutputsInv, \A g \in Found : body'[g] = body[g],
         UNCHANGED <<utxo, chain, job, intact>>
  PROVE  OutputsInv'
  <1>1. PICK b, c : b = body /\ c = body'  OBVIOUS
  <1>2. \A g \in Found : c[g] = b[g]  BY <1>1
  <1>3. ASSUME NEW p, ToSet(p) \subseteq Found
        PROVE  PaidBy(c, p) = PaidBy(b, p) /\ (Sound(c, p) <=> Sound(b, p))
    BY <1>2, <1>3, SameBodies
  <1>4. PICK q, r : q = chain /\ r = job.at  OBVIOUS
  <1>5. ToSet(q) \subseteq Found /\ ToSet(r) \subseteq Found  BY <1>4 DEF KeepInv
  <1>6. PaidBy(c, q) = PaidBy(b, q) /\ (Sound(c, q) <=> Sound(b, q))  BY <1>3, <1>5
  <1>7. PaidBy(c, r) = PaidBy(b, r) /\ (Sound(c, r) <=> Sound(b, r))  BY <1>3, <1>5
  <1>8. ASSUME PartApplied PROVE PartApplied'
    <2>1. PICK p \in Seq(Hashes), h \in Hashes, A \in SUBSET Txs :
            /\ r = Append(p, h) /\ ToSet(b[h]) = A \cup ToSet(job.left)
            /\ Sound(b, p) /\ InsOf(A) \subseteq Coins /\ InsOf(A) \cap InsOf(PaidBy(b, p)) = {}
            /\ utxo = Unspent(PaidBy(b, p) \cup A)
      BY <1>1, <1>4, <1>8 DEF PartApplied
    <2>2. ToSet(r) = ToSet(p) \cup {h}  BY <2>1, PaidByMore
    <2>3. h \in Found /\ ToSet(p) \subseteq Found  BY <1>5, <2>2
    <2>4. PaidBy(c, p) = PaidBy(b, p) /\ Sound(c, p) /\ c[h] = b[h]
      BY <1>2, <1>3, <2>1, <2>3
    <2> QED  BY <1>1, <1>4, <2>1, <2>4 DEF PartApplied
  <1> QED  BY <1>1, <1>4, <1>6, <1>7, <1>8 DEF OutputsInv

(* Nothing of the outputs changes.                                           *)
LEMMA OutputsStay ==
  ASSUME OutputsInv, UNCHANGED <<utxo, body, chain, job, intact>>
  PROVE  OutputsInv'
  BY DEF OutputsInv, PartApplied

(* A block is added.                                                         *)
LEMMA AddOutputs ==
  ASSUME OutputsInv, NEW h \in Hashes, NEW own, BeginAdd(h, own) \/ StoreOnly(h), UNCHANGED body
  PROVE  OutputsInv'
  <1>1. CASE StoreOnly(h)  BY <1>1, OutputsStay DEF StoreOnly
  <1>2. CASE BeginAdd(h, own)
    <2>1. /\ job = NoJob /\ UNCHANGED <<utxo, chain, intact>>
          /\ job' = [block |-> h, at |-> chain, left |-> <<>>, own |-> own]
      BY <1>2 DEF BeginAdd
    <2>2. job'.at = chain /\ job'.left = <<>> /\ job'.block = h  BY <2>1
    <2>3. job' # NoJob
      <3>1. h # 0  BY MinerAssumption
      <3> QED  BY <2>2, <3>1 DEF NoJob
    <2> QED  BY <2>1, <2>2, <2>3 DEF OutputsInv
  <1> QED  BY <1>1, <1>2

(* RollbackBlock leaves the outputs of the parent.                           *)
LEMMA UndoOutputs ==
  ASSUME TypeInv, KeepInv, OutputsInv, UndoBlock
  PROVE  OutputsInv'
  <1>1. PICK at, b : at = job.at /\ b = body  OBVIOUS
  <1>2. /\ job # NoJob /\ ~IsPrefix(at, path[job.block])
        /\ utxo' = (utxo \ Created(Last(at))) \cup Spent(Last(at))
        /\ job' = [job EXCEPT !.at = Front(at)] /\ UNCHANGED <<body, chain, intact>>
    BY <1>1 DEF UndoBlock
  <1>3. job'.at = Front(at) /\ job'.left = job.left /\ job'.block = job.block
    BY <1>2 DEF TypeInv, JobTypeOK
  <1>4. job.left = <<>>  BY <1>1, <1>2 DEF KeepInv
  <1>5. at \in Seq(Hashes) /\ job.block \in Found
    BY <1>1, <1>2 DEF TypeInv, JobTypeOK, ChainTypeOK
  <1>6. at # <<>>
    <2>1. PICK q : q = path[job.block]  OBVIOUS
    <2>2. q \in Seq(Hashes)  BY <1>5, <2>1 DEF TypeInv, ChainTypeOK, Found
    <2>3. IsPrefix(<<>>, q)  BY <2>2 DEF IsPrefix
    <2> QED  BY <1>2, <2>1, <2>3
  <1>7. PICK p \in Seq(Hashes), h \in Hashes : at = Append(p, h)
    BY <1>5, <1>6, SequenceEmptyOrAppend
  <1>8. Front(at) = p /\ Last(at) = h /\ PaidBy(b, at) = PaidBy(b, p) \cup ToSet(b[h])
    BY <1>7, PaidByMore
  <1>9. job' # NoJob
    <2>1. job.block \in Hashes /\ 0 \notin Hashes  BY <1>5, MinerAssumption DEF Found
    <2> QED  BY <1>3, <2>1 DEF NoJob
  <1>10. ASSUME intact PROVE Sound(b, p) /\ utxo' = Unspent(PaidBy(b, p))
    <2>1. Sound(b, at) /\ utxo = Unspent(PaidBy(b, at))
      BY <1>1, <1>2, <1>4, <1>10 DEF OutputsInv
    <2>2. PICK B, T : B = ToSet(b[h]) /\ T = PaidBy(b, p)  OBVIOUS
    <2>3. Sound(b, p) /\ InsOf(B) \subseteq Coins /\ InsOf(B) \cap InsOf(T) = {}
      BY <1>7, <2>1, <2>2, SoundMore
    <2>4. T \subseteq Txs /\ B \subseteq Txs
      <3>1. ToSet(p) \subseteq Hashes  BY DEF ToSet
      <3>2. T \subseteq Txs  BY <1>1, <2>2, <3>1, PaidAreTxs DEF TypeInv
      <3>3. b[h] \in Seq(Txs)  BY <1>1 DEF TypeInv, ChainTypeOK
      <3> QED  BY <2>2, <3>2, <3>3 DEF ToSet
    <2>5. Created(h) = OutsOf(B) /\ Spent(h) = InsOf(B)
      BY <1>1, <2>2 DEF Created, Spent, OutsOf, InsOf
    <2>6. utxo' = (Unspent(T \cup B) \ OutsOf(B)) \cup InsOf(B)
      BY <1>2, <1>8, <2>1, <2>2, <2>5
    <2>7. utxo' = Unspent(T)  BY <2>3, <2>4, <2>6, BlockUndone
    <2> QED  BY <2>2, <2>3, <2>7
  <1>11. ASSUME intact PROVE Sound(b, chain)  BY <1>1, <1>11 DEF OutputsInv
  <1> QED  BY <1>1, <1>2, <1>3, <1>4, <1>8, <1>9, <1>10, <1>11 DEF OutputsInv

(* The next block of the branch is begun.                                    *)
LEMMA BeginOutputs ==
  ASSUME TypeInv, KeepInv, OutputsInv, BeginBlock
  PROVE  OutputsInv'
  <1>1. PICK at, b, h : at = job.at /\ b = body /\ h = path[job.block][Len(job.at) + 1]
    OBVIOUS
  <1>2. /\ job # NoJob /\ job.left = <<>> /\ IsStrictPrefix(at, path[job.block])
        /\ job' = [job EXCEPT !.at = Append(@, h), !.left = b[h]]
        /\ UNCHANGED <<utxo, body, chain, intact>>
    BY <1>1 DEF BeginBlock
  <1>3. at \in Seq(Hashes) /\ job.block \in Found
    BY <1>1, <1>2 DEF TypeInv, JobTypeOK, ChainTypeOK
  <1>4. h \in Hashes
    <2>1. PICK q : q = path[job.block]  OBVIOUS
    <2>2. q \in Seq(Hashes)  BY <1>3, <2>1 DEF TypeInv, ChainTypeOK, Found
    <2>3. Len(at) <= Len(q) /\ SubSeq(at, 1, Len(at)) = SubSeq(q, 1, Len(at)) /\ at # q
      BY <1>2, <2>1 DEF IsStrictPrefix, IsPrefix
    <2>4. Len(at) # Len(q)  BY <1>3, <2>2, <2>3
    <2>5. Len(at) + 1 \in 1..Len(q)  BY <1>3, <2>2, <2>3, <2>4
    <2> QED  BY <1>1, <2>1, <2>2, <2>5
  <1>5. PICK at2, txs : at2 = Append(at, h) /\ txs = b[h]  OBVIOUS
  <1>6. job'.at = at2 /\ job'.left = txs /\ job'.block = job.block
    BY <1>1, <1>2, <1>5 DEF TypeInv, JobTypeOK
  <1>7. job' # NoJob
    <2>1. job.block \in Hashes /\ 0 \notin Hashes  BY <1>3, MinerAssumption DEF Found
    <2> QED  BY <1>6, <2>1 DEF NoJob
  <1>8. ASSUME intact
        PROVE  /\ Sound(b, chain) /\ Sound(b, at) /\ utxo = Unspent(PaidBy(b, at))
    BY <1>1, <1>2, <1>8 DEF OutputsInv
  <1>9. InsOf({}) = {}  BY DEF InsOf
  <1>10. ASSUME intact, txs = <<>> PROVE Sound(b, at2) /\ utxo = Unspent(PaidBy(b, at2))
    <2>1. ToSet(txs) = {}  BY <1>10 DEF ToSet
    <2>2. PaidBy(b, at2) = PaidBy(b, at) \cup ToSet(b[h])  BY <1>3, <1>4, <1>5, PaidByMore
    <2>3. PaidBy(b, at2) = PaidBy(b, at)  BY <1>5, <2>1, <2>2
    <2>4. Sound(b, at2)
      <3>1. InsOf(ToSet(b[h])) = {}  BY <1>5, <1>9, <2>1
      <3>2. Sound(b, at) /\ InsOf(ToSet(b[h])) \subseteq Coins
            /\ InsOf(ToSet(b[h])) \cap InsOf(PaidBy(b, at)) = {}
        BY <1>8, <1>10, <3>1
      <3>3. Sound(b, Append(at, h))  BY <1>3, <1>4, <3>2, SoundMore
      <3> QED  BY <1>5, <3>3
    <2> QED  BY <1>8, <1>10, <2>3, <2>4
  <1>11. ASSUME intact PROVE PartApplied'
    <2>1. PICK A : A = {}  OBVIOUS
    <2>2. /\ job'.at = Append(at, h) /\ ToSet(body'[h]) = A \cup ToSet(job'.left)
          /\ InsOf(A) \subseteq Coins /\ InsOf(A) \cap InsOf(PaidBy(b, at)) = {}
          /\ PaidBy(b, at) \cup A = PaidBy(b, at)
      BY <1>1, <1>2, <1>5, <1>6, <1>9, <2>1
    <2> QED  BY <1>1, <1>2, <1>3, <1>4, <1>8, <1>11, <2>1, <2>2 DEF PartApplied
  <1> QED  BY <1>1, <1>2, <1>6, <1>7, <1>8, <1>10, <1>11 DEF OutputsInv

(* A payment is applied.                                                     *)
LEMMA ApplyOutputs ==
  ASSUME Unchained, TypeInv, KeepInv, OutputsInv, ApplyTx
  PROVE  OutputsInv'
  <1>1. PICK b, left, tx : b = body /\ left = job.left /\ tx = Head(job.left)  OBVIOUS
  <1>2. /\ left # <<>> /\ Ins[tx] \subseteq utxo /\ utxo' = (utxo \ Ins[tx]) \cup Creates[tx]
        /\ job' = [job EXCEPT !.left = Tail(left)] /\ UNCHANGED <<body, chain, intact>>
    BY <1>1 DEF ApplyTx
  <1>3. left \in Seq(Txs) /\ job # NoJob
    BY <1>1, <1>2 DEF TypeInv, JobTypeOK, NoJob
  <1>4. job.block \in Found  BY <1>3 DEF TypeInv, JobTypeOK, ChainTypeOK
  <1>5. job'.at = job.at /\ job'.left = Tail(left) /\ job'.block = job.block
    BY <1>2 DEF TypeInv, JobTypeOK
  <1>6. job' # NoJob
    <2>1. job.block \in Hashes /\ 0 \notin Hashes  BY <1>4, MinerAssumption DEF Found
    <2> QED  BY <1>5, <2>1 DEF NoJob
  <1>7. tx \in Txs /\ ToSet(left) = {tx} \cup ToSet(Tail(left))
    <2>1. PICK t : t = Tail(left)  OBVIOUS
    <2>2. /\ t \in Seq(Txs) /\ tx \in Txs /\ Len(t) = Len(left) - 1
          /\ \A i \in 1..Len(t) : t[i] = left[i + 1]
      BY <1>1, <1>2, <1>3, <2>1, HeadTailProperties
    <2>3. Len(left) \in Nat /\ Len(left) >= 1 /\ tx = left[1] /\ DOMAIN left = 1..Len(left)
          /\ DOMAIN t = 1..Len(t) /\ Len(t) \in Nat
      BY <1>1, <1>2, <1>3, <2>2
    <2>4. ASSUME NEW i \in 1..Len(left) PROVE left[i] \in {tx} \cup ToSet(t)
      <3>1. CASE i = 1  BY <2>3, <3>1
      <3>2. CASE i # 1
        <4>1. i - 1 \in 1..Len(t) /\ (i - 1) + 1 = i  BY <2>2, <2>3, <3>2
        <4>2. t[i - 1] = left[i]  BY <2>2, <4>1
        <4> QED  BY <2>3, <4>1, <4>2 DEF ToSet
      <3> QED  BY <3>1, <3>2
    <2>5. ASSUME NEW i \in 1..Len(t) PROVE t[i] \in ToSet(left)
      <3>1. i + 1 \in 1..Len(left)  BY <2>2, <2>3
      <3> QED  BY <2>2, <2>3, <3>1 DEF ToSet
    <2>6. tx \in ToSet(left)  BY <2>3 DEF ToSet
    <2>7. ToSet(left) \subseteq {tx} \cup ToSet(t)  BY <2>3, <2>4 DEF ToSet
    <2>8. ToSet(t) \subseteq ToSet(left)
      <3>1. ToSet(t) = {t[i] : i \in 1..Len(t)}  BY <2>3 DEF ToSet
      <3> QED  BY <2>5, <3>1
    <2> QED  BY <2>1, <2>2, <2>6, <2>7, <2>8
  <1>8. ASSUME intact PROVE Sound(b, chain) /\ PartApplied
    BY <1>1, <1>2, <1>3, <1>8 DEF OutputsInv
  <1>9. ASSUME intact
        PROVE  /\ PartApplied'
               /\ Tail(left) = <<>> => Sound(b, job.at) /\ utxo' = Unspent(PaidBy(b, job.at))
    <2>1. PICK p \in Seq(Hashes), h \in Hashes, A \in SUBSET Txs :
            /\ job.at = Append(p, h) /\ ToSet(b[h]) = A \cup ToSet(left)
            /\ Sound(b, p) /\ InsOf(A) \subseteq Coins /\ InsOf(A) \cap InsOf(PaidBy(b, p)) = {}
            /\ utxo = Unspent(PaidBy(b, p) \cup A)
      BY <1>1, <1>8, <1>9 DEF PartApplied
    <2>2. PICK P : P = PaidBy(b, p)  OBVIOUS
    <2>3. P \subseteq Txs
      <3>1. ToSet(p) \subseteq Hashes  BY DEF ToSet
      <3> QED  BY <1>1, <2>2, <3>1, PaidAreTxs DEF TypeInv
    <2>4. PICK T : T = P \cup A  OBVIOUS
    <2>5. T \subseteq Txs /\ Ins[tx] \subseteq Unspent(T)  BY <1>2, <2>1, <2>2, <2>3, <2>4
    <2>6. /\ (Unspent(T) \ Ins[tx]) \cup Creates[tx] = Unspent(T \cup {tx})
          /\ Ins[tx] \subseteq Coins /\ Ins[tx] \cap InsOf(T) = {}
      BY <1>7, <2>5, PaymentApplied
    <2>7. PICK C : C = A \cup {tx}  OBVIOUS
    <2>8. InsOf(C) = InsOf(A) \cup Ins[tx] /\ InsOf(T) = InsOf(P) \cup InsOf(A)
      <3>1. InsOf({tx}) = Ins[tx]  BY DEF InsOf
      <3> QED  BY <2>4, <2>7, <3>1, Together
    <2>9. C \in SUBSET Txs /\ InsOf(C) \subseteq Coins /\ InsOf(C) \cap InsOf(P) = {}
      BY <1>7, <2>1, <2>2, <2>6, <2>7, <2>8
    <2>10. utxo' = Unspent(P \cup C)
      <3>1. T \cup {tx} = P \cup C  BY <2>4, <2>7
      <3> QED  BY <1>2, <2>1, <2>2, <2>4, <2>6, <3>1
    <2>11. ToSet(b[h]) = C \cup ToSet(Tail(left))  BY <1>7, <2>1, <2>7
    <2>12. PartApplied'
      BY <1>1, <1>2, <1>5, <2>1, <2>2, <2>9, <2>10, <2>11 DEF PartApplied
    <2>13. ASSUME Tail(left) = <<>>
           PROVE  Sound(b, job.at) /\ utxo' = Unspent(PaidBy(b, job.at))
      <3>1. ToSet(<<>>) = {}  BY DEF ToSet
      <3>2. ToSet(b[h]) = C  BY <2>11, <2>13, <3>1
      <3>3. PaidBy(b, Append(p, h)) = PaidBy(b, p) \cup ToSet(b[h])  BY PaidByMore
      <3>4. Sound(b, Append(p, h))  BY <2>1, <2>2, <2>9, <3>2, SoundMore
      <3> QED  BY <2>1, <2>2, <2>10, <3>2, <3>3, <3>4
    <2> QED  BY <2>12, <2>13
  <1> QED  BY <1>1, <1>2, <1>5, <1>6, <1>8, <1>9 DEF OutputsInv

(* The call returns.                                                         *)
LEMMA EndOutputs ==
  ASSUME OutputsInv, RefuseTx \/ EndAdd
  PROVE  OutputsInv'
  <1>1. CASE RefuseTx  BY <1>1 DEF RefuseTx, OutputsInv
  <1>2. CASE EndAdd
    <2>1. job # NoJob /\ job.left = <<>> /\ chain' = job.at /\ job' = NoJob
          /\ UNCHANGED <<utxo, body, intact>>
      BY <1>2 DEF EndAdd
    <2>2. NoJob.left = <<>>  BY DEF NoJob
    <2> QED  BY <2>1, <2>2 DEF OutputsInv
  <1> QED  BY <1>1, <1>2

(* Every step keeps the outputs.                                             *)
LEMMA NextOutputs ==
  ASSUME Unchained
  PROVE  TypeInv /\ KeepInv /\ OutputsInv /\ [Next]_vars => OutputsInv'
  <1> SUFFICES ASSUME TypeInv, KeepInv, OutputsInv, [Next]_vars PROVE OutputsInv'
    OBVIOUS
  <1>1. CASE (PoolNext \/ \E tx \in Txs : Expire(tx)) /\ UNCHANGED <<chainVars, miner>>
    <2>1. UNCHANGED utxo
      BY <1>1 DEF PoolNext, Submit, InputsFound, InputsMissing, Insert, Expire
    <2> QED  BY <1>1, <2>1, OutputsStay DEF chainVars
  <1>2. ASSUME NEW h \in Hashes, PeerBlock(h) \/ MineBlock(h) PROVE OutputsInv'
    <2>1. h \notin Found /\ UNCHANGED <<utxo, chain, job, intact>>
          /\ \E txs : body' = [body EXCEPT ![h] = txs]
      BY <1>2 DEF PeerBlock, MineBlock
    <2>2. \A g \in Found : body'[g] = body[g]
      BY <2>1 DEF TypeInv, ChainTypeOK, Found
    <2> QED  BY <2>1, <2>2, FoundOutputs
  <1>3. ASSUME NEW h \in Hashes, AddPeerBlock(h) PROVE OutputsInv'
    <2>1. (BeginAdd(h, FALSE) \/ StoreOnly(h)) /\ UNCHANGED body
      BY <1>3 DEF AddPeerBlock
    <2> QED  BY <2>1, AddOutputs
  <1>4. CASE AddOwn
    <2>1. PICK h : h = miner.block  OBVIOUS
    <2>2. miner.at = "add" /\ (BeginAdd(h, TRUE) \/ StoreOnly(h)) /\ UNCHANGED body
      BY <1>4, <2>1 DEF AddOwn
    <2>3. h \in Hashes  BY <2>1, <2>2 DEF TypeInv, MinerTypeOK, Found
    <2> QED  BY <2>2, <2>3, AddOutputs
  <1>5. CASE UndoBlock \/ BeginBlock \/ ApplyTx \/ RefuseTx \/ EndAdd
    BY <1>5, UndoOutputs, BeginOutputs, ApplyOutputs, EndOutputs
  <1>6. CASE TakeTip \/ TakePool \/ CheckFee \/ ClearOwn
    <2>1. UNCHANGED <<utxo, chainVars>>
      BY <1>6 DEF TakeTip, TakePool, CheckFee, ClearOwn
    <2> QED  BY <2>1, OutputsStay DEF chainVars
  <1>7. CASE UNCHANGED vars
    BY <1>7, OutputsStay DEF vars, chainVars
  <1> QED
    BY <1>1, <1>2, <1>3, <1>4, <1>5, <1>6, <1>7 DEF Next

(* The paths and the outputs in every run.                                   *)
LEMMA InitKept == Init => KeepInv
  <1> SUFFICES ASSUME Init PROVE KeepInv
    OBVIOUS
  <1>1. ToSet(<<>>) = {}  BY DEF ToSet
  <1>2. Found = {}  BY DEF Init, Found
  <1>3. chain = <<>> /\ job.at = <<>> /\ job.left = <<>> /\ miner.prev = <<>>
    BY DEF Init, NoJob, Resting
  <1> QED  BY <1>1, <1>2, <1>3 DEF KeepInv

(***************************************************************************)
(* Whenever no call of AddBlock is under way, the outputs are those of the *)
(* main chain, through any interleaving of peers' blocks, own blocks and   *)
(* reorganisations (RollbackBlock and ProcessBlock, block by block), until *)
(* a first block is refused half way.  A block that spends an output of    *)
(* its own cannot be undone, hence Unchained.                              *)
(***************************************************************************)
THEOREM OutputsFollowChain == Unchained => (Spec => []OutputsMatchChain)
  <1> SUFFICES ASSUME Unchained PROVE Spec => []OutputsMatchChain
    OBVIOUS
  <1>1. OutputsInv => OutputsMatchChain
    BY ReplayIsUnspent DEF OutputsInv, OutputsMatchChain
  <1>2. Init => OutputsInv  BY InitOutputs
  <1>3. TypeInv /\ KeepInv /\ OutputsInv /\ [Next]_vars => OutputsInv'  BY NextOutputs
  <1> QED  BY InitTypes, InitKept, NextTypes, NextKept, <1>1, <1>2, <1>3, PTL DEF Spec

-----------------------------------------------------------------------------
(* The tip only improves, and what is applied onto it fits.                  *)

(* A chain the node leaves for another: less work, or as much and a higher   *)
(* hash at the tip.                                                          *)
Worse(p, q) ==
  \/ Len(p) < Len(q)
  \/ Len(p) = Len(q) /\ Len(p) >= 1 /\ Last(q) < Last(p)

(* Each payment finds its inputs, whatever the order, and none comes twice.  *)
Fits(u, txs) ==
  \A i \in DOMAIN txs : /\ Ins[txs[i]] \subseteq u
                        /\ \A j \in DOMAIN txs : i # j => txs[i] # txs[j]

(* What is being added beats the tip, and fits if it extends it.             *)
ApplyInv ==
  /\ job # NoJob => Worse(chain, path[job.block])
  /\ intact /\ job # NoJob /\ Extends(job.block) =>
       \/ job.at = chain /\ job.left = <<>> /\ Fits(utxo, body[job.block])
       \/ job.at = path[job.block] /\ Fits(utxo, job.left)

(* Blocks of peers are valid where they were found.                          *)
PeerInv ==
  \A h \in Found \ stored :
    \/ miner.at = "add" /\ h = miner.block
    \/ ValidOn(Unspent(PaidBy(body, Front(path[h]))), body[h])

(* A template is one for the tip and fits it, unless a call of AddBlock is   *)
(* under way, or the tip has improved since it was read.                     *)
TemplateInv ==
  /\ miner.at \in {"pool", "fees", "add"} =>
       /\ miner.prev = chain \/ Worse(miner.prev, chain)
       /\ miner.prev = chain /\ intact /\ job = NoJob => Fits(utxo, miner.txs)
  /\ miner.at = "pool" => miner.txs = <<>>
  /\ miner.at = "fees" => miner.todo \cap ToSet(miner.txs) = {}
  /\ miner.at = "add" => /\ path[miner.block] = Append(miner.prev, miner.block)
                         /\ body[miner.block] = miner.txs

MineInv == ApplyInv /\ PeerInv /\ TemplateInv

(* A call for the miner's own block keeps the miner in AddBlock.             *)
OwnInv == job.own => miner.at = "adding"

(* The order of chains.                                                      *)
LEMMA WorseIsStrict ==
  ASSUME NEW p \in Seq(Hashes)
  PROVE  /\ ~Worse(p, p)
         /\ \A q, r \in Seq(Hashes) : Worse(p, q) /\ Worse(q, r) => Worse(p, r)
  <1>1. ASSUME NEW s \in Seq(Hashes) PROVE Len(s) \in Nat /\ (Len(s) >= 1 => Last(s) \in Nat)
    <2>1. Len(s) \in Nat  OBVIOUS
    <2>2. ASSUME Len(s) >= 1 PROVE Last(s) \in Nat
      <3>1. Len(s) \in 1..Len(s)  BY <2>1, <2>2
      <3>2. s[Len(s)] \in Hashes  BY <3>1
      <3> QED  BY <3>2, MinerAssumption DEF Last
    <2> QED  BY <2>1, <2>2
  <1>2. ~Worse(p, p)  BY <1>1 DEF Worse
  <1>3. ASSUME NEW q \in Seq(Hashes), NEW r \in Seq(Hashes), Worse(p, q), Worse(q, r)
        PROVE  Worse(p, r)
    <2>1. /\ Len(p) \in Nat /\ (Len(p) >= 1 => Last(p) \in Nat)
          /\ Len(q) \in Nat /\ (Len(q) >= 1 => Last(q) \in Nat)
          /\ Len(r) \in Nat /\ (Len(r) >= 1 => Last(r) \in Nat)
      BY <1>1
    <2>2. PICK lp, lq, lr : lp = Len(p) /\ lq = Len(q) /\ lr = Len(r)  OBVIOUS
    <2>3. PICK ep, eq, er : ep = Last(p) /\ eq = Last(q) /\ er = Last(r)  OBVIOUS
    <2>4. lp < lq \/ (lp = lq /\ lp >= 1 /\ eq < ep)  BY <1>3, <2>2, <2>3 DEF Worse
    <2>5. lq < lr \/ (lq = lr /\ lq >= 1 /\ er < eq)  BY <1>3, <2>2, <2>3 DEF Worse
    <2>6. lp < lr \/ (lp = lr /\ lp >= 1 /\ er < ep)  BY <2>1, <2>2, <2>3, <2>4, <2>5
    <2> QED  BY <2>2, <2>3, <2>6 DEF Worse
  <1> QED  BY <1>2, <1>3

(* The path through a block ends in it.                                      *)
LEMMA PathShape ==
  ASSUME TypeInv, KeepInv, NEW h \in Found
  PROVE  /\ path[h] \in Seq(Hashes) /\ h \in Hashes
         /\ Front(path[h]) \in Seq(Hashes) /\ path[h] = Append(Front(path[h]), h)
         /\ ToSet(Front(path[h])) \subseteq Found
  <1>1. PICK q : q = path[h]  OBVIOUS
  <1>2. q \in Seq(Hashes) /\ q # <<>> /\ h \in Hashes /\ Last(q) = h /\ ToSet(q) \subseteq Found
    BY <1>1 DEF TypeInv, ChainTypeOK, Found, KeepInv
  <1>3. PICK p \in Seq(Hashes), g \in Hashes : q = Append(p, g)
    BY <1>2, SequenceEmptyOrAppend
  <1>4. Front(q) = p /\ Last(q) = g /\ ToSet(q) = ToSet(p) \cup {g}  BY <1>3, PaidByMore
  <1> QED  BY <1>1, <1>2, <1>3, <1>4

(* A block that extends the tip has one element more.                        *)
LEMMA ExtensionShape ==
  ASSUME NEW p \in Seq(Hashes), NEW h \in Hashes, NEW q, q = Append(p, h)
  PROVE  /\ Worse(p, q) /\ IsPrefix(p, q) /\ IsPrefix(q, q) /\ q # p /\ q[Len(p) + 1] = h
  <1>1. PICK n \in Nat : n = Len(p)  OBVIOUS
  <1>2. q \in Seq(Hashes) /\ Len(q) = n + 1 /\ q[n + 1] = h /\ \A i \in 1..n : q[i] = p[i]
    BY <1>1, AppendProperties
  <1>3. Worse(p, q)  BY <1>1, <1>2 DEF Worse
  <1>4. q # p  BY <1>1, <1>2
  <1>5. IsPrefix(q, q)  BY <1>2 DEF IsPrefix
  <1>6. IsPrefix(p, q)
    <2>1. PICK s, t : s = SubSeq(p, 1, n) /\ t = SubSeq(q, 1, n)  OBVIOUS
    <2>2. s \in Seq(Hashes) /\ Len(s) = n /\ \A i \in 1..n : s[i] = p[i]  BY <1>1, <2>1
    <2>3. t \in Seq(Hashes) /\ Len(t) = n /\ \A i \in 1..n : t[i] = q[i]  BY <1>2, <2>1
    <2>4. \A i \in 1..n : s[i] = t[i]  BY <1>2, <2>2, <2>3
    <2>5. s = t  BY <2>2, <2>3, <2>4, SeqEqual
    <2> QED  BY <1>1, <1>2, <2>1, <2>5 DEF IsPrefix
  <1> QED  BY <1>1, <1>2, <1>3, <1>4, <1>5, <1>6

(* A valid list of payments that do not chain fits in any order.             *)
LEMMA ValidFits ==
  ASSUME Unchained, NEW u, NEW txs \in Seq(Txs), ValidOn(u, txs)
  PROVE  Fits(u, txs)
  <1>1. PICK n \in Nat : n = Len(txs) /\ DOMAIN txs = 1..n  OBVIOUS
  <1>2. \A i \in 1..n : txs[i] \in Txs  BY <1>1
  <1>3. ASSUME NEW i \in 1..n
        PROVE  /\ Ins[txs[i]] \subseteq u
               /\ \A j \in 1..(i - 1) : Ins[txs[i]] \cap Ins[txs[j]] = {}
    <2>1. PICK B : B = {txs[j] : j \in 1..(i - 1)}  OBVIOUS
    <2>2. Ins[txs[i]] \subseteq (u \cup UNION {Creates[tx] : tx \in B}) \ UNION {Ins[tx] : tx \in B}
      BY <1>1, <2>1 DEF ValidOn
    <2>3. ASSUME NEW j \in 1..(i - 1) PROVE j \in 1..n /\ txs[j] \in B
      BY <1>1, <2>1
    <2>4. B \subseteq Txs  BY <1>2, <2>1, <2>3
    <2>5. Ins[txs[i]] \cap UNION {Creates[tx] : tx \in B} = {}  BY <1>2, <2>4 DEF Unchained
    <2> QED  BY <2>2, <2>3, <2>5
  <1>4. ASSUME NEW i \in 1..n, NEW j \in 1..n, i # j PROVE txs[i] # txs[j]
    <2>1. ASSUME NEW k \in 1..n, NEW m \in 1..n, m < k PROVE txs[k] # txs[m]
      <3>1. m \in 1..(k - 1)  BY <1>1, <2>1
      <3>2. Ins[txs[k]] \cap Ins[txs[m]] = {}  BY <1>3, <3>1
      <3>3. Ins[txs[k]] # {}  BY <1>2, PoolAssumption
      <3> QED  BY <3>2, <3>3
    <2>2. i < j \/ j < i  BY <1>1, <1>4
    <2> QED  BY <2>1, <2>2
  <1> QED  BY <1>1, <1>3, <1>4 DEF Fits


(* What the steps below cite of the types and the paths.                     *)
LEMMA Shapes ==
  ASSUME TypeInv
  PROVE  /\ chain \in Seq(Hashes) /\ stored \subseteq Found /\ Found \subseteq Hashes
         /\ miner.prev \in Seq(Hashes) /\ miner.txs \in Seq(Txs) /\ miner.todo \subseteq Txs
         /\ job.at \in Seq(Hashes) /\ job.left \in Seq(Txs)
         /\ job # NoJob => job.block \in stored /\ job.block \in Found
         /\ miner.at = "add" => miner.block \in Found
         /\ \A h \in Found : body[h] \in Seq(Txs)
  BY DEF TypeInv, ChainTypeOK, JobTypeOK, MinerTypeOK, Found

(* The invariant, when a call of AddBlock is not touched.                    *)
LEMMA ApplyStays ==
  ASSUME TypeInv, ApplyInv, UNCHANGED <<utxo, chain, job, intact>>,
         \A h \in Found : path'[h] = path[h] /\ body'[h] = body[h]
  PROVE  ApplyInv'
  <1>1. job # NoJob => path'[job.block] = path[job.block] /\ body'[job.block] = body[job.block]
    BY Shapes
  <1> QED  BY <1>1 DEF ApplyInv, Extends

(* Peers' blocks stay valid where they were found: what they build on never  *)
(* changes.                                                                  *)
LEMMA ValidStays ==
  ASSUME TypeInv, KeepInv, NEW h \in Found,
         \A g \in Found : path'[g] = path[g] /\ body'[g] = body[g],
         ValidOn(Unspent(PaidBy(body, Front(path[h]))), body[h])
  PROVE  ValidOn(Unspent(PaidBy(body', Front(path'[h]))), body'[h])
  <1>1. PICK b, c, p : b = body /\ c = body' /\ p = Front(path[h])  OBVIOUS
  <1>2. ToSet(p) \subseteq Found /\ \A g \in Found : c[g] = b[g]  BY <1>1, PathShape
  <1>3. PaidBy(c, p) = PaidBy(b, p)  BY <1>2, SameBodies
  <1>4. Front(path'[h]) = p /\ c[h] = b[h]  BY <1>1
  <1> QED  BY <1>1, <1>3, <1>4

(* A peer's block is found.                                                  *)
LEMMA PeerMines ==
  ASSUME TypeInv, KeepInv, MineInv, NEW h \in Hashes, PeerBlock(h)
  PROVE  MineInv'
  <1>1. PICK p \in {<<>>} \cup {path[g] : g \in stored}, txs \in PeerBodies :
          /\ ValidOn(Replay(p), txs)
          /\ path' = [path EXCEPT ![h] = Append(p, h)]
          /\ body' = [body EXCEPT ![h] = txs]
    BY DEF PeerBlock
  <1>2. h \notin Found /\ UNCHANGED <<utxo, stored, chain, job, intact, miner>>  BY DEF PeerBlock
  <1>3. p \in Seq(Hashes) /\ ToSet(p) \subseteq Found
    <2>1. stored \subseteq Found /\ path \in [Hashes -> Seq(Hashes)] /\ Found \subseteq Hashes
      BY DEF TypeInv, ChainTypeOK, Found
    <2>2. <<>> \in Seq(Hashes)  OBVIOUS
    <2>3. ToSet(<<>>) = {}  BY DEF ToSet
    <2> QED  BY <2>1, <2>2, <2>3 DEF KeepInv
  <1>4. txs \in Seq(Txs)  BY MinerAssumption
  <1>5. /\ path'[h] = Append(p, h) /\ body'[h] = txs /\ Found' = Found \cup {h}
        /\ \A g \in Found : path'[g] = path[g] /\ body'[g] = body[g]
    BY <1>1, <1>2, <1>3, <1>4, FoundGrows
  <1>6. ApplyInv'  BY <1>2, <1>5, ApplyStays DEF MineInv
  <1>7. PeerInv'
    <2>1. ValidOn(Unspent(PaidBy(body', Front(path'[h]))), body'[h])
      <3>1. PICK b, c, S : b = body /\ c = body' /\ S = Found  OBVIOUS
      <3>2. \A g \in S : c[g] = b[g]  BY <1>5, <3>1
      <3>3. PaidBy(c, p) = PaidBy(b, p)
        <4>1. PICK q : q = p  OBVIOUS
        <4>2. ToSet(q) \subseteq S  BY <1>3, <3>1, <4>1
        <4>3. PaidBy(c, q) = PaidBy(b, q)  BY <3>2, <4>2, SameBodies
        <4> QED  BY <4>1, <4>3
      <3>4. Replay(p) = Unspent(PaidBy(b, p))  BY <3>1, ReplayIsUnspent
      <3>5. Front(path'[h]) = p  BY <1>3, <1>5, PaidByMore
      <3> QED  BY <1>1, <1>5, <3>1, <3>3, <3>4, <3>5
    <2>2. ASSUME NEW g \in Found \ stored
          PROVE  \/ miner'.at = "add" /\ g = miner'.block
                 \/ ValidOn(Unspent(PaidBy(body', Front(path'[g]))), body'[g])
      <3>1. CASE miner.at = "add" /\ g = miner.block  BY <1>2, <3>1
      <3>2. CASE ValidOn(Unspent(PaidBy(body, Front(path[g]))), body[g])
        BY <1>5, <3>2, ValidStays
      <3> QED  BY <3>1, <3>2 DEF MineInv, PeerInv
    <2> QED  BY <1>2, <1>5, <2>1, <2>2 DEF PeerInv
  <1>8. TemplateInv'
    <2>1. miner.at = "add" => /\ path'[miner.block] = path[miner.block]
                              /\ body'[miner.block] = body[miner.block]
      BY <1>5, Shapes
    <2> QED  BY <1>2, <2>1 DEF MineInv, TemplateInv
  <1> QED  BY <1>6, <1>7, <1>8 DEF MineInv

(* The miner finds a block for its template.                                 *)
LEMMA MinerMines ==
  ASSUME TypeInv, KeepInv, MineInv, NEW h \in Hashes, MineBlock(h)
  PROVE  MineInv'
  <1>1. PICK p, txs : p = miner.prev /\ txs = miner.txs  OBVIOUS
  <1>2. /\ miner.at = "fees" /\ h \notin Found
        /\ path' = [path EXCEPT ![h] = Append(p, h)] /\ body' = [body EXCEPT ![h] = txs]
        /\ miner' = [miner EXCEPT !.at = "add", !.block = h]
        /\ UNCHANGED <<utxo, stored, chain, job, intact>>
    BY <1>1 DEF MineBlock
  <1>3. p \in Seq(Hashes) /\ txs \in Seq(Txs)  BY <1>1, Shapes
  <1>4. /\ path'[h] = Append(p, h) /\ body'[h] = txs /\ Found' = Found \cup {h}
        /\ \A g \in Found : path'[g] = path[g] /\ body'[g] = body[g]
    BY <1>2, <1>3, FoundGrows
  <1>5. /\ miner'.at = "add" /\ miner'.block = h
        /\ miner'.prev = miner.prev /\ miner'.txs = miner.txs
    BY <1>2 DEF TypeInv, MinerTypeOK
  <1>6. ApplyInv'  BY <1>2, <1>4, ApplyStays DEF MineInv
  <1>7. PeerInv'
    <2>1. ASSUME NEW g \in Found \ stored
          PROVE  ValidOn(Unspent(PaidBy(body', Front(path'[g]))), body'[g])
      <3>1. ValidOn(Unspent(PaidBy(body, Front(path[g]))), body[g])
        BY <1>2 DEF MineInv, PeerInv
      <3> QED  BY <1>4, <3>1, ValidStays
    <2> QED  BY <1>2, <1>4, <1>5, <2>1 DEF PeerInv
  <1>8. TemplateInv'
    BY <1>1, <1>2, <1>4, <1>5 DEF MineInv, TemplateInv
  <1> QED  BY <1>6, <1>7, <1>8 DEF MineInv

(* A block is added that fits the tip, if it extends it.                     *)
LEMMA AddedFits ==
  ASSUME TypeInv, KeepInv, OutputsInv, ApplyInv, NEW h \in Found, NEW own, BeginAdd(h, own) \/ StoreOnly(h),
         UNCHANGED <<path, body>>,
         intact /\ job = NoJob /\ Extends(h) => Fits(utxo, body[h])
  PROVE  /\ ApplyInv' /\ UNCHANGED <<utxo, chain, intact>> /\ stored' = stored \cup {h}
         /\ job' = NoJob => job = NoJob
  <1>1. UNCHANGED <<utxo, chain, intact>> /\ stored' = stored \cup {h} /\ job = NoJob
    BY DEF BeginAdd, StoreOnly
  <1>2. CASE StoreOnly(h)
    <2>1. job' = job  BY <1>2 DEF StoreOnly
    <2> QED  BY <1>1, <2>1, ApplyStays
  <1>3. CASE BeginAdd(h, own)
    <2>1. job' = [block |-> h, at |-> chain, left |-> <<>>, own |-> own] /\ (Extends(h) \/ Preferred(h))
      BY <1>3 DEF BeginAdd
    <2>2. job'.block = h /\ job'.at = chain /\ job'.left = <<>>  BY <2>1
    <2>3. Worse(chain, path[h])
      <3>1. PICK q, p : q = path[h] /\ p = Front(path[h])  OBVIOUS
      <3>2. q \in Seq(Hashes) /\ h \in Hashes /\ p \in Seq(Hashes) /\ q = Append(p, h)
        BY <3>1, PathShape
      <3>3. CASE Extends(h)
        <4>1. p = chain  BY <3>1, <3>3 DEF Extends
        <4> QED  BY <3>1, <3>2, <4>1, ExtensionShape
      <3>4. CASE Preferred(h)
        <4>1. PICK c : c = chain  OBVIOUS
        <4>2. Len(q) > Len(c) \/ (Len(q) = Len(c) /\ h < Last(c))
          BY <3>1, <3>4, <4>1 DEF Preferred
        <4>3. Last(q) = h /\ Len(q) >= 1 /\ Len(q) \in Nat
          <5>1. Last(q) = h  BY <3>2, PaidByMore
          <5>2. Len(q) = Len(p) + 1 /\ Len(p) \in Nat  BY <3>2, AppendProperties
          <5> QED  BY <5>1, <5>2
        <4>4. Len(c) \in Nat  BY <4>1, Shapes
        <4> QED  BY <3>1, <4>1, <4>2, <4>3, <4>4 DEF Worse
      <3> QED  BY <2>1, <3>3, <3>4
    <2>4. ApplyInv'  BY <1>1, <2>2, <2>3 DEF ApplyInv, Extends
    <2> QED  BY <1>1, <2>4
  <1> QED  BY <1>2, <1>3

(* The template, when a block is added that is not its own.                  *)
LEMMA TemplateStays ==
  ASSUME TemplateInv, UNCHANGED <<utxo, chain, intact, path, body, miner>>,
         job' = NoJob => job = NoJob
  PROVE  TemplateInv'
  BY DEF TemplateInv

(* The node adds a peer's block: it is valid on the outputs of its parent.   *)
LEMMA PeerAdds ==
  ASSUME Unchained, TypeInv, KeepInv, OutputsInv, MineInv, NEW h \in Hashes, AddPeerBlock(h)
  PROVE  MineInv'
  <1>1. /\ h \in Found \ stored /\ h # miner.block /\ UNCHANGED <<path, body, miner>>
        /\ BeginAdd(h, FALSE) \/ StoreOnly(h)
    BY DEF AddPeerBlock
  <1>2. intact /\ job = NoJob /\ Extends(h) => Fits(utxo, body[h])
    <2> SUFFICES ASSUME intact, job = NoJob, Extends(h) PROVE Fits(utxo, body[h])
      OBVIOUS
    <2>1. ValidOn(Unspent(PaidBy(body, Front(path[h]))), body[h])
      BY <1>1 DEF MineInv, PeerInv
    <2>2. utxo = Unspent(PaidBy(body, chain))  BY DEF OutputsInv
    <2>3. PICK u, txs : u = utxo /\ txs = body[h]  OBVIOUS
    <2>4. ValidOn(u, txs)  BY <2>1, <2>2, <2>3 DEF Extends
    <2>5. txs \in Seq(Txs)  BY <1>1, <2>3, Shapes
    <2> QED  BY <2>3, <2>4, <2>5, ValidFits
  <1>3. /\ ApplyInv' /\ UNCHANGED <<utxo, chain, intact>> /\ stored' = stored \cup {h}
        /\ job' = NoJob => job = NoJob
    BY <1>1, <1>2, AddedFits DEF MineInv
  <1>4. PeerInv'
    <2>1. Found' = Found  BY <1>1 DEF Found
    <2> QED  BY <1>1, <1>3, <2>1 DEF MineInv, PeerInv
  <1>5. TemplateInv'  BY <1>1, <1>3, TemplateStays DEF MineInv
  <1> QED  BY <1>3, <1>4, <1>5 DEF MineInv

(* The miner adds its own block: if it extends the tip, the tip is still the *)
(* one it was made for, and no call has touched the outputs since.           *)
LEMMA MinerAdds ==
  ASSUME TypeInv, KeepInv, OutputsInv, MineInv, AddOwn
  PROVE  MineInv'
  <1>1. PICK h : h = miner.block  OBVIOUS
  <1>2. /\ miner.at = "add" /\ UNCHANGED <<path, body>> /\ (BeginAdd(h, TRUE) \/ StoreOnly(h))
        /\ miner' \in {[miner EXCEPT !.at = "adding"], [miner EXCEPT !.at = "clear"]}
    BY <1>1 DEF AddOwn
  <1>3. h \in Found  BY <1>1, <1>2, Shapes
  <1>4. intact /\ job = NoJob /\ Extends(h) => Fits(utxo, body[h])
    <2> SUFFICES ASSUME intact, job = NoJob, Extends(h) PROVE Fits(utxo, body[h])
      OBVIOUS
    <2>1. PICK p, c : p = miner.prev /\ c = chain  OBVIOUS
    <2>2. p \in Seq(Hashes) /\ c \in Seq(Hashes) /\ h \in Hashes  BY <1>3, <2>1, Shapes
    <2>3. path[h] = Append(p, h) /\ body[h] = miner.txs
      BY <1>1, <1>2, <2>1 DEF MineInv, TemplateInv
    <2>4. Front(path[h]) = p  BY <2>2, <2>3, PaidByMore
    <2>5. p = c  BY <2>1, <2>4 DEF Extends
    <2> QED  BY <1>2, <2>1, <2>3, <2>5 DEF MineInv, TemplateInv
  <1>5. /\ ApplyInv' /\ UNCHANGED <<utxo, chain, intact>> /\ stored' = stored \cup {h}
    BY <1>2, <1>3, <1>4, AddedFits DEF MineInv
  <1>6. PeerInv'
    <2>1. Found' = Found  BY <1>2 DEF Found
    <2> QED  BY <1>1, <1>2, <1>5, <2>1 DEF MineInv, PeerInv
  <1>7. TemplateInv'
    <2>1. miner'.at \in {"adding", "clear"}  BY <1>2 DEF TypeInv, MinerTypeOK
    <2> QED  BY <2>1 DEF TemplateInv
  <1> QED  BY <1>5, <1>6, <1>7 DEF MineInv

(* A block that extends the tip is not undone to but applied.                *)
LEMMA UndoMines ==
  ASSUME TypeInv, KeepInv, MineInv, UndoBlock
  PROVE  MineInv'
  <1>1. PICK at : at = job.at  OBVIOUS
  <1>2. /\ job # NoJob /\ ~IsPrefix(at, path[job.block])
        /\ job' = [job EXCEPT !.at = Front(at)] /\ UNCHANGED <<path, body, stored, chain, intact, miner>>
    BY <1>1 DEF UndoBlock
  <1>3. job'.block = job.block /\ job.block \in Found
    BY <1>2, Shapes DEF TypeInv, JobTypeOK
  <1>4. job' # NoJob
    <2>1. job.block \in Hashes /\ 0 \notin Hashes  BY <1>3, MinerAssumption DEF Found
    <2> QED  BY <1>3, <2>1 DEF NoJob
  <1>5. ~(intact /\ Extends(job.block))
    <2> SUFFICES ASSUME intact, Extends(job.block) PROVE FALSE
      OBVIOUS
    <2>1. PICK h, p, q : h = job.block /\ p = Front(path[h]) /\ q = path[h]  OBVIOUS
    <2>2. p \in Seq(Hashes) /\ h \in Hashes /\ q = Append(p, h)  BY <1>3, <2>1, PathShape
    <2>3. IsPrefix(p, q) /\ IsPrefix(q, q)  BY <2>2, ExtensionShape
    <2>4. at = p \/ at = q  BY <1>1, <1>2, <2>1 DEF MineInv, ApplyInv, Extends
    <2> QED  BY <1>2, <2>1, <2>3, <2>4
  <1>6. ApplyInv'  BY <1>2, <1>3, <1>4, <1>5 DEF MineInv, ApplyInv, Extends
  <1>7. PeerInv'
    <2>1. Found' = Found  BY <1>2 DEF Found
    <2> QED  BY <1>2, <2>1 DEF MineInv, PeerInv
  <1>8. TemplateInv'  BY <1>2, <1>4 DEF MineInv, TemplateInv
  <1> QED  BY <1>6, <1>7, <1>8 DEF MineInv

(* The one block that extends the tip is begun.                              *)
LEMMA BeginMines ==
  ASSUME TypeInv, KeepInv, MineInv, BeginBlock
  PROVE  MineInv'
  <1>1. PICK at, g : at = job.at /\ g = path[job.block][Len(job.at) + 1]  OBVIOUS
  <1>2. /\ job # NoJob /\ at # path[job.block]
        /\ job' = [job EXCEPT !.at = Append(@, g), !.left = body[g]]
        /\ UNCHANGED <<utxo, path, body, stored, chain, intact, miner>>
    BY <1>1 DEF BeginBlock, IsStrictPrefix
  <1>3. job.block \in Found /\ at \in Seq(Hashes)  BY <1>1, <1>2, Shapes
  <1>4. PICK at2, txs : at2 = Append(at, g) /\ txs = body[g]  OBVIOUS
  <1>5. job'.block = job.block /\ job'.at = at2 /\ job'.left = txs
    BY <1>1, <1>2, <1>4 DEF TypeInv, JobTypeOK
  <1>6. job' # NoJob
    <2>1. job.block \in Hashes /\ 0 \notin Hashes  BY <1>3, MinerAssumption DEF Found
    <2> QED  BY <1>5, <2>1 DEF NoJob
  <1>7. intact /\ Extends(job.block) => at2 = path[job.block] /\ Fits(utxo, txs)
    <2> SUFFICES ASSUME intact, Extends(job.block) PROVE at2 = path[job.block] /\ Fits(utxo, txs)
      OBVIOUS
    <2>1. PICK h, p, q : h = job.block /\ p = Front(path[h]) /\ q = path[h]  OBVIOUS
    <2>2. p \in Seq(Hashes) /\ h \in Hashes /\ q = Append(p, h)  BY <1>3, <2>1, PathShape
    <2>3. at = p /\ Fits(utxo, body[h])
      BY <1>1, <1>2, <2>1 DEF MineInv, ApplyInv, Extends
    <2>4. q[Len(p) + 1] = h  BY <2>2, ExtensionShape
    <2>5. g = h  BY <1>1, <2>1, <2>3, <2>4
    <2> QED  BY <1>4, <2>1, <2>2, <2>3, <2>5
  <1>8. ApplyInv'  BY <1>2, <1>5, <1>6, <1>7 DEF MineInv, ApplyInv, Extends
  <1>9. PeerInv'
    <2>1. Found' = Found  BY <1>2 DEF Found
    <2> QED  BY <1>2, <2>1 DEF MineInv, PeerInv
  <1>10. TemplateInv'  BY <1>2, <1>6 DEF MineInv, TemplateInv
  <1> QED  BY <1>8, <1>9, <1>10 DEF MineInv

(* A payment is applied: the others spend something else.                    *)
LEMMA ApplyMines ==
  ASSUME Unconflicting, TypeInv, KeepInv, MineInv, ApplyTx
  PROVE  MineInv'
  <1>1. PICK left, tx, t : left = job.left /\ tx = Head(job.left) /\ t = Tail(job.left)  OBVIOUS
  <1>2. /\ left # <<>> /\ utxo' = (utxo \ Ins[tx]) \cup Creates[tx]
        /\ job' = [job EXCEPT !.left = t]
        /\ UNCHANGED <<path, body, stored, chain, intact, miner>>
    BY <1>1 DEF ApplyTx
  <1>3. left \in Seq(Txs) /\ job # NoJob  BY <1>1, <1>2, Shapes DEF NoJob
  <1>4. job.block \in Found  BY <1>3, Shapes
  <1>5. job'.at = job.at /\ job'.left = t /\ job'.block = job.block
    BY <1>2 DEF TypeInv, JobTypeOK
  <1>6. job' # NoJob
    <2>1. job.block \in Hashes /\ 0 \notin Hashes  BY <1>4, MinerAssumption DEF Found
    <2> QED  BY <1>5, <2>1 DEF NoJob
  <1>7. ASSUME Fits(utxo, left) PROVE Fits(utxo', t)
    <2>1. /\ t \in Seq(Txs) /\ tx \in Txs /\ Len(t) = Len(left) - 1
          /\ \A i \in 1..Len(t) : t[i] = left[i + 1]
      BY <1>1, <1>2, <1>3, HeadTailProperties
    <2>2. PICK n \in Nat : n = Len(t)  BY <2>1
    <2>3. DOMAIN t = 1..n /\ DOMAIN left = 1..(n + 1) /\ tx = left[1]
      BY <1>1, <1>2, <1>3, <2>1, <2>2
    <2>4. ASSUME NEW i \in 1..n
          PROVE  Ins[t[i]] \subseteq utxo' /\ \A j \in 1..n : i # j => t[i] # t[j]
      <3>1. i + 1 \in 1..(n + 1) /\ i + 1 # 1 /\ 1 \in 1..(n + 1) /\ t[i] = left[i + 1]
        BY <2>1, <2>2
      <3>2. Ins[t[i]] \subseteq utxo /\ t[i] # tx  BY <1>7, <2>3, <3>1 DEF Fits
      <3>3. t[i] \in Txs  BY <2>1, <2>3
      <3>4. Ins[t[i]] \cap Ins[tx] = {}  BY <2>1, <3>2, <3>3 DEF Unconflicting
      <3>5. ASSUME NEW j \in 1..n, i # j PROVE t[i] # t[j]
        <4>1. j + 1 \in 1..(n + 1) /\ i + 1 # j + 1 /\ t[j] = left[j + 1]
          BY <2>1, <2>2, <3>5
        <4> QED  BY <1>7, <2>3, <3>1, <4>1 DEF Fits
      <3> QED  BY <1>2, <3>2, <3>4, <3>5
    <2> QED  BY <2>3, <2>4 DEF Fits
  <1>8. intact /\ Extends(job.block) => job.at = path[job.block] /\ Fits(utxo', t)
    BY <1>1, <1>2, <1>3, <1>7 DEF MineInv, ApplyInv
  <1>9. ApplyInv'  BY <1>2, <1>3, <1>5, <1>6, <1>8 DEF MineInv, ApplyInv, Extends
  <1>10. PeerInv'
    <2>1. Found' = Found  BY <1>2 DEF Found
    <2> QED  BY <1>2, <2>1 DEF MineInv, PeerInv
  <1>11. TemplateInv'  BY <1>2, <1>6 DEF MineInv, TemplateInv
  <1> QED  BY <1>9, <1>10, <1>11 DEF MineInv

(* The call returns: the tip is a better one, or a block was refused.        *)
LEMMA EndMines ==
  ASSUME TypeInv, KeepInv, MineInv, OwnInv, RefuseTx \/ EndAdd
  PROVE  MineInv'
  <1>1. job' = NoJob /\ job # NoJob /\ UNCHANGED <<utxo, path, body, stored>>
    BY DEF RefuseTx, EndAdd, NoJob
  <1>2. ApplyInv'  BY <1>1 DEF ApplyInv
  <1>3. miner' \in {miner, Resting, [miner EXCEPT !.at = "clear"]}
    BY DEF RefuseTx, EndAdd
  <1>4. miner' = miner \/ miner'.at \in {"idle", "clear"}
    <2>1. Resting.at = "idle"  BY DEF Resting
    <2>2. [miner EXCEPT !.at = "clear"].at = "clear"  BY DEF TypeInv, MinerTypeOK
    <2> QED  BY <1>3, <2>1, <2>2
  <1>5. miner.at = "add" => miner' = miner
    <2> SUFFICES ASSUME miner.at = "add", job.own PROVE FALSE
      BY DEF RefuseTx, EndAdd
    <2> QED  BY DEF OwnInv
  <1>6. PeerInv'
    <2>1. Found' = Found  BY <1>1 DEF Found
    <2> QED  BY <1>1, <1>5, <2>1 DEF MineInv, PeerInv
  <1>7. TemplateInv'
    <2>1. CASE miner'.at \in {"idle", "clear"}  BY <2>1 DEF TemplateInv
    <2>2. CASE miner' = miner /\ RefuseTx
      <3>1. chain' = chain /\ intact' = FALSE  BY <2>2 DEF RefuseTx
      <3> QED  BY <1>1, <2>2, <3>1 DEF MineInv, TemplateInv
    <2>3. CASE miner' = miner /\ EndAdd
      <3>1. chain' = path[job.block]  BY <2>3 DEF EndAdd
      <3>2. PICK p, q, r : p = miner.prev /\ q = chain /\ r = chain'  OBVIOUS
      <3>3. p \in Seq(Hashes) /\ q \in Seq(Hashes) /\ r \in Seq(Hashes)
        BY <1>1, <3>1, <3>2, Shapes, PathShape
      <3>4. Worse(q, r)  BY <1>1, <3>1, <3>2 DEF MineInv, ApplyInv
      <3>5. p = q \/ Worse(p, q) => Worse(p, r) /\ p # r
        BY <3>3, <3>4, WorseIsStrict
      <3> QED  BY <1>1, <2>3, <3>2, <3>5 DEF MineInv, TemplateInv
    <2> QED  BY <1>4, <2>1, <2>2, <2>3
  <1> QED  BY <1>2, <1>6, <1>7 DEF MineInv


(* The miner's and the pool's own steps: the outputs and the tip stay.       *)
LEMMA TipTaken ==
  ASSUME MineInv, TakeTip
  PROVE  TemplateInv'
  <1>1. miner' = [Resting EXCEPT !.at = "pool", !.prev = chain] /\ UNCHANGED chainVars
    BY DEF TakeTip
  <1>2. PICK p : p = chain  OBVIOUS
  <1>3. miner' = [at |-> "pool", prev |-> p, todo |-> {}, txs |-> <<>>, block |-> 0]
    BY <1>1, <1>2 DEF Resting
  <1>4. miner'.at = "pool" /\ miner'.prev = p /\ miner'.txs = <<>>  BY <1>3
  <1>5. Fits(utxo', <<>>)  BY DEF Fits
  <1>6. chain' = p  BY <1>1, <1>2 DEF chainVars
  <1> QED  BY <1>4, <1>5, <1>6 DEF TemplateInv

(* The payments for a template are taken, none is in it yet.                 *)
LEMMA PoolTaken ==
  ASSUME TypeInv, MineInv, TakePool
  PROVE  TemplateInv'
  <1>1. PICK txs \in SUBSET pool : miner' = [miner EXCEPT !.at = "fees", !.todo = txs]
    BY DEF TakePool
  <1>2. miner.at = "pool" /\ UNCHANGED <<utxo, chain, job, intact>>  BY DEF TakePool, chainVars
  <1>3. /\ miner'.at = "fees" /\ miner'.prev = miner.prev /\ miner'.txs = miner.txs
        /\ miner'.todo = txs
    BY <1>1 DEF TypeInv, MinerTypeOK
  <1>4. ToSet(<<>>) = {}  BY DEF ToSet
  <1> QED  BY <1>2, <1>3, <1>4 DEF MineInv, TemplateInv

(* A payment joins the template if its inputs are there: no call of AddBlock *)
(* being under way, they still are when the others are looked at.            *)
LEMMA FeeChecked ==
  ASSUME TypeInv, MineInv, CheckFee
  PROVE  TemplateInv'
  <1>1. PICK u, old, more, tx :
          /\ u = utxo /\ old = miner.txs /\ more = Append(miner.txs, tx) /\ tx \in miner.todo
          /\ miner' = [miner EXCEPT !.todo = @ \ {tx},
                                    !.txs = IF Ins[tx] \subseteq u THEN more ELSE old]
    BY DEF CheckFee
  <1>2. miner.at = "fees" /\ UNCHANGED <<utxo, chain, job, intact>>  BY DEF CheckFee, chainVars
  <1>3. PICK new : new = IF Ins[tx] \subseteq u THEN more ELSE old  OBVIOUS
  <1>4. /\ miner'.at = "fees" /\ miner'.prev = miner.prev /\ miner'.txs = new
        /\ miner'.todo = miner.todo \ {tx}
    BY <1>1, <1>2, <1>3 DEF TypeInv, MinerTypeOK
  <1>5. old \in Seq(Txs) /\ tx \in Txs /\ more = Append(old, tx)
    BY <1>1, Shapes
  <1>6. tx \notin ToSet(old) /\ miner.todo \cap ToSet(old) = {}
    BY <1>1, <1>2 DEF MineInv, TemplateInv
  <1>7. ToSet(more) = ToSet(old) \cup {tx}
    <2>1. PICK n \in Nat : n = Len(old)  BY <1>5
    <2>2. /\ DOMAIN old = 1..n /\ DOMAIN more = 1..(n + 1) /\ more[n + 1] = tx
          /\ \A i \in 1..n : more[i] = old[i]
      BY <1>5, <2>1, AppendProperties
    <2>3. 1..(n + 1) = 1..n \cup {n + 1} /\ n + 1 \in 1..(n + 1)  BY <2>1
    <2> QED  BY <2>2, <2>3 DEF ToSet
  <1>8. miner'.todo \cap ToSet(new) = {}  BY <1>3, <1>4, <1>6, <1>7
  <1>9. ASSUME Fits(u, old) PROVE Fits(u, new)
    <2> SUFFICES ASSUME Ins[tx] \subseteq u PROVE Fits(u, more)
      BY <1>3, <1>9
    <2>1. PICK n \in Nat : n = Len(old)  BY <1>5
    <2>2. /\ DOMAIN old = 1..n /\ DOMAIN more = 1..(n + 1) /\ more[n + 1] = tx
          /\ \A i \in 1..n : more[i] = old[i]
      BY <1>5, <2>1, AppendProperties
    <2>3. \A i \in 1..n : old[i] # tx  BY <1>6, <2>2 DEF ToSet
    <2>4. ASSUME NEW i \in 1..(n + 1)
          PROVE  Ins[more[i]] \subseteq u /\ \A j \in 1..(n + 1) : i # j => more[i] # more[j]
      <3>1. CASE i = n + 1
        <4>1. \A j \in 1..(n + 1) : i # j => j \in 1..n  BY <3>1
        <4> QED  BY <2>2, <2>3, <3>1, <4>1
      <3>2. CASE i # n + 1
        <4>1. i \in 1..n /\ \A j \in 1..(n + 1) : j \in 1..n \/ j = n + 1  BY <3>2
        <4>2. Ins[old[i]] \subseteq u /\ \A j \in 1..n : i # j => old[i] # old[j]
          BY <1>9, <2>2, <4>1 DEF Fits
        <4>3. more[i] = old[i]  BY <2>2, <4>1
        <4>4. ASSUME NEW j \in 1..(n + 1), i # j PROVE more[i] # more[j]
          <5>1. CASE j \in 1..n  BY <2>2, <4>2, <4>3, <4>4, <5>1
          <5>2. CASE j = n + 1  BY <2>2, <2>3, <4>1, <4>3, <5>2
          <5> QED  BY <4>1, <5>1, <5>2
        <4> QED  BY <4>2, <4>3, <4>4
      <3> QED  BY <3>1, <3>2
    <2> QED  BY <2>2, <2>4 DEF Fits
  <1> QED  BY <1>1, <1>2, <1>4, <1>8, <1>9 DEF MineInv, TemplateInv

(* Every step keeps what makes an extension fit.                             *)
LEMMA NextMine ==
  ASSUME Unchained, Unconflicting
  PROVE  TypeInv /\ KeepInv /\ OutputsInv /\ OwnInv /\ MineInv /\ [Next]_vars => MineInv'
  <1> SUFFICES ASSUME TypeInv, KeepInv, OutputsInv, OwnInv, MineInv, [Next]_vars PROVE MineInv'
    OBVIOUS
  <1>1. ASSUME UNCHANGED <<utxo, chainVars>>, TemplateInv',
               miner.at = "add" => miner'.at = "add" /\ miner'.block = miner.block
        PROVE  MineInv'
    <2>1. UNCHANGED <<path, body, stored, chain, job, intact>> /\ Found' = Found
      BY <1>1 DEF chainVars, Found
    <2>2. ApplyInv'  BY <1>1, <2>1, ApplyStays DEF MineInv
    <2>3. PeerInv'  BY <1>1, <2>1 DEF MineInv, PeerInv
    <2> QED  BY <1>1, <2>2, <2>3 DEF MineInv
  <1>2. ASSUME UNCHANGED <<utxo, chainVars, miner>> PROVE MineInv'
    <2>1. UNCHANGED <<path, body, chain, job, intact>>  BY <1>2 DEF chainVars
    <2>2. TemplateInv'  BY <1>2, <2>1, TemplateStays DEF MineInv
    <2> QED  BY <1>1, <1>2, <2>2
  <1>3. CASE (PoolNext \/ \E tx \in Txs : Expire(tx)) /\ UNCHANGED <<chainVars, miner>>
    <2>1. UNCHANGED utxo
      BY <1>3 DEF PoolNext, Submit, InputsFound, InputsMissing, Insert, Expire
    <2> QED  BY <1>2, <1>3, <2>1
  <1>4. ASSUME NEW h \in Hashes, PeerBlock(h) PROVE MineInv'  BY <1>4, PeerMines
  <1>5. ASSUME NEW h \in Hashes, AddPeerBlock(h) PROVE MineInv'  BY <1>5, PeerAdds
  <1>6. ASSUME NEW h \in Hashes, MineBlock(h) PROVE MineInv'  BY <1>6, MinerMines
  <1>7. CASE AddOwn  BY <1>7, MinerAdds
  <1>8. CASE UndoBlock  BY <1>8, UndoMines
  <1>9. CASE BeginBlock  BY <1>9, BeginMines
  <1>10. CASE ApplyTx  BY <1>10, ApplyMines
  <1>11. CASE RefuseTx \/ EndAdd  BY <1>11, EndMines
  <1>12. CASE TakeTip
    <2>1. miner.at # "add" /\ UNCHANGED <<utxo, chainVars>>
      <3>1. Resting.at = "idle"  BY DEF Resting
      <3> QED  BY <1>12, <3>1 DEF TakeTip
    <2>2. TemplateInv'  BY <1>12, TipTaken
    <2> QED  BY <1>1, <2>1, <2>2
  <1>13. CASE TakePool
    <2>1. miner.at # "add" /\ UNCHANGED <<utxo, chainVars>>  BY <1>13 DEF TakePool
    <2>2. TemplateInv'  BY <1>13, PoolTaken
    <2> QED  BY <1>1, <2>1, <2>2
  <1>14. CASE CheckFee
    <2>1. miner.at # "add" /\ UNCHANGED <<utxo, chainVars>>  BY <1>14 DEF CheckFee
    <2>2. TemplateInv'  BY <1>14, FeeChecked
    <2> QED  BY <1>1, <2>1, <2>2
  <1>15. CASE ClearOwn
    <2>1. miner.at # "add" /\ UNCHANGED <<utxo, chainVars>> /\ miner' = Resting
      BY <1>15 DEF ClearOwn
    <2>2. Resting.at = "idle"  BY DEF Resting
    <2>3. TemplateInv'  BY <2>1, <2>2 DEF TemplateInv
    <2> QED  BY <1>1, <2>1, <2>3
  <1>16. CASE UNCHANGED vars
    BY <1>2, <1>16 DEF vars
  <1> QED
    BY <1>3, <1>4, <1>5, <1>6, <1>7, <1>8, <1>9, <1>10, <1>11, <1>12, <1>13, <1>14, <1>15, <1>16
    DEF Next

(* A call for the miner's own block is made by the miner.                    *)
LEMMA NextOwn == TypeInv /\ OwnInv /\ [Next]_vars => OwnInv'
  <1> SUFFICES ASSUME TypeInv, OwnInv, [Next]_vars, job'.own PROVE miner'.at = "adding"
    BY DEF OwnInv
  <1>1. ~NoJob.own  BY DEF NoJob
  <1>3. CASE AddOwn
    <2>1. CASE miner' = [miner EXCEPT !.at = "adding"]  BY <2>1 DEF TypeInv, MinerTypeOK
    <2>2. CASE StoreOnly(miner.block)
      <3>1. job' = NoJob  BY <2>2 DEF StoreOnly
      <3> QED  BY <1>1, <3>1
    <2> QED  BY <1>3, <2>1, <2>2 DEF AddOwn
  <1>4. ASSUME NEW h \in Hashes, AddPeerBlock(h) PROVE FALSE
    <2>1. CASE BeginAdd(h, FALSE)
      <3>1. job' = [block |-> h, at |-> chain, left |-> <<>>, own |-> FALSE]  BY <2>1 DEF BeginAdd
      <3> QED  BY <3>1
    <2>2. CASE StoreOnly(h)
      <3>1. job' = NoJob  BY <2>2 DEF StoreOnly
      <3> QED  BY <1>1, <3>1
    <2> QED  BY <1>4, <2>1, <2>2 DEF AddPeerBlock
  <1>5. CASE RefuseTx \/ EndAdd
    <2>1. job' = NoJob  BY <1>5 DEF RefuseTx, EndAdd
    <2> QED  BY <1>1, <2>1
  <1>6. CASE UndoBlock \/ BeginBlock \/ ApplyTx
    <2>1. UNCHANGED miner /\ job'.own = job.own
      BY <1>6 DEF UndoBlock, BeginBlock, ApplyTx, TypeInv, JobTypeOK
    <2> QED  BY <2>1 DEF OwnInv
  <1>7. CASE TakeTip \/ TakePool \/ CheckFee \/ ClearOwn \/ \E h \in Hashes : MineBlock(h)
    <2>1. UNCHANGED job  BY <1>7 DEF TakeTip, TakePool, CheckFee, ClearOwn, MineBlock, chainVars
    <2>2. miner.at # "adding"
      <3>1. Resting.at = "idle"  BY DEF Resting
      <3> QED  BY <1>7, <3>1 DEF TakeTip, TakePool, CheckFee, ClearOwn, MineBlock
    <2> QED  BY <2>1, <2>2 DEF OwnInv
  <1>8. CASE UNCHANGED <<chainVars, miner>> \/ UNCHANGED vars \/ \E h \in Hashes : PeerBlock(h)
    <2>1. UNCHANGED <<job, miner>>  BY <1>8 DEF chainVars, vars, PeerBlock
    <2> QED  BY <2>1 DEF OwnInv
  <1> QED  BY <1>3, <1>4, <1>5, <1>6, <1>7, <1>8 DEF Next

(* At first nothing is found, added or mined.                                *)
LEMMA InitMine == Init => MineInv /\ OwnInv
  <1> SUFFICES ASSUME Init PROVE MineInv /\ OwnInv
    OBVIOUS
  <1>1. Found = {} /\ job = NoJob /\ ~job.own /\ miner.at = "idle"
    BY DEF Init, Found, NoJob, Resting
  <1> QED  BY <1>1 DEF MineInv, ApplyInv, PeerInv, TemplateInv, OwnInv

(***************************************************************************)
(* Where payments neither conflict nor chain, AddBlock never refuses a     *)
(* block that extends the tip: not one of a peer, and not one of the       *)
(* miner's, although it read the tip, the pool and the outputs at          *)
(* different times and peers' blocks came between.                         *)
(***************************************************************************)
THEOREM ExtensionsApply == Unchained /\ Unconflicting => (Spec => []ExtensionApplies)
  <1> SUFFICES ASSUME Unchained, Unconflicting PROVE Spec => []ExtensionApplies
    OBVIOUS
  <1>1. TypeInv /\ MineInv => ExtensionApplies
    <2> SUFFICES ASSUME TypeInv, MineInv, intact, job # NoJob, Extends(job.block), Refused
                 PROVE  FALSE
      BY DEF ExtensionApplies
    <2>1. PICK left : left = job.left  OBVIOUS
    <2>2. left # <<>> /\ ~(Ins[Head(left)] \subseteq utxo)  BY <2>1 DEF Refused
    <2>3. left \in Seq(Txs)  BY <2>1, Shapes
    <2>4. Fits(utxo, left)  BY <2>1, <2>2 DEF MineInv, ApplyInv
    <2>5. Head(left) = left[1] /\ 1 \in DOMAIN left  BY <2>2, <2>3
    <2> QED  BY <2>2, <2>4, <2>5 DEF Fits
  <1>2. Init => MineInv /\ OwnInv /\ OutputsInv  BY InitMine, InitOutputs
  <1>3. TypeInv /\ KeepInv /\ OutputsInv /\ [Next]_vars => OutputsInv'  BY NextOutputs
  <1>4. TypeInv /\ KeepInv /\ OutputsInv /\ OwnInv /\ MineInv /\ [Next]_vars => MineInv'
    BY NextMine
  <1> QED
    BY InitTypes, InitKept, NextTypes, NextKept, NextOwn, <1>1, <1>2, <1>3, <1>4, PTL DEF Spec

=============================================================================
