-------------------------- MODULE Blockchain_proofs --------------------------
(***************************************************************************)
(* What holds of Blockchain for every block tree, every ledger, any number *)
(* of callers and of stops.                                                *)
(***************************************************************************)
EXTENDS Blockchain, SequenceTheorems, WellFoundedInduction, TLAPS

(* A set of numbers has a least one: induction without a schema.             *)
LEMMA LeastNumber ==
  ASSUME NEW T \in SUBSET Nat, T # {}
  PROVE  \E n \in T : \A m \in T : n <= m
  <1> DEFINE R == {p \in Nat \X Nat : p[1] < p[2]}
  <1>1. IsWellFoundedOn(R, Nat)  BY NatLessThanWellFounded DEF OpToRel
  <1>2. PICK n \in T : \A m \in T : <<m, n>> \notin R  BY <1>1, WFMin
  <1>3. ASSUME NEW m \in T PROVE n <= m
    <2>1. <<m, n>> \in Nat \X Nat /\ <<m, n>>[1] = m /\ <<m, n>>[2] = n  OBVIOUS
    <2> QED  BY <1>2, <2>1
  <1> QED  BY <1>3

(***************************************************************************)
(* A block lies in its own ancestry, and so does its parent.               *)
(***************************************************************************)
LEMMA OwnAncestry ==
  ASSUME NEW b \in Blocks
  PROVE  /\ b \in Ancestors[b]
         /\ b # Genesis => Ancestors[b] = Ancestors[Parent[b]] \cup {b}
         /\ Ancestors[b] \subseteq Blocks
  <1>1. CASE b = Genesis  BY <1>1, TreeAssumption
  <1>2. CASE b # Genesis  BY <1>2, TreeAssumption
  <1> QED  BY <1>1, <1>2

(* The ancestry of a block is a chain: it starts at genesis, has one block   *)
(* at each height, and with a block the ancestry of that block.              *)
Linear(b) ==
  /\ Genesis \in Ancestors[b]
  /\ \A h \in 0..Height[b] : \E a \in Ancestors[b] : Height[a] = h
  /\ \A a \in Ancestors[b] :
       /\ Ancestors[a] \subseteq Ancestors[b]
       /\ Height[a] <= Height[b]
       /\ \A c \in Ancestors[b] : Height[a] = Height[c] => a = c

(* One block more.                                                           *)
LEMMA ChildIsLinear ==
  ASSUME NEW b \in Blocks, b # Genesis, Linear(Parent[b])
  PROVE  Linear(b)
  <1>1. PICK p \in Blocks : p = Parent[b]  BY TreeAssumption
  <1>2. /\ Ancestors[b] = Ancestors[p] \cup {b} /\ Ancestors[p] \subseteq Blocks
        /\ Height[b] = Height[p] + 1 /\ Height[p] \in Nat
    BY <1>1, TreeAssumption, OwnAncestry
  <1>3. Linear(p)  BY <1>1
  <1>4. Genesis \in Ancestors[b]  BY <1>2, <1>3 DEF Linear
  <1>5. ASSUME NEW h \in 0..Height[b] PROVE \E a \in Ancestors[b] : Height[a] = h
    <2>1. h = Height[b] \/ h \in 0..Height[p]  BY <1>2
    <2> QED  BY <1>2, <1>3, <2>1 DEF Linear
  <1>6. ASSUME NEW a \in Ancestors[p] PROVE Height[a] <= Height[p] /\ Height[a] \in Nat
    BY <1>2, <1>3, TreeAssumption DEF Linear
  <1>7. ASSUME NEW a \in Ancestors[b]
        PROVE  Ancestors[a] \subseteq Ancestors[b] /\ Height[a] <= Height[b]
    <2>1. CASE a = b  BY <1>2, <2>1
    <2>2. CASE a \in Ancestors[p]
      <3>1. Ancestors[a] \subseteq Ancestors[p]  BY <1>3, <2>2 DEF Linear
      <3> QED  BY <1>2, <1>6, <2>2, <3>1
    <2> QED  BY <1>2, <2>1, <2>2
  <1>8. ASSUME NEW a \in Ancestors[b], NEW c \in Ancestors[b], Height[a] = Height[c]
        PROVE  a = c
    <2>1. CASE a \in Ancestors[p] /\ c \in Ancestors[p]  BY <1>3, <1>8, <2>1 DEF Linear
    <2>2. CASE a = b /\ c \in Ancestors[p]  BY <1>2, <1>6, <1>8, <2>2
    <2>3. CASE c = b /\ a \in Ancestors[p]  BY <1>2, <1>6, <1>8, <2>3
    <2> QED  BY <1>2, <2>1, <2>2, <2>3
  <1> QED  BY <1>4, <1>5, <1>7, <1>8 DEF Linear

(***************************************************************************)
(* What a walk along PreviousHash gives, by induction on the height: the   *)
(* lowest block whose ancestry were no chain would have a parent whose is. *)
(***************************************************************************)
LEMMA AncestorsAreChains == \A b \in Blocks : Linear(b)
  <1> DEFINE Bad == {b \in Blocks : ~Linear(b)}
             H == {Height[b] : b \in Bad}
  <1> SUFFICES ASSUME Bad # {} PROVE FALSE
    OBVIOUS
  <1>1. H \subseteq Nat /\ H # {}  BY TreeAssumption
  <1>2. PICK n \in H : \A m \in H : n <= m  BY <1>1, LeastNumber
  <1>3. PICK b \in Bad : Height[b] = n  BY <1>2
  <1>4. b # Genesis
    <2>1. ASSUME b = Genesis PROVE Linear(b)
      <3>1. Ancestors[b] = {b} /\ Height[b] = 0  BY <2>1, TreeAssumption
      <3> QED  BY <2>1, <3>1 DEF Linear
    <2> QED  BY <1>3, <2>1
  <1>5. PICK p \in Blocks : p = Parent[b]  BY <1>3, TreeAssumption
  <1>6. Height[b] = Height[p] + 1 /\ Height[p] \in Nat  BY <1>3, <1>4, <1>5, TreeAssumption
  <1>7. CASE p \in Bad
    <2>1. Height[p] \in H  BY <1>7
    <2>2. n <= Height[p]  BY <1>2, <2>1
    <2> QED  BY <1>3, <1>6, <2>2
  <1>8. CASE Linear(p)  BY <1>3, <1>4, <1>5, <1>8, ChildIsLinear
  <1> QED  BY <1>5, <1>7, <1>8

(* The same, as the proofs below cite it.                                    *)
LEMMA AncestorFacts ==
  /\ \A b \in Blocks : Genesis \in Ancestors[b]
  /\ \A b \in Blocks : \A h \in 0..Height[b] :
       \E a \in Ancestors[b] : Height[a] = h
  /\ \A b \in Blocks : \A a \in Ancestors[b] :
       /\ Ancestors[a] \subseteq Ancestors[b]
       /\ Height[a] <= Height[b]
       /\ \A c \in Ancestors[b] : Height[a] = Height[c] => a = c
  BY AncestorsAreChains DEF Linear

(***************************************************************************)
(* A child is preferred to its parent: it has strictly more work.          *)
(***************************************************************************)
LEMMA ChildIsBetter ==
  ASSUME NEW b \in Blocks, b # Genesis
  PROVE  Better(b, Parent[b])
  BY TreeAssumption DEF Better

(***************************************************************************)
(* The order ProcessBlock takes the transactions in is a sequence of them. *)
(***************************************************************************)
LEMMA ProcessOrderType ==
  ASSUME NEW b \in Blocks, b # Genesis
  PROVE  ProcessOrder(b) \in Seq(Txs)
  <1>1. TxSeq[b] \in Seq(Txs) /\ TxSeq[b] # <<>>  BY LedgerAssumption
  <1>2. Head(TxSeq[b]) \in Txs /\ Tail(TxSeq[b]) \in Seq(Txs)
    BY <1>1, HeadTailProperties
  <1> QED  BY <1>2, AppendProperties DEF ProcessOrder

LEMMA UndoRecordType ==
  ASSUME NEW b \in Blocks
  PROVE  /\ ToSet(TxSeq[b]) \subseteq Txs
         /\ SpentBy(b) \subseteq Outs
         /\ CreatedBy(b) \subseteq Outs
  <1>1. TxSeq[b] \in Seq(Txs)  BY LedgerAssumption
  <1>2. ToSet(TxSeq[b]) \subseteq Txs  BY <1>1 DEF ToSet
  <1>3. SpentBy(b) \subseteq Outs  BY <1>2, LedgerAssumption DEF SpentBy
  <1>4. CreatedBy(b) \subseteq Outs  BY <1>2, LedgerAssumption DEF CreatedBy
  <1> QED  BY <1>2, <1>3, <1>4

-----------------------------------------------------------------------------
(***************************************************************************)
(* Type correctness.                                                       *)
(***************************************************************************)
LEMMA TypeInit == Init => TypeOK
  BY TreeAssumption, ChainAssumption DEF Init, TypeOK, Phases, NotIndexed

(* Start-up and the entry to AddBlock.                                       *)
LEMMA TypeEnter ==
  ASSUME TypeOK, StoreConnected,
         \/ SaveGenesis \/ SaveGenesisTip \/ LoadTip \/ RecoverStep \/ RecoverDone
         \/ Stop
         \/ \E b \in Blocks : AddLimbo(b) \/ AddUnverified(b)
         \/ \E c \in Callers : EndVerify(c) \/ AbandonVerify(c)
         \/ \E c \in Callers, b \in Blocks : BeginVerify(c, b)
  PROVE  TypeOK'
  <1> USE ChainAssumption DEF TypeOK, Phases, db, work, NoWork
  <1>1. CASE SaveGenesis  BY <1>1, TreeAssumption DEF SaveGenesis
  <1>2. CASE SaveGenesisTip  BY <1>2, TreeAssumption DEF SaveGenesisTip
  <1>3. CASE LoadTip  BY <1>3 DEF LoadTip
  <1>4. CASE RecoverStep  BY <1>4 DEF RecoverStep, Ahead, AtHeight
  <1>5. CASE RecoverDone  BY <1>5 DEF RecoverDone
  <1>6. CASE Stop  BY <1>6 DEF Stop
  <1>7. ASSUME NEW b \in Blocks, AddLimbo(b)  PROVE TypeOK'
    BY <1>7 DEF AddLimbo, BeginApply
  <1>8. ASSUME NEW b \in Blocks, AddUnverified(b)  PROVE TypeOK'
    BY <1>8 DEF AddUnverified
  <1>9. ASSUME NEW c \in Callers, EndVerify(c)  PROVE TypeOK'
    BY <1>9 DEF EndVerify
  <1>10. ASSUME NEW c \in Callers, AbandonVerify(c)  PROVE TypeOK'
    BY <1>10 DEF AbandonVerify
  <1>11. ASSUME NEW c \in Callers, NEW b \in Blocks, BeginVerify(c, b)  PROVE TypeOK'
    BY <1>11 DEF BeginVerify
  <1> QED
    BY <1>1, <1>2, <1>3, <1>4, <1>5, <1>6, <1>7, <1>8, <1>9, <1>10, <1>11

(* Storing a block and rolling back.                                         *)
LEMMA TypeStoreAndUndo ==
  ASSUME TypeOK, StoreConnected,
         \/ StoreExtending \/ StoreReorganizing \/ StoreOnly
         \/ BeginUndo \/ UndoMissing \/ DeleteOut \/ AddOut \/ DeleteTxIndex
         \/ EndUndo
  PROVE  TypeOK'
  <1> USE ChainAssumption DEF TypeOK, Phases, db, NoWork, Return
  <1>1. CASE StoreExtending  BY <1>1 DEF StoreExtending, Store, BeginApply
  <1>2. CASE StoreReorganizing
    <2>1. Ancestors[tip] \subseteq Blocks /\ Ancestors[target] \subseteq Blocks
      BY <1>2, OwnAncestry DEF StoreReorganizing, Store
    <2> QED  BY <1>2, <2>1 DEF StoreReorganizing, Store
  <1>3. CASE StoreOnly  BY <1>3 DEF StoreOnly, Store
  <1>4. CASE BeginUndo
    <2>1. PICK b \in Blocks :
             /\ cur' = b
             /\ dels' = CreatedBy(b) /\ adds' = SpentBy(b) /\ idxs' = ToSet(TxSeq[b])
      BY <1>4 DEF BeginUndo, Highest
    <2>2. dels' \subseteq Outs /\ adds' \subseteq Outs /\ idxs' \subseteq Txs
      BY <2>1, UndoRecordType
    <2> QED  BY <1>4, <2>1, <2>2 DEF BeginUndo
  <1>5. CASE UndoMissing  BY <1>5 DEF UndoMissing
  <1>6. CASE DeleteOut  BY <1>6 DEF DeleteOut
  <1>7. CASE AddOut  BY <1>7 DEF AddOut
  <1>8. CASE DeleteTxIndex  BY <1>8 DEF DeleteTxIndex, NotIndexed
  <1>9. CASE EndUndo  BY <1>9 DEF EndUndo
  <1> QED  BY <1>1, <1>2, <1>3, <1>4, <1>5, <1>6, <1>7, <1>8, <1>9

(* Applying blocks and moving the tip.                                       *)
LEMMA TypeApply ==
  ASSUME TypeOK, StoreConnected,
         \/ BeginBlock \/ BeginTx \/ EndTx \/ TxRefused \/ EndProcess
         \/ UpdateHeightIndex \/ SaveBlockUndo \/ SaveTxIndex \/ EndBlock
         \/ SaveChainTip
  PROVE  TypeOK'
  <1> USE ChainAssumption DEF TypeOK, Phases, db, work, NoWork, Return
  <1>1. CASE BeginBlock
    <2>1. PICK b \in Lowest(apply) : cur' = b /\ todo' = ProcessOrder(b)
      BY <1>1 DEF BeginBlock
    <2>2. b \in Blocks \ {Genesis}  BY <2>1 DEF Lowest, StoreConnected
    <2>3. todo' \in Seq(Txs)  BY <2>1, <2>2, ProcessOrderType
    <2> QED  BY <1>1, <2>1, <2>2, <2>3 DEF BeginBlock
  <1>2. CASE BeginTx
    <2>1. Head(todo) \in Txs  BY <1>2, HeadTailProperties DEF BeginTx
    <2>2. Ins[Head(todo)] \subseteq Outs /\ Creates[Head(todo)] \subseteq Outs
      BY <2>1, LedgerAssumption
    <2> QED  BY <1>2, <2>2 DEF BeginTx
  <1>3. CASE EndTx
    <2>1. Tail(todo) \in Seq(Txs)  BY <1>3, HeadTailProperties DEF EndTx
    <2> QED  BY <1>3, <2>1 DEF EndTx
  <1>4. CASE TxRefused
    <2>1. phase \in {"process", "tx"}  BY <1>4 DEF TxRefused
    <2>2. /\ Return
          /\ UNCHANGED <<db, tip, verifying, stops>>
      BY <1>4 DEF TxRefused
    <2> QED  BY <2>1, <2>2
  <1>5. CASE EndProcess  BY <1>5 DEF EndProcess
  <1>6. CASE UpdateHeightIndex  BY <1>6 DEF UpdateHeightIndex
  <1>7. CASE SaveBlockUndo  BY <1>7, UndoRecordType DEF SaveBlockUndo
  <1>8. CASE SaveTxIndex
    <2>1. Height[cur] \in Int  BY <1>8, TreeAssumption DEF SaveTxIndex
    <2> QED  BY <1>8, <2>1 DEF SaveTxIndex
  <1>9. CASE EndBlock
    <2>1. phase' = "next" /\ cur' = NoBlock /\ apply' \subseteq apply
      BY <1>9 DEF EndBlock
    <2> QED  BY <1>9, <2>1 DEF EndBlock
  <1>10. CASE SaveChainTip
    <2>1. phase = "next" /\ target \in Blocks  BY <1>10 DEF SaveChainTip
    <2> QED  BY <1>10, <2>1 DEF SaveChainTip
  <1> QED  BY <1>1, <1>2, <1>3, <1>4, <1>5, <1>6, <1>7, <1>8, <1>9, <1>10

-----------------------------------------------------------------------------
(***************************************************************************)
(* The strengthening: everything in the database is connected to genesis,  *)
(* the tip in memory is the tip in the database, and a call that reached   *)
(* the apply loops works towards a block preferred to the tip.             *)
(***************************************************************************)
Strong == StoreConnected /\ TipStored /\ CallsValid

LEMMA StrongInit == Init => Strong
  BY ChainAssumption
  DEF Init, Strong, StoreConnected, TipStored, CallsValid, Working

(* A block whose parent is stored may be stored.                             *)
LEMMA StoreStaysConnected ==
  ASSUME NEW b \in Blocks, b # Genesis, Parent[b] \in stored, stored \subseteq Blocks,
         StoreConnected
  PROVE  \A c \in stored \cup {b} : Ancestors[c] \subseteq stored \cup {b}
  <1>1. Ancestors[b] = Ancestors[Parent[b]] \cup {b}  BY OwnAncestry
  <1> QED  BY <1>1 DEF StoreConnected

(* Start-up and the entry to AddBlock.                                       *)
LEMMA StrongEnter ==
  ASSUME TypeOK, Strong,
         \/ SaveGenesis \/ SaveGenesisTip \/ LoadTip \/ RecoverStep \/ RecoverDone
         \/ Stop
         \/ \E b \in Blocks : AddLimbo(b) \/ AddUnverified(b)
         \/ \E c \in Callers : EndVerify(c) \/ AbandonVerify(c)
         \/ \E c \in Callers, b \in Blocks : BeginVerify(c, b)
  PROVE  Strong'
  <1> USE ChainAssumption
      DEF Strong, TipStored, CallsValid, StoreConnected, Working, db, work, NoWork
  <1>1. CASE SaveGenesis  BY <1>1, TreeAssumption DEF SaveGenesis
  <1>2. CASE SaveGenesisTip  BY <1>2 DEF SaveGenesisTip
  <1>3. CASE LoadTip  BY <1>3 DEF LoadTip
  <1>4. CASE RecoverStep  BY <1>4 DEF RecoverStep, Ahead, AtHeight
  <1>5. CASE RecoverDone  BY <1>5 DEF RecoverDone
  <1>6. CASE Stop  BY <1>6 DEF Stop
  <1>7. ASSUME NEW b \in Blocks, AddLimbo(b)  PROVE Strong'
    <2>1. Better(b, tip)  BY <1>7, ChildIsBetter DEF AddLimbo
    <2>2. Better(target, tip)'  BY <1>7, <2>1 DEF AddLimbo, Better
    <2> QED  BY <1>7, <2>2 DEF AddLimbo, BeginApply
  <1>8. ASSUME NEW b \in Blocks, AddUnverified(b)  PROVE Strong'
    BY <1>8 DEF AddUnverified, Acceptable
  <1>9. ASSUME NEW c \in Callers, EndVerify(c)  PROVE Strong'
    BY <1>9 DEF EndVerify, TypeOK
  <1>10. ASSUME NEW c \in Callers, AbandonVerify(c)  PROVE Strong'
    BY <1>10 DEF AbandonVerify, TypeOK
  <1>11. ASSUME NEW c \in Callers, NEW b \in Blocks, BeginVerify(c, b)  PROVE Strong'
    BY <1>11 DEF BeginVerify, Acceptable, TypeOK
  <1> QED
    BY <1>1, <1>2, <1>3, <1>4, <1>5, <1>6, <1>7, <1>8, <1>9, <1>10, <1>11

(* Storing a block and rolling back.                                         *)
LEMMA StrongStoreAndUndo ==
  ASSUME TypeOK, Strong,
         \/ StoreExtending \/ StoreReorganizing \/ StoreOnly
         \/ BeginUndo \/ UndoMissing \/ DeleteOut \/ AddOut \/ DeleteTxIndex
         \/ EndUndo
  PROVE  Strong'
  <1> USE ChainAssumption
      DEF Strong, TipStored, CallsValid, StoreConnected, Working, db, NoWork, Return
  <1> DEFINE Connected == \A b \in stored : Ancestors[b] \subseteq stored
  <1>1. Store => Connected'
    BY StoreStaysConnected DEF Store, TypeOK
  <1>2. CASE StoreExtending
    <2>1. target \in Blocks /\ target # Genesis /\ Parent[target] = tip
      BY <1>2 DEF StoreExtending, Store, TypeOK
    <2>2. Better(target, tip)'
      BY <1>2, <2>1, ChildIsBetter DEF StoreExtending, Store, Better
    <2> QED  BY <1>1, <1>2, <2>1, <2>2 DEF StoreExtending, Store, BeginApply
  <1>3. CASE StoreReorganizing
    <2>1. target \in Blocks /\ tip \in Blocks
      BY <1>3 DEF StoreReorganizing, Store, TypeOK
    <2>2. Better(target, tip)'
      BY <1>3 DEF StoreReorganizing, Store, Preferred, Better
    <2>3. Ancestors[target] \subseteq stored'
      BY <1>1, <1>3 DEF StoreReorganizing, Store
    <2>4. Genesis \in Ancestors[tip]  BY <2>1, AncestorFacts
    <2> QED  BY <1>1, <1>3, <2>1, <2>2, <2>3, <2>4 DEF StoreReorganizing, Store
  <1>4. CASE StoreOnly  BY <1>1, <1>4 DEF StoreOnly, Store
  <1> DEFINE Quiet == /\ UNCHANGED <<stored, indexed, dbTip, tip, verifying, target>>
                      /\ phase \in Working /\ phase' \in Working
                      /\ phase' = "undo" => cur' \in rollback'
                      /\ phase' \in Working \ {"next", "undo"} => cur' \in apply'
                      /\ apply' \subseteq apply
  <1>5. Quiet => Strong'
    BY DEF Better
  <1>6. CASE BeginUndo  BY <1>5, <1>6 DEF BeginUndo, Highest
  <1>7. CASE UndoMissing  BY <1>7 DEF UndoMissing
  <1>8. CASE DeleteOut  BY <1>5, <1>8 DEF DeleteOut
  <1>9. CASE AddOut  BY <1>5, <1>9 DEF AddOut
  <1>10. CASE DeleteTxIndex  BY <1>5, <1>10 DEF DeleteTxIndex
  <1>11. CASE EndUndo  BY <1>5, <1>11 DEF EndUndo
  <1> QED
    BY <1>2, <1>3, <1>4, <1>6, <1>7, <1>8, <1>9, <1>10, <1>11

(* Applying blocks and moving the tip.                                       *)
LEMMA StrongApply ==
  ASSUME TypeOK, Strong,
         \/ BeginBlock \/ BeginTx \/ EndTx \/ TxRefused \/ EndProcess
         \/ UpdateHeightIndex \/ SaveBlockUndo \/ SaveTxIndex \/ EndBlock
         \/ SaveChainTip
  PROVE  Strong'
  <1> USE ChainAssumption
      DEF Strong, TipStored, CallsValid, StoreConnected, Working, db, work, NoWork,
          Return
  <1> DEFINE Quiet == /\ UNCHANGED <<stored, dbTip, tip, verifying, target>>
                      /\ indexed' \subseteq stored
                      /\ phase \in Working /\ phase' \in Working
                      /\ phase' = "undo" => cur' \in rollback'
                      /\ phase' \in Working \ {"next", "undo"} => cur' \in apply'
                      /\ apply' \subseteq apply
  <1>1. Quiet => Strong'
    BY DEF Better
  <1>2. CASE BeginBlock  BY <1>1, <1>2 DEF BeginBlock, Lowest
  <1>3. CASE BeginTx  BY <1>1, <1>3 DEF BeginTx
  <1>4. CASE EndTx  BY <1>1, <1>4 DEF EndTx
  <1>5. CASE TxRefused
    <2>1. phase' = "free" /\ NoWork /\ UNCHANGED <<db, tip, verifying>>
      BY <1>5 DEF TxRefused
    <2>2. phase # "boot"  BY <1>5 DEF TxRefused
    <2> QED  BY <2>1, <2>2
  <1>6. CASE EndProcess  BY <1>1, <1>6 DEF EndProcess
  <1>7. CASE UpdateHeightIndex  BY <1>1, <1>7 DEF UpdateHeightIndex
  <1>8. CASE SaveBlockUndo  BY <1>1, <1>8 DEF SaveBlockUndo
  <1>9. CASE SaveTxIndex  BY <1>1, <1>9 DEF SaveTxIndex
  <1>10. CASE EndBlock  BY <1>1, <1>10 DEF EndBlock
  <1>11. CASE SaveChainTip  BY <1>11 DEF SaveChainTip
  <1> QED
    BY <1>2, <1>3, <1>4, <1>5, <1>6, <1>7, <1>8, <1>9, <1>10, <1>11

LEMMA ChainInvStep == ChainInv /\ [Next]_vars => ChainInv'
  <1> SUFFICES ASSUME ChainInv, [Next]_vars  PROVE ChainInv'
    OBVIOUS
  <1>1. TypeOK /\ Strong /\ StoreConnected  BY DEF ChainInv, Strong
  <1>2. CASE UNCHANGED vars
    BY <1>1, <1>2
    DEF vars, db, work, ChainInv, TypeOK, StoreConnected, TipStored, CallsValid, Better
  <1>3. CASE Next
    <2>1. TypeOK'
      BY <1>1, <1>3, TypeEnter, TypeStoreAndUndo, TypeApply DEF Next
    <2>2. Strong'
      BY <1>1, <1>3, StrongEnter, StrongStoreAndUndo, StrongApply DEF Next
    <2> QED  BY <2>1, <2>2 DEF ChainInv, Strong
  <1> QED  BY <1>2, <1>3

(***************************************************************************)
(* ChainInv holds of every behaviour, whatever the order in which blocks   *)
(* arrive, whatever the ledger refuses and wherever the node stops.        *)
(***************************************************************************)
THEOREM ChainInvariant == Spec => []ChainInv
  <1>1. Init => ChainInv  BY TypeInit, StrongInit DEF ChainInv, Strong
  <1> QED  BY <1>1, ChainInvStep, PTL DEF Spec

(***************************************************************************)
(* Type correctness.                                                       *)
(***************************************************************************)
THEOREM TypeCorrect == Spec => []TypeOK
  <1>1. ChainInv => TypeOK  BY DEF ChainInv
  <1> QED  BY <1>1, ChainInvariant, PTL

-----------------------------------------------------------------------------
(***************************************************************************)
(* Blockchain implements BestChain: each write to the chain's database     *)
(* learns a block, moves the tip to a preferred one, or changes neither.   *)
(***************************************************************************)
LEMMA BestChainStep == ChainInv /\ [Next]_vars => [BC!Next]_(BC!vars)
  <1> SUFFICES ASSUME ChainInv, [Next]_vars  PROVE [BC!Next]_(BC!vars)
    OBVIOUS
  <1> USE DEF BC!vars, db, ChainInv
  <1>1. CASE SaveGenesis
    <2>1. BC!Learn(Genesis)  BY <1>1 DEF SaveGenesis, BC!Learn
    <2> QED  BY <2>1, TreeAssumption DEF BC!Next
  <1>2. CASE SaveGenesisTip
    BY <1>2 DEF SaveGenesisTip, BC!Next, BC!Found
  <1>3. CASE RecoverStep
    <2>1. PICK b \in Ahead : dbTip' = b /\ tip' = b  BY <1>3 DEF RecoverStep
    <2>2. b \in Blocks /\ b \in stored /\ Parent[b] = tip
      BY <2>1 DEF Ahead, AtHeight, TypeOK, StoreConnected
    <2>3. Height[b] = Height[tip] + 1  BY <2>1 DEF Ahead, AtHeight
    <2>4. tip \in Blocks /\ tip = dbTip
      BY <1>3 DEF RecoverStep, TypeOK, TipStored
    <2>5. b # Genesis  BY <2>3, <2>4, TreeAssumption
    <2>6. BC!Adopt(b)
      BY <1>3, <2>1, <2>2, <2>4, <2>5, ChildIsBetter, ChainAssumption
      DEF RecoverStep, BC!Adopt, BC!Better, Better
    <2> QED  BY <2>2, <2>6 DEF BC!Next
  <1>4. ASSUME Store, phase = "save"  PROVE BC!Next
    <2>1. target \in Blocks /\ Parent[target] \in stored
      BY <1>4 DEF TypeOK, CallsValid
    <2>2. BC!Learn(target)  BY <1>4, <2>1 DEF Store, BC!Learn
    <2> QED  BY <2>1, <2>2 DEF BC!Next
  <1>5. CASE SaveChainTip
    <2>1. /\ target \in Blocks /\ target \in stored /\ Better(target, dbTip)
          /\ dbTip # NoBlock
      BY <1>5, ChainAssumption
      DEF SaveChainTip, TypeOK, CallsValid, TipStored, Working, Phases
    <2>2. BC!Adopt(target)  BY <1>5, <2>1 DEF SaveChainTip, BC!Adopt, BC!Better, Better
    <2> QED  BY <2>1, <2>2 DEF BC!Next
  <1>6. CASE UNCHANGED vars  BY <1>6 DEF vars
  <1>7. CASE \/ LoadTip \/ RecoverDone \/ Stop
             \/ \E b \in Blocks : AddLimbo(b) \/ AddUnverified(b)
             \/ \E c \in Callers : EndVerify(c) \/ AbandonVerify(c)
             \/ \E c \in Callers, b \in Blocks : BeginVerify(c, b)
    BY <1>7
    DEF LoadTip, RecoverDone, Stop, AddLimbo, AddUnverified, EndVerify,
        AbandonVerify, BeginVerify
  <1>8. CASE \/ BeginUndo \/ UndoMissing \/ DeleteOut \/ AddOut \/ DeleteTxIndex
             \/ EndUndo
    BY <1>8
    DEF BeginUndo, UndoMissing, DeleteOut, AddOut, DeleteTxIndex, EndUndo
  <1>9. CASE \/ BeginBlock \/ BeginTx \/ EndTx \/ TxRefused \/ EndProcess
             \/ UpdateHeightIndex \/ SaveBlockUndo \/ SaveTxIndex \/ EndBlock
    BY <1>9
    DEF BeginBlock, BeginTx, EndTx, TxRefused, EndProcess, UpdateHeightIndex,
        SaveBlockUndo, SaveTxIndex, EndBlock
  <1>10. CASE StoreExtending \/ StoreReorganizing \/ StoreOnly
    <2>1. Store /\ phase = "save"
      BY <1>10 DEF StoreExtending, StoreReorganizing, StoreOnly, Store
    <2> QED  BY <1>4, <2>1
  <1> QED
    BY <1>1, <1>2, <1>3, <1>5, <1>6, <1>7, <1>8, <1>9, <1>10 DEF Next

THEOREM Refinement == Spec => ImplementsBestChain
  <1>1. Init => BC!Init  BY DEF Init, BC!Init
  <1> QED
    BY <1>1, ChainInvariant, BestChainStep, PTL DEF Spec, ImplementsBestChain, BC!Spec

-----------------------------------------------------------------------------
(***************************************************************************)
(* Checkpoints: no block at the checkpoint's height is ever stored but the *)
(* checkpoint itself.                                                      *)
(***************************************************************************)
PassesCheckpoint(b) == b = Genesis \/ CheckpointOK(b)

OnlyCheckpointStored ==
  /\ \A b \in stored : PassesCheckpoint(b)
  /\ \A c \in Callers : verifying[c] # NoBlock => PassesCheckpoint(verifying[c])
  /\ phase = "save" => PassesCheckpoint(target)

LEMMA CheckpointStep ==
  ASSUME ChainInv, OnlyCheckpointStored, [Next]_vars
  PROVE  OnlyCheckpointStored'
  <1> USE DEF OnlyCheckpointStored, PassesCheckpoint, CheckpointOK, db
  <1>1. CASE SaveGenesis  BY <1>1 DEF SaveGenesis
  <1>2. ASSUME NEW b \in Blocks, AddUnverified(b)  PROVE OnlyCheckpointStored'
    BY <1>2 DEF AddUnverified, Acceptable
  <1>3. ASSUME NEW c \in Callers, NEW b \in Blocks, BeginVerify(c, b)
        PROVE  OnlyCheckpointStored'
    BY <1>3 DEF BeginVerify, Acceptable, ChainInv, TypeOK
  <1>4. ASSUME NEW c \in Callers, EndVerify(c)  PROVE OnlyCheckpointStored'
    BY <1>4 DEF EndVerify, ChainInv, TypeOK
  <1>5. ASSUME NEW c \in Callers, AbandonVerify(c)  PROVE OnlyCheckpointStored'
    BY <1>5 DEF AbandonVerify, ChainInv, TypeOK
  <1>6. CASE StoreExtending
    BY <1>6 DEF StoreExtending, Store, BeginApply
  <1>7. CASE StoreReorganizing  BY <1>7 DEF StoreReorganizing, Store
  <1>8. CASE StoreOnly  BY <1>8 DEF StoreOnly, Store, Return
  <1>9. CASE Stop  BY <1>9 DEF Stop
  <1>10. ASSUME UNCHANGED <<stored, verifying>>, phase' # "save"
         PROVE  OnlyCheckpointStored'
    BY <1>10
  <1>11. CASE UNCHANGED vars  BY <1>11 DEF vars, work
  <1>12. CASE \/ SaveGenesisTip \/ LoadTip \/ RecoverStep \/ RecoverDone
              \/ \E b \in Blocks : AddLimbo(b)
    BY <1>10, <1>12
    DEF SaveGenesisTip, LoadTip, RecoverStep, RecoverDone, AddLimbo, BeginApply
  <1>13. CASE \/ BeginUndo \/ UndoMissing \/ DeleteOut \/ AddOut \/ DeleteTxIndex
              \/ EndUndo
    BY <1>10, <1>13
    DEF BeginUndo, UndoMissing, DeleteOut, AddOut, DeleteTxIndex, EndUndo, Return
  <1>14. CASE \/ BeginBlock \/ BeginTx \/ EndTx \/ TxRefused \/ EndProcess
              \/ UpdateHeightIndex \/ SaveBlockUndo \/ SaveTxIndex \/ EndBlock
              \/ SaveChainTip
    BY <1>10, <1>14
    DEF BeginBlock, BeginTx, EndTx, TxRefused, EndProcess, UpdateHeightIndex,
        SaveBlockUndo, SaveTxIndex, EndBlock, SaveChainTip, Return
  <1> QED
    BY <1>1, <1>2, <1>3, <1>4, <1>5, <1>6, <1>7, <1>8, <1>9, <1>11, <1>12, <1>13,
       <1>14
    DEF Next

(* Every chain of stored blocks that reaches the height holds a block there. *)
LEMMA CheckpointFromStore ==
  ChainInv /\ OnlyCheckpointStored => CheckpointOnChain
  <1> SUFFICES ASSUME ChainInv, OnlyCheckpointStored, dbTip # NoBlock,
                      CheckpointHeight > 0, Height[dbTip] >= CheckpointHeight
               PROVE  CheckpointBlock \in Ancestors[dbTip]
    BY DEF CheckpointOnChain
  <1>1. dbTip \in Blocks /\ dbTip \in stored /\ Ancestors[dbTip] \subseteq stored
    BY DEF ChainInv, TypeOK, TipStored, StoreConnected
  <1>2. PICK a \in Ancestors[dbTip] : Height[a] = CheckpointHeight
    BY <1>1, AncestorFacts, TreeAssumption, ChainAssumption
  <1>3. a # Genesis  BY <1>2, TreeAssumption
  <1>4. a = CheckpointBlock
    BY <1>1, <1>2, <1>3 DEF OnlyCheckpointStored, PassesCheckpoint, CheckpointOK
  <1> QED  BY <1>2, <1>4

LEMMA CheckpointInvariant == Spec => []OnlyCheckpointStored
  <1>1. Init => OnlyCheckpointStored
    BY DEF Init, OnlyCheckpointStored
  <1>2. ChainInv /\ OnlyCheckpointStored /\ [Next]_vars => OnlyCheckpointStored'
    BY CheckpointStep
  <1> QED  BY <1>1, <1>2, ChainInvariant, PTL DEF Spec

(***************************************************************************)
(* README: "Reorgs cannot roll back past the highest checkpoint."  The tip *)
(* in the database, at every moment and after every crash, descends from   *)
(* the checkpoint once it is that high.                                    *)
(***************************************************************************)
THEOREM CheckpointHolds == Spec => []CheckpointOnChain
  BY CheckpointInvariant, ChainInvariant, CheckpointFromStore, PTL

-----------------------------------------------------------------------------
(***************************************************************************)
(* What the database holds between the steps of AddBlock, reorganize and   *)
(* recovery (src/blockchain.go), for every tree of blocks, every number of *)
(* callers and every run.  Wherever a node is in a change of branch there  *)
(* is one block p, its position, whose chain the UTXO set and the indexes  *)
(* reflect: At(p).  Rolling a block back moves p to its parent, applying   *)
(* one moves it to the child.  Each theorem below is an invariant about    *)
(* what is stored when the node is at p, carried over every step.          *)
(***************************************************************************)
-----------------------------------------------------------------------------
(* The shape of a chain.                                                     *)

(***************************************************************************)
(* Of two blocks of one chain the lower is an ancestor of the higher.      *)
(***************************************************************************)
LEMMA InChain ==
  ASSUME NEW t \in Blocks, NEW x \in Ancestors[t], NEW y \in Ancestors[t],
         Height[x] <= Height[y]
  PROVE  x \in Ancestors[y]
  <1>1. x \in Blocks /\ y \in Blocks  BY OwnAncestry
  <1>2. Height[x] \in 0..Height[y]  BY <1>1, TreeAssumption
  <1>3. PICK a \in Ancestors[y] : Height[a] = Height[x]
    BY <1>1, <1>2, AncestorFacts
  <1>4. a \in Ancestors[t]  BY <1>3, AncestorFacts
  <1> QED  BY <1>3, <1>4, AncestorFacts

(* The parent of a block of a chain is in it, one height below.             *)
LEMMA ParentInChain ==
  ASSUME NEW t \in Blocks, NEW x \in Ancestors[t], x # Genesis
  PROVE  /\ x \in Blocks /\ Parent[x] \in Blocks
         /\ Parent[x] \in Ancestors[t]
         /\ Height[x] = Height[Parent[x]] + 1
         /\ x \notin Ancestors[Parent[x]]
  <1>1. x \in Blocks  BY OwnAncestry
  <1>2. Parent[x] \in Blocks /\ Height[x] = Height[Parent[x]] + 1
        /\ Height[Parent[x]] \in Nat /\ Height[x] \in Nat
    BY <1>1, TreeAssumption
  <1>3. Parent[x] \in Ancestors[x]  BY <1>1, <1>2, OwnAncestry
  <1>4. Parent[x] \in Ancestors[t]  BY <1>1, <1>3, AncestorFacts
  <1>5. x \notin Ancestors[Parent[x]]  BY <1>2, AncestorFacts
  <1> QED  BY <1>1, <1>2, <1>4, <1>5

(* A block is known by its ancestors.                                       *)
LEMMA SameAncestors ==
  ASSUME NEW p \in Blocks, NEW q \in Blocks, Ancestors[p] = Ancestors[q]
  PROVE  p = q
  <1>1. p \in Ancestors[p] /\ q \in Ancestors[p]  BY OwnAncestry
  <1>2. Height[p] <= Height[q] /\ Height[q] <= Height[p]
    BY <1>1, AncestorFacts
  <1>3. Height[p] \in Nat /\ Height[q] \in Nat  BY TreeAssumption
  <1>4. Height[p] = Height[q]  BY <1>2, <1>3
  <1> QED  BY <1>1, <1>4, AncestorFacts

(***************************************************************************)
(* The loop of reorganize that rolls back starts at the block the database *)
(* stands on, and leaves it on the parent of that block.                   *)
(***************************************************************************)
LEMMA TopOfBranch ==
  ASSUME NEW p \in Blocks, NEW t \in Blocks,
         NEW c \in Highest(Ancestors[p] \ Ancestors[t])
  PROVE  /\ c = p
         /\ p # Genesis /\ p \notin Ancestors[t]
         /\ (Ancestors[p] \ Ancestors[t]) \ {p} = Ancestors[Parent[p]] \ Ancestors[t]
         /\ Ancestors[t] \ Ancestors[p] = Ancestors[t] \ Ancestors[Parent[p]]
  <1>1. /\ c \in Ancestors[p] /\ c \notin Ancestors[t]
        /\ \A a \in Ancestors[p] \ Ancestors[t] : Height[a] <= Height[c]
    BY DEF Highest
  <1>2. p \in Ancestors[p]  BY OwnAncestry
  <1>3. p \notin Ancestors[t]
    <2>1. p \in Ancestors[t] => Ancestors[p] \subseteq Ancestors[t]
      BY AncestorFacts
    <2> QED  BY <1>1, <2>1
  <1>4. c = p
    <2>1. Height[p] <= Height[c]  BY <1>1, <1>2, <1>3
    <2>2. c \in Blocks /\ Height[c] <= Height[p]
      BY <1>1, OwnAncestry, AncestorFacts
    <2>3. Height[c] = Height[p]  BY <2>1, <2>2, TreeAssumption
    <2> QED  BY <1>1, <1>2, <2>3, AncestorFacts
  <1>5. p # Genesis  BY <1>3, AncestorFacts
  <1>6. Ancestors[p] = Ancestors[Parent[p]] \cup {p}  BY <1>5, OwnAncestry
  <1>7. p \notin Ancestors[Parent[p]]  BY <1>2, <1>5, ParentInChain
  <1> QED  BY <1>3, <1>4, <1>5, <1>6, <1>7

(***************************************************************************)
(* The loop that applies starts at the child of the block the database     *)
(* stands on, and leaves it on that child.                                 *)
(***************************************************************************)
LEMMA BottomOfBranch ==
  ASSUME NEW p \in Blocks, NEW t \in Blocks, Ancestors[p] \subseteq Ancestors[t],
         NEW c \in Lowest(Ancestors[t] \ Ancestors[p])
  PROVE  /\ c \in Blocks /\ c # Genesis /\ c \in Ancestors[t]
         /\ Parent[c] = p
         /\ Ancestors[c] = Ancestors[p] \cup {c}
         /\ Height[c] = Height[p] + 1
  <1>1. /\ c \in Ancestors[t] /\ c \notin Ancestors[p]
        /\ \A a \in Ancestors[t] \ Ancestors[p] : Height[c] <= Height[a]
    BY DEF Lowest
  <1>2. c \in Blocks /\ c # Genesis  BY <1>1, OwnAncestry, AncestorFacts
  <1>3. /\ Parent[c] \in Blocks /\ Parent[c] \in Ancestors[t]
        /\ Height[c] = Height[Parent[c]] + 1
    BY <1>1, <1>2, ParentInChain
  <1>4. /\ Height[c] \in Nat /\ Height[p] \in Nat /\ Height[Parent[c]] \in Nat
    BY <1>2, <1>3, TreeAssumption
  <1>5. Parent[c] \in Ancestors[p]  BY <1>1, <1>3, <1>4
  <1>6. p \in Ancestors[t]  BY OwnAncestry
  <1>7. ~(Height[c] <= Height[p])  BY <1>1, <1>6, InChain
  <1>8. Height[Parent[c]] <= Height[p]  BY <1>5, AncestorFacts
  <1>9. Height[Parent[c]] = Height[p]  BY <1>3, <1>4, <1>7, <1>8
  <1>10. Parent[c] = p  BY <1>3, <1>6, <1>9, AncestorFacts
  <1> QED  BY <1>1, <1>2, <1>3, <1>10, OwnAncestry

(* A child of the tip needs no rollback, and only itself is to be applied.   *)
LEMMA ChildBranch ==
  ASSUME NEW b \in Blocks, b # Genesis
  PROVE  /\ Ancestors[Parent[b]] \ Ancestors[b] = {}
         /\ Ancestors[b] \ Ancestors[Parent[b]] = {b}
  <1>1. Ancestors[b] = Ancestors[Parent[b]] \cup {b} /\ b \in Ancestors[b]
    BY OwnAncestry
  <1>2. b \notin Ancestors[Parent[b]]  BY <1>1, ParentInChain
  <1> QED  BY <1>1, <1>2

-----------------------------------------------------------------------------
(* Where the database stands.                                                *)

Applying == {"process", "tx", "index", "record", "txindex"}

(***************************************************************************)
(* The block p the database stands on while a call works: what is left to  *)
(* roll back lies between p and the fork, what is left to apply between    *)
(* the fork and the target.                                                *)
(***************************************************************************)
At(p) ==
  /\ phase \in {"free", "save"} => p = tip
  /\ phase \in Working =>
       /\ rollback = Ancestors[p] \ Ancestors[target]
       /\ apply = Ancestors[target] \ Ancestors[p]
       /\ rollback \subseteq Ancestors[tip]
  /\ phase = "undo" => cur \in Highest(rollback)
  /\ phase \in Applying => rollback = {} /\ cur \in Lowest(apply)

Running == phase \notin {"boot", "recover"}

(* The steps that leave the database where it stands.                        *)
Stays ==
  \/ \E b \in Blocks : AddLimbo(b) \/ AddUnverified(b)
  \/ \E c \in Callers : EndVerify(c) \/ AbandonVerify(c)
  \/ \E c \in Callers, b \in Blocks : BeginVerify(c, b)
  \/ StoreExtending \/ StoreReorganizing \/ StoreOnly
  \/ BeginUndo \/ DeleteOut \/ AddOut \/ DeleteTxIndex
  \/ BeginBlock \/ BeginTx \/ EndTx \/ EndProcess
  \/ UpdateHeightIndex \/ SaveBlockUndo \/ SaveTxIndex
  \/ SaveChainTip

(* The steps listed above leave the node where it stands in the tree.       *)
LEMMA StaysAt ==
  ASSUME ChainInv, NEW p \in Blocks, At(p), Stays
  PROVE  Running /\ At(p)' /\ Running'
  <1> USE DEF At, Running, Working, Applying, db, Return, NoWork
  <1>1. ASSUME NEW b \in Blocks, AddLimbo(b)  PROVE Running /\ At(p)' /\ Running'
    <2>1. b # Genesis /\ Parent[b] = tip /\ p = tip  BY <1>1 DEF AddLimbo
    <2> QED  BY <1>1, <2>1, ChildBranch DEF AddLimbo, BeginApply
  <1>2. ASSUME NEW b \in Blocks, AddUnverified(b)  PROVE Running /\ At(p)' /\ Running'
    BY <1>2 DEF AddUnverified
  <1>3. ASSUME NEW c \in Callers, EndVerify(c)  PROVE Running /\ At(p)' /\ Running'
    BY <1>3 DEF EndVerify
  <1>4. ASSUME NEW c \in Callers, AbandonVerify(c)  PROVE Running /\ At(p)' /\ Running'
    BY <1>4 DEF AbandonVerify, work
  <1>5. ASSUME NEW c \in Callers, NEW b \in Blocks, BeginVerify(c, b)
        PROVE Running /\ At(p)' /\ Running'
    BY <1>5 DEF BeginVerify, work
  <1>6. CASE StoreExtending
    <2>1. /\ target \in Blocks /\ target # Genesis /\ Parent[target] = tip /\ p = tip
      BY <1>6 DEF StoreExtending, Store, ChainInv, TypeOK, CallsValid
    <2> QED  BY <1>6, <2>1, ChildBranch DEF StoreExtending, Store, BeginApply
  <1>7. CASE StoreReorganizing  BY <1>7 DEF StoreReorganizing, Store
  <1>8. CASE StoreOnly  BY <1>8 DEF StoreOnly, Store
  <1>9. CASE BeginUndo
    <2>1. phase = "next" /\ phase' = "undo" /\ cur' \in Highest(rollback)
      BY <1>9 DEF BeginUndo
    <2> QED  BY <1>9, <2>1 DEF BeginUndo, Highest
  <1>10. CASE DeleteOut  BY <1>10 DEF DeleteOut, Highest, Lowest
  <1>11. CASE AddOut  BY <1>11 DEF AddOut, Highest, Lowest
  <1>12. CASE DeleteTxIndex  BY <1>12 DEF DeleteTxIndex, Highest, Lowest
  <1>13. CASE BeginBlock  BY <1>13 DEF BeginBlock, Lowest
  <1>14. CASE BeginTx  BY <1>14 DEF BeginTx, Lowest
  <1>15. CASE EndTx  BY <1>15 DEF EndTx, Lowest
  <1>16. CASE EndProcess  BY <1>16 DEF EndProcess, Lowest, work
  <1>17. CASE UpdateHeightIndex  BY <1>17 DEF UpdateHeightIndex, Lowest, work
  <1>18. CASE SaveBlockUndo  BY <1>18 DEF SaveBlockUndo, Lowest
  <1>19. CASE SaveTxIndex  BY <1>19 DEF SaveTxIndex, Lowest
  <1>20. CASE SaveChainTip
    <2>1. target \in Blocks /\ Ancestors[p] = Ancestors[target]
      BY <1>20 DEF SaveChainTip, ChainInv, TypeOK
    <2>2. p = target  BY <2>1, SameAncestors
    <2> QED  BY <1>20, <2>2 DEF SaveChainTip
  <1> QED
    BY <1>1, <1>2, <1>3, <1>4, <1>5, <1>6, <1>7, <1>8, <1>9, <1>10, <1>11, <1>12,
       <1>13, <1>14, <1>15, <1>16, <1>17, <1>18, <1>19, <1>20
    DEF Stays

(* One block is undone: the database stands on its parent.                   *)
LEMMA UndoneAt ==
  ASSUME ChainInv, NEW p \in Blocks, At(p), EndUndo
  PROVE  /\ cur = p /\ p # Genesis
         /\ Parent[p] \in Blocks
         /\ At(Parent[p])'
         /\ Running /\ Running'
  <1> USE DEF At, Running, Working, Applying
  <1>1. target \in Blocks /\ cur \in Highest(Ancestors[p] \ Ancestors[target])
    BY DEF EndUndo, ChainInv, TypeOK
  <1>2. cur = p /\ p # Genesis  BY <1>1, TopOfBranch
  <1>3. Parent[p] \in Blocks  BY TreeAssumption
  <1>4. /\ rollback \ {p} = Ancestors[Parent[p]] \ Ancestors[target]
        /\ apply = Ancestors[target] \ Ancestors[Parent[p]]
    BY <1>1, TopOfBranch DEF EndUndo
  <1> QED  BY <1>2, <1>3, <1>4 DEF EndUndo, db

(* The block to apply next is a child of the one the database stands on.     *)
LEMMA NextToApply ==
  ASSUME ChainInv, NEW p \in Blocks, At(p), phase \in Applying
  PROVE  /\ cur \in Blocks /\ cur # Genesis /\ cur \in Ancestors[target]
         /\ Parent[cur] = p
         /\ Ancestors[cur] = Ancestors[p] \cup {cur}
         /\ Height[cur] = Height[p] + 1
  <1>1. /\ target \in Blocks
        /\ Ancestors[p] \ Ancestors[target] = {}
        /\ cur \in Lowest(Ancestors[target] \ Ancestors[p])
    BY DEF At, Applying, Working, ChainInv, TypeOK
  <1> QED  BY <1>1, BottomOfBranch

(* One block is applied: the database stands on it.                          *)
LEMMA AppliedAt ==
  ASSUME ChainInv, NEW p \in Blocks, At(p), EndBlock, NEW q \in Blocks, q = cur
  PROVE  At(q)' /\ Running /\ Running'
  <1> USE DEF At, Running, Working, Applying
  <1>1. q \in Ancestors[target] /\ Ancestors[q] = Ancestors[p] \cup {q}
    BY NextToApply DEF EndBlock
  <1>2. apply' = Ancestors[target] \ Ancestors[q]
    BY <1>1 DEF EndBlock
  <1>3. rollback' = Ancestors[q] \ Ancestors[target]
    BY <1>1 DEF EndBlock
  <1> QED  BY <1>1, <1>2, <1>3 DEF EndBlock, db

(* A refused block, or a missing undo record: the tip was not moved.         *)
GivesUp == TxRefused \/ UndoMissing

(* A change of branch given up: the node stands on its tip again.           *)
LEMMA GivesUpAt ==
  ASSUME ChainInv, GivesUp
  PROVE  /\ tip \in Blocks /\ \A q \in Blocks : q = tip => At(q)'
         /\ UNCHANGED <<db, tip, stops>>
         /\ Running /\ phase' = "free"
  BY DEF GivesUp, TxRefused, UndoMissing, Return, At, Running, Working, Applying,
         ChainInv, TypeOK

(* A start that completes.                                                   *)
LEMMA StartedAt ==
  ASSUME ChainInv, SaveGenesisTip \/ RecoverDone
  PROVE  tip' \in Blocks /\ phase' = "free" /\ \A q \in Blocks : q = tip' => At(q)'
  BY TreeAssumption
  DEF SaveGenesisTip, RecoverDone, At, Running, Working, Applying, ChainInv, TypeOK

(* Every other step is part of a start or ends the process.                  *)
LEMMA NextCases ==
  ASSUME Next
  PROVE  \/ Stays \/ EndUndo \/ EndBlock \/ GivesUp
         \/ SaveGenesisTip \/ RecoverDone
         \/ SaveGenesis \/ LoadTip \/ RecoverStep \/ Stop
  BY DEF Next, Stays, GivesUp

-----------------------------------------------------------------------------
(* Before the first tip is saved the database holds genesis at most.         *)
Fresh ==
  dbTip = NoBlock =>
    /\ stored \subseteq {Genesis} /\ indexed = stored
    /\ undone = {} /\ utxo = {}
    /\ txHeight = [tx \in Txs |-> NotIndexed]

(* What may happen while the node boots.                                     *)
LEMMA StartSteps ==
  ASSUME [Next]_vars, phase = "boot"
  PROVE  SaveGenesis \/ SaveGenesisTip \/ UNCHANGED db
  <1> USE DEF db
  <1>1. CASE UNCHANGED vars  BY <1>1 DEF vars
  <1>2. CASE LoadTip  BY <1>2 DEF LoadTip
  <1>3. CASE \/ RecoverStep \/ RecoverDone \/ Stop
             \/ \E b \in Blocks : AddLimbo(b) \/ AddUnverified(b)
             \/ \E c \in Callers : EndVerify(c) \/ AbandonVerify(c)
             \/ \E c \in Callers, b \in Blocks : BeginVerify(c, b)
    BY <1>3
    DEF RecoverStep, RecoverDone, Stop, AddLimbo, AddUnverified, EndVerify,
        AbandonVerify, BeginVerify
  <1>4. CASE StoreExtending \/ StoreReorganizing \/ StoreOnly
    BY <1>4 DEF StoreExtending, StoreReorganizing, StoreOnly, Store
  <1>5. CASE \/ BeginUndo \/ UndoMissing \/ DeleteOut \/ AddOut \/ DeleteTxIndex
             \/ EndUndo
    BY <1>5 DEF BeginUndo, UndoMissing, DeleteOut, AddOut, DeleteTxIndex, EndUndo
  <1>6. CASE \/ BeginBlock \/ BeginTx \/ EndTx \/ TxRefused \/ EndProcess
             \/ UpdateHeightIndex \/ SaveBlockUndo \/ SaveTxIndex \/ EndBlock
             \/ SaveChainTip
    BY <1>6
    DEF BeginBlock, BeginTx, EndTx, TxRefused, EndProcess, UpdateHeightIndex,
        SaveBlockUndo, SaveTxIndex, EndBlock, SaveChainTip
  <1> QED  BY <1>1, <1>2, <1>3, <1>4, <1>5, <1>6 DEF Next

(* What a change of branch is not yet done with stays so.                   *)
LEMMA FreshStep ==
  ASSUME ChainInv, Fresh, [Next]_vars
  PROVE  Fresh'
  <1>1. phase # "boot" => dbTip # NoBlock
    BY DEF ChainInv, TypeOK, TipStored
  <1>2. CASE SaveGenesis  BY <1>2 DEF SaveGenesis, Fresh
  <1>3. CASE SaveGenesisTip
    BY <1>3, TreeAssumption, ChainAssumption DEF SaveGenesisTip, Fresh
  <1>4. CASE phase = "boot" /\ UNCHANGED db  BY <1>4 DEF db, Fresh
  <1>5. CASE phase # "boot"
    <2>1. UNCHANGED dbTip \/ dbTip' \in Blocks
      BY BestChainStep, TreeAssumption
      DEF BC!Next, BC!vars, BC!Found, BC!Learn, BC!Adopt
    <2> QED  BY <1>1, <1>5, <2>1, ChainAssumption DEF Fresh
  <1> QED
    BY <1>2, <1>3, <1>4, <1>5, StartSteps

-----------------------------------------------------------------------------
(* The height index has no gap.                                              *)

Covered(b) == \A h \in 0..Height[b] : \E a \in indexed : Height[a] = h

(***************************************************************************)
(* It covers the tip in the database, and ahead of the tip whatever the    *)
(* call at work has reached.                                               *)
(***************************************************************************)
Covers(p) == Covered(p) /\ (phase \in {"record", "txindex"} => Covered(cur))

IndexIsCovering ==
  /\ Fresh
  /\ dbTip # NoBlock => Covered(dbTip)
  /\ Running => \E p \in Blocks : At(p) /\ Covers(p)

(* A block leaves the index only for another of its height.                  *)
LEMMA HeightsKept ==
  ASSUME ChainInv, Next
  PROVE  \A a \in indexed : \E c \in indexed' : Height[c] = Height[a]
  <1> USE DEF db
  <1>1. CASE SaveGenesis  BY <1>1 DEF SaveGenesis
  <1>2. CASE UpdateHeightIndex
    <2>1. indexed' = {c \in indexed : Height[c] # Height[cur]} \cup {cur}
      BY <1>2 DEF UpdateHeightIndex
    <2> QED  BY <2>1
  <1>3. CASE \/ SaveGenesisTip \/ LoadTip \/ RecoverStep \/ RecoverDone \/ Stop
             \/ \E b \in Blocks : AddLimbo(b) \/ AddUnverified(b)
             \/ \E c \in Callers : EndVerify(c) \/ AbandonVerify(c)
             \/ \E c \in Callers, b \in Blocks : BeginVerify(c, b)
    BY <1>3
    DEF SaveGenesisTip, LoadTip, RecoverStep, RecoverDone, Stop, AddLimbo,
        AddUnverified, EndVerify, AbandonVerify, BeginVerify
  <1>4. CASE \/ StoreExtending \/ StoreReorganizing \/ StoreOnly
             \/ BeginUndo \/ UndoMissing \/ DeleteOut \/ AddOut \/ DeleteTxIndex
             \/ EndUndo
    BY <1>4
    DEF StoreExtending, StoreReorganizing, StoreOnly, Store, BeginUndo, UndoMissing,
        DeleteOut, AddOut, DeleteTxIndex, EndUndo
  <1>5. CASE \/ BeginBlock \/ BeginTx \/ EndTx \/ TxRefused \/ EndProcess
             \/ SaveBlockUndo \/ SaveTxIndex \/ EndBlock \/ SaveChainTip
    BY <1>5
    DEF BeginBlock, BeginTx, EndTx, TxRefused, EndProcess, SaveBlockUndo,
        SaveTxIndex, EndBlock, SaveChainTip
  <1> QED  BY <1>1, <1>2, <1>3, <1>4, <1>5 DEF Next

(* No step uncovers a height.                                               *)
LEMMA StaysCovered ==
  ASSUME ChainInv, Next, NEW b \in Blocks, Covered(b)
  PROVE  Covered(b)'
  BY HeightsKept DEF Covered

(* A block that is indexed above covered heights covers its own.             *)
LEMMA CoversOneMore ==
  ASSUME NEW b \in Blocks, NEW c \in Blocks, Covered(b), c \in indexed,
         Height[c] = Height[b] + 1
  PROVE  Covered(c)
  <1> SUFFICES ASSUME NEW h \in 0..Height[c]
               PROVE  \E a \in indexed : Height[a] = h
    BY DEF Covered
  <1>1. Height[b] \in Nat /\ Height[c] \in Nat  BY TreeAssumption
  <1>2. CASE h = Height[c]  BY <1>2
  <1>3. CASE h # Height[c]
    <2>1. h \in 0..Height[b]  BY <1>1, <1>3
    <2> QED  BY <2>1 DEF Covered
  <1> QED  BY <1>2, <1>3

(* The last block applied is covered once it is in the height index.         *)
LEMMA AppliedIsCovered ==
  ASSUME ChainInv, NEW p \in Blocks, At(p), Covered(p), UpdateHeightIndex
  PROVE  Covered(cur)'
  <1>1. /\ cur \in Blocks /\ Height[cur] = Height[p] + 1
        /\ cur' = cur /\ cur \in indexed'
    BY NextToApply DEF UpdateHeightIndex, Applying, work
  <1>2. Covered(p)'  BY StaysCovered DEF Next
  <1> DEFINE c == cur
  <1>3. Covered(c)'
    BY <1>1, <1>2, TreeAssumption DEF Covered
  <1> QED  BY <1>1, <1>3

(* The tip in the database stays covered.                                    *)
LEMMA TipStaysCovered ==
  ASSUME ChainInv, IndexIsCovering, Next, dbTip' # NoBlock
  PROVE  Covered(dbTip)'
  <1> USE DEF db
  <1>1. TypeOK  BY DEF ChainInv
  <1>2. CASE UNCHANGED dbTip
    BY <1>1, <1>2, StaysCovered DEF IndexIsCovering, TypeOK, Covered
  <1>3. CASE SaveGenesisTip
    <2>1. Genesis \in indexed /\ Height[Genesis] = 0 /\ dbTip' = Genesis
          /\ UNCHANGED indexed
      BY <1>3, TreeAssumption DEF SaveGenesisTip, IndexIsCovering, Fresh
    <2> QED  BY <2>1 DEF Covered
  <1>4. CASE RecoverStep
    <2>1. PICK b \in Ahead : dbTip' = b  BY <1>4 DEF RecoverStep
    <2>2. /\ b \in Blocks /\ b \in indexed /\ Height[b] = Height[tip] + 1
          /\ tip = dbTip /\ tip \in Blocks
      BY <1>1, <1>4, <2>1 DEF RecoverStep, Ahead, AtHeight, TypeOK, ChainInv, TipStored
    <2>3. Covered(tip)
      BY <2>2, ChainAssumption DEF IndexIsCovering
    <2>4. Covered(b)  BY <2>2, <2>3, CoversOneMore
    <2> QED  BY <2>1, <2>2, <2>4, StaysCovered DEF Covered
  <1>5. CASE SaveChainTip
    <2>1. Running  BY <1>5 DEF SaveChainTip, Running
    <2>2. PICK p \in Blocks : At(p) /\ Covers(p)  BY <2>1 DEF IndexIsCovering
    <2>3. Covered(p)'  BY <2>2, StaysCovered DEF Covers
    <2>4. target \in Blocks /\ Ancestors[p] = Ancestors[target]
      BY <1>1, <1>5, <2>2 DEF SaveChainTip, TypeOK, At, Working
    <2>5. p = dbTip'  BY <1>5, <2>4, SameAncestors DEF SaveChainTip
    <2> QED  BY <2>3, <2>5 DEF Covered
  <1>6. CASE \/ SaveGenesis \/ LoadTip \/ RecoverDone \/ Stop
             \/ \E b \in Blocks : AddLimbo(b) \/ AddUnverified(b)
             \/ \E c \in Callers : EndVerify(c) \/ AbandonVerify(c)
             \/ \E c \in Callers, b \in Blocks : BeginVerify(c, b)
    BY <1>2, <1>6
    DEF SaveGenesis, LoadTip, RecoverDone, Stop, AddLimbo, AddUnverified, EndVerify,
        AbandonVerify, BeginVerify
  <1>7. CASE \/ StoreExtending \/ StoreReorganizing \/ StoreOnly
             \/ BeginUndo \/ UndoMissing \/ DeleteOut \/ AddOut \/ DeleteTxIndex
             \/ EndUndo
    BY <1>2, <1>7
    DEF StoreExtending, StoreReorganizing, StoreOnly, Store, BeginUndo, UndoMissing,
        DeleteOut, AddOut, DeleteTxIndex, EndUndo
  <1>8. CASE \/ BeginBlock \/ BeginTx \/ EndTx \/ TxRefused \/ EndProcess
             \/ UpdateHeightIndex \/ SaveBlockUndo \/ SaveTxIndex \/ EndBlock
    BY <1>2, <1>8
    DEF BeginBlock, BeginTx, EndTx, TxRefused, EndProcess, UpdateHeightIndex,
        SaveBlockUndo, SaveTxIndex, EndBlock
  <1> QED  BY <1>3, <1>4, <1>5, <1>6, <1>7, <1>8 DEF Next

(* The steps that enter and make the two phases after the index is updated.  *)
LEMMA IndexedSteps ==
  ASSUME ChainInv, Stays, phase' \in {"record", "txindex"}
  PROVE  UpdateHeightIndex \/ (phase \in {"record", "txindex"} /\ cur' = cur)
  <1> USE DEF work, Return, BeginApply
  <1>1. CASE \/ \E b \in Blocks : AddLimbo(b) \/ AddUnverified(b)
             \/ \E c \in Callers : EndVerify(c) \/ AbandonVerify(c)
             \/ \E c \in Callers, b \in Blocks : BeginVerify(c, b)
    BY <1>1 DEF AddLimbo, AddUnverified, EndVerify, AbandonVerify, BeginVerify
  <1>2. CASE \/ StoreExtending \/ StoreReorganizing \/ StoreOnly
             \/ BeginUndo \/ DeleteOut \/ AddOut \/ DeleteTxIndex
    BY <1>2
    DEF StoreExtending, StoreReorganizing, StoreOnly, BeginUndo, DeleteOut, AddOut,
        DeleteTxIndex
  <1>3. CASE \/ BeginBlock \/ BeginTx \/ EndTx \/ EndProcess
             \/ SaveBlockUndo \/ SaveTxIndex \/ SaveChainTip
    BY <1>3
    DEF BeginBlock, BeginTx, EndTx, EndProcess, SaveBlockUndo, SaveTxIndex,
        SaveChainTip
  <1> QED  BY <1>1, <1>2, <1>3 DEF Stays

(* The steps of a running node leave it running.                            *)
LEMMA StaysRunning == ASSUME Stays PROVE Running /\ Running'
  BY DEF Stays, Running, BeginApply, Return, work, AddLimbo, AddUnverified, EndVerify, AbandonVerify,
         BeginVerify, StoreExtending, StoreReorganizing, StoreOnly, Store, BeginUndo,
         DeleteOut, AddOut, DeleteTxIndex, BeginBlock, BeginTx, EndTx, EndProcess,
         UpdateHeightIndex, SaveBlockUndo, SaveTxIndex, SaveChainTip

(* So does the block the database stands on.                                 *)
LEMMA PositionStaysCovered ==
  ASSUME ChainInv, IndexIsCovering, Next, Running'
  PROVE  \E p \in Blocks : At(p)' /\ Covers(p)'
  <1> USE DEF db
  <1>1. TypeOK /\ TipStored /\ TypeOK' /\ TipStored'
    BY ChainInvStep DEF ChainInv
  <1>2. CASE Stays
    <2>1. PICK p \in Blocks : At(p) /\ Covers(p)
      BY <1>2, StaysRunning DEF IndexIsCovering
    <2>2. At(p)' /\ Covered(p)'
      BY <1>2, <2>1, StaysAt, StaysCovered DEF Covers
    <2>3. ASSUME (phase \in {"record", "txindex"})'  PROVE Covered(cur)'
      <3>1. CASE UpdateHeightIndex  BY <2>1, <3>1, AppliedIsCovered DEF Covers
      <3>2. CASE phase \in {"record", "txindex"} /\ cur' = cur
        <4>1. cur \in Blocks /\ Covered(cur)  BY <1>1, <2>1, <3>2 DEF Covers, TypeOK
        <4> QED  BY <3>2, <4>1, StaysCovered DEF Covered
      <3> QED  BY <1>2, <2>3, <3>1, <3>2, IndexedSteps
    <2> QED  BY <2>2, <2>3 DEF Covers
  <1>3. CASE EndUndo
    <2>1. PICK p \in Blocks : At(p) /\ Covers(p)
      BY <1>3 DEF EndUndo, IndexIsCovering, Running
    <2>2. /\ Parent[p] \in Blocks /\ p # Genesis /\ At(Parent[p])'
      BY <1>3, <2>1, UndoneAt
    <2>3. Height[p] = Height[Parent[p]] + 1 /\ Height[Parent[p]] \in Nat
      BY <2>2, TreeAssumption
    <2>4. Covered(Parent[p])  BY <2>1, <2>3 DEF Covers, Covered
    <2>5. Covered(Parent[p])'  BY <2>2, <2>4, StaysCovered
    <2> QED  BY <1>3, <2>2, <2>5 DEF Covers, EndUndo
  <1>4. CASE EndBlock
    <2>1. PICK p \in Blocks : At(p) /\ Covers(p)
      BY <1>4 DEF EndBlock, IndexIsCovering, Running
    <2>2. PICK q \in Blocks : q = cur  BY <1>1, <1>4 DEF EndBlock, TypeOK
    <2>3. At(q)'  BY <1>4, <2>1, <2>2, AppliedAt
    <2>4. Covered(q)  BY <1>4, <2>1, <2>2 DEF EndBlock, Covers
    <2>5. Covered(q)'  BY <2>4, StaysCovered
    <2> QED  BY <1>4, <2>3, <2>5 DEF Covers, EndBlock
  <1>5. CASE GivesUp
    <2>1. PICK q \in Blocks : q = tip /\ At(q)'  BY <1>5, GivesUpAt
    <2>2. phase # "boot" /\ phase' = "free"  BY <1>5, GivesUpAt DEF Running
    <2>3. Covered(q)
      BY <1>1, <2>1, <2>2, ChainAssumption DEF TipStored, IndexIsCovering
    <2>4. Covered(q)'  BY <2>3, StaysCovered
    <2> QED  BY <2>1, <2>2, <2>4 DEF Covers
  <1>6. CASE SaveGenesisTip \/ RecoverDone
    <2>1. PICK q \in Blocks : q = tip' /\ At(q)'  BY <1>6, StartedAt
    <2>2. phase' = "free"  BY <1>6, StartedAt
    <2>3. dbTip' = q  BY <1>1, <2>1, <2>2 DEF TipStored
    <2>4. Covered(q)'
      BY <2>3, TipStaysCovered, ChainAssumption DEF Covered
    <2> QED  BY <2>1, <2>2, <2>4 DEF Covers
  <1>7. CASE SaveGenesis \/ LoadTip \/ RecoverStep \/ Stop
    BY <1>7 DEF SaveGenesis, LoadTip, RecoverStep, Stop, Running
  <1> QED  BY <1>2, <1>3, <1>4, <1>5, <1>6, <1>7, NextCases

(* Every step, refusals and stops included, keeps the heights covered.      *)
LEMMA IndexIsCoveringStep ==
  ChainInv /\ IndexIsCovering /\ [Next]_vars => IndexIsCovering'
  <1> SUFFICES ASSUME ChainInv, IndexIsCovering, [Next]_vars  PROVE IndexIsCovering'
    OBVIOUS
  <1>1. CASE UNCHANGED vars
    BY <1>1
    DEF vars, db, work, IndexIsCovering, Fresh, Covered, Covers, Running, At, Working,
        Applying, Highest, Lowest
  <1>2. CASE Next
    <2>1. Fresh'  BY <1>2, FreshStep DEF IndexIsCovering
    <2>2. (dbTip # NoBlock => Covered(dbTip))'  BY <1>2, TipStaysCovered
    <2>3. (Running => \E p \in Blocks : At(p) /\ Covers(p))'
      BY <1>2, PositionStaysCovered
    <2> QED  BY <2>1, <2>2, <2>3 DEF IndexIsCovering
  <1> QED  BY <1>1, <1>2

(***************************************************************************)
(* Whatever blocks come, whatever is refused and wherever the node stops,  *)
(* every height up to the tip resolves to a block: an index entry is only  *)
(* ever overwritten, by a block of the same height, and recovery follows   *)
(* the index itself.                                                       *)
(***************************************************************************)
THEOREM IndexHasNoGap == Spec => []IndexCoversTip
  <1>1. Init => IndexIsCovering
    BY DEF Init, IndexIsCovering, Fresh, Running
  <1>2. ChainInv /\ IndexIsCovering => IndexCoversTip
    <2> SUFFICES ASSUME ChainInv, IndexIsCovering, phase = "free"
                 PROVE  \A h \in 0..Height[tip] : AtHeight(h) # {}
      BY DEF IndexCoversTip
    <2>1. tip = dbTip /\ tip # NoBlock  BY DEF ChainInv, TypeOK, TipStored
    <2>2. Covered(tip)  BY <2>1 DEF IndexIsCovering
    <2> QED  BY <2>2 DEF Covered, AtHeight
  <1> QED  BY <1>1, <1>2, IndexIsCoveringStep, ChainInvariant, PTL DEF Spec

-----------------------------------------------------------------------------
(* A node that has not stopped since its first start.                        *)

NeverStopped ==
  /\ stops = 0
  /\ phase # "recover"
  /\ phase = "boot" => dbTip = NoBlock

(* Without a stop no start has anything to recover.                         *)
LEMMA NeverStoppedStep ==
  ASSUME MaxStops = 0, NeverStopped, Next
  PROVE  NeverStopped' /\ ~(LoadTip \/ RecoverStep \/ RecoverDone \/ Stop)
  <1> USE DEF NeverStopped, Running
  <1>1. ~(LoadTip \/ RecoverStep \/ RecoverDone \/ Stop)
    BY DEF LoadTip, RecoverStep, RecoverDone, Stop
  <1>2. stops' = stops
    BY <1>1
    DEF Next, SaveGenesis, SaveGenesisTip, AddLimbo, AddUnverified, EndVerify,
        AbandonVerify, BeginVerify, StoreExtending, StoreReorganizing, StoreOnly,
        Store, BeginUndo, UndoMissing, DeleteOut, AddOut, DeleteTxIndex, EndUndo,
        BeginBlock, BeginTx, EndTx, TxRefused, EndProcess, UpdateHeightIndex,
        SaveBlockUndo, SaveTxIndex, EndBlock, SaveChainTip
  <1> SUFFICES NeverStopped'  BY <1>1
  <1>3. CASE Stays  BY <1>2, <1>3, StaysRunning
  <1>4. CASE EndUndo \/ EndBlock  BY <1>2, <1>4 DEF EndUndo, EndBlock
  <1>5. CASE GivesUp  BY <1>2, <1>5 DEF GivesUp, TxRefused, UndoMissing, Return
  <1>6. CASE SaveGenesis \/ SaveGenesisTip
    BY <1>2, <1>6 DEF SaveGenesis, SaveGenesisTip
  <1> QED  BY <1>1, <1>3, <1>4, <1>5, <1>6, NextCases

-----------------------------------------------------------------------------
(* Every block of the main chain can be rolled back.                         *)

(***************************************************************************)
(* There are undo records for the chain of the tip, which a refused call   *)
(* returns to, and for the chain the database stands on, which the tip     *)
(* moves to.                                                               *)
(***************************************************************************)
Undoable(b) == Ancestors[b] \ {Genesis} \subseteq undone

UndoIsComplete ==
  Running => \E p \in Blocks : /\ At(p)
                               /\ Undoable(p) /\ Undoable(tip)
                               /\ phase = "txindex" => cur \in undone

(* No undo record is deleted.                                               *)
LEMMA UndoneGrows ==
  ASSUME Next
  PROVE  undone \subseteq undone'
  BY DEF Next, db, SaveGenesis, SaveGenesisTip, LoadTip, RecoverStep, RecoverDone, Stop,
         AddLimbo, AddUnverified, EndVerify, AbandonVerify, BeginVerify,
         StoreExtending, StoreReorganizing, StoreOnly, Store, BeginUndo, UndoMissing,
         DeleteOut, AddOut, DeleteTxIndex, EndUndo, BeginBlock, BeginTx, EndTx,
         TxRefused, EndProcess, UpdateHeightIndex, SaveBlockUndo, SaveTxIndex,
         EndBlock, SaveChainTip

(* What can be rolled back stays so.                                        *)
LEMMA StaysUndoable == ASSUME Next, NEW b, Undoable(b) PROVE Undoable(b)'
  BY UndoneGrows DEF Undoable

(* The steps that enter and make the phase after the undo record is saved.   *)
LEMMA RecordedSteps ==
  ASSUME Stays, phase' = "txindex"
  PROVE  cur' = cur /\ (cur \in undone' \/ phase = "txindex")
  <1> USE DEF work, Return, BeginApply
  <1>1. CASE \/ \E b \in Blocks : AddLimbo(b) \/ AddUnverified(b)
             \/ \E c \in Callers : EndVerify(c) \/ AbandonVerify(c)
             \/ \E c \in Callers, b \in Blocks : BeginVerify(c, b)
    BY <1>1 DEF AddLimbo, AddUnverified, EndVerify, AbandonVerify, BeginVerify
  <1>2. CASE \/ StoreExtending \/ StoreReorganizing \/ StoreOnly
             \/ BeginUndo \/ DeleteOut \/ AddOut \/ DeleteTxIndex
    BY <1>2
    DEF StoreExtending, StoreReorganizing, StoreOnly, BeginUndo, DeleteOut, AddOut,
        DeleteTxIndex
  <1>3. CASE \/ BeginBlock \/ BeginTx \/ EndTx \/ EndProcess
             \/ UpdateHeightIndex \/ SaveBlockUndo \/ SaveTxIndex \/ SaveChainTip
    BY <1>3
    DEF BeginBlock, BeginTx, EndTx, EndProcess, UpdateHeightIndex, SaveBlockUndo,
        SaveTxIndex, SaveChainTip
  <1> QED  BY <1>1, <1>2, <1>3 DEF Stays

(* The tip stays, or becomes the block the database stands on.               *)
LEMMA TipSteps ==
  ASSUME ChainInv, NEW p \in Blocks, At(p), Stays
  PROVE  tip' \in {tip, p}
  <1> USE DEF db
  <1>1. CASE SaveChainTip
    BY <1>1, StaysAt DEF SaveChainTip, Return, At
  <1>2. CASE \/ \E b \in Blocks : AddLimbo(b) \/ AddUnverified(b)
             \/ \E c \in Callers : EndVerify(c) \/ AbandonVerify(c)
             \/ \E c \in Callers, b \in Blocks : BeginVerify(c, b)
    BY <1>2 DEF AddLimbo, AddUnverified, EndVerify, AbandonVerify, BeginVerify
  <1>3. CASE \/ StoreExtending \/ StoreReorganizing \/ StoreOnly
             \/ BeginUndo \/ DeleteOut \/ AddOut \/ DeleteTxIndex
    BY <1>3
    DEF StoreExtending, StoreReorganizing, StoreOnly, Store, BeginUndo, DeleteOut,
        AddOut, DeleteTxIndex
  <1>4. CASE \/ BeginBlock \/ BeginTx \/ EndTx \/ EndProcess
             \/ UpdateHeightIndex \/ SaveBlockUndo \/ SaveTxIndex
    BY <1>4
    DEF BeginBlock, BeginTx, EndTx, EndProcess, UpdateHeightIndex, SaveBlockUndo,
        SaveTxIndex
  <1> QED  BY <1>1, <1>2, <1>3, <1>4 DEF Stays

(* Every step keeps the applied blocks recorded.                            *)
LEMMA UndoIsCompleteStep ==
  ASSUME ChainInv, NeverStopped, MaxStops = 0, UndoIsComplete, Next
  PROVE  UndoIsComplete'
  <1> SUFFICES ASSUME Running'
               PROVE  \E p \in Blocks : /\ At(p)'
                                        /\ Undoable(p)' /\ Undoable(tip)'
                                        /\ (phase = "txindex" => cur \in undone)'
    BY DEF UndoIsComplete
  <1>1. CASE Stays
    <2>1. PICK p \in Blocks : /\ At(p) /\ Undoable(p) /\ Undoable(tip)
                              /\ phase = "txindex" => cur \in undone
      BY <1>1, StaysRunning DEF UndoIsComplete
    <2>2. At(p)' /\ Undoable(p)'  BY <1>1, <2>1, StaysAt, StaysUndoable
    <2>3. Undoable(tip)'
      BY <1>1, <2>1, TipSteps, UndoneGrows DEF Undoable
    <2>4. (phase = "txindex" => cur \in undone)'
      BY <1>1, <2>1, RecordedSteps, UndoneGrows
    <2> QED  BY <2>2, <2>3, <2>4
  <1>2. CASE EndUndo
    <2>1. PICK p \in Blocks : At(p) /\ Undoable(p) /\ Undoable(tip)
      BY <1>2 DEF EndUndo, UndoIsComplete, Running
    <2>2. Parent[p] \in Blocks /\ p # Genesis /\ At(Parent[p])'
      BY <1>2, <2>1, UndoneAt
    <2>3. Undoable(Parent[p])  BY <2>1, <2>2, OwnAncestry DEF Undoable
    <2> QED  BY <1>2, <2>1, <2>2, <2>3 DEF EndUndo, Undoable, db
  <1>3. CASE EndBlock
    <2>1. PICK p \in Blocks : /\ At(p) /\ Undoable(p) /\ Undoable(tip)
                              /\ phase = "txindex" => cur \in undone
      BY <1>3 DEF EndBlock, UndoIsComplete, Running
    <2>2. /\ cur \in Blocks /\ Ancestors[cur] = Ancestors[p] \cup {cur}
          /\ phase = "txindex"
      BY <1>3, <2>1, NextToApply DEF EndBlock, Applying
    <2>3. PICK q \in Blocks : q = cur  BY <2>2
    <2>4. At(q)'  BY <1>3, <2>1, <2>3, AppliedAt
    <2> QED  BY <1>3, <2>1, <2>2, <2>3, <2>4 DEF EndBlock, Undoable, db
  <1>4. CASE GivesUp
    <2>1. PICK q \in Blocks : q = tip /\ At(q)'  BY <1>4, GivesUpAt
    <2>2. Undoable(tip)  BY <1>4, GivesUpAt DEF UndoIsComplete
    <2> QED  BY <1>4, <2>1, <2>2, GivesUpAt DEF Undoable, db
  <1>5. CASE SaveGenesisTip
    <2>1. PICK q \in Blocks : q = tip' /\ At(q)'  BY <1>5, StartedAt
    <2>2. q = Genesis /\ phase' = "free"  BY <1>5, <2>1 DEF SaveGenesisTip
    <2> QED  BY <2>1, <2>2, TreeAssumption DEF Undoable
  <1>6. CASE SaveGenesis  BY <1>6 DEF SaveGenesis, Running
  <1> QED  BY <1>1, <1>2, <1>3, <1>4, <1>5, <1>6, NextCases, NeverStoppedStep

(* The invariant behind UndoRecordsKept.                                    *)
LEMMA UndoInvariant ==
  ASSUME MaxStops = 0
  PROVE  Spec => [](NeverStopped /\ UndoIsComplete)
  <1> DEFINE I == NeverStopped /\ UndoIsComplete
  <1>1. Init => I  BY DEF Init, NeverStopped, UndoIsComplete, Running
  <1>2. ChainInv /\ I /\ [Next]_vars => I'
    <2> SUFFICES ASSUME ChainInv, I, [Next]_vars  PROVE I'
      OBVIOUS
    <2>1. CASE UNCHANGED vars
      BY <2>1
      DEF vars, db, work, NeverStopped, UndoIsComplete, Undoable, Running, At, Working,
          Applying, Highest, Lowest
    <2>2. CASE Next  BY <2>2, NeverStoppedStep, UndoIsCompleteStep
    <2> QED  BY <2>1, <2>2
  <1> QED  BY <1>1, <1>2, ChainInvariant, PTL DEF Spec

(***************************************************************************)
(* On a node that is never stopped every block of the main chain but       *)
(* genesis has its undo record, through every reorganisation, also one     *)
(* that is refused half way.  (After a stop it need not: recovery adopts a *)
(* block whose record was not yet written.)                                *)
(***************************************************************************)
THEOREM UndoRecordsKept == MaxStops = 0 => (Spec => []UndoOnMainChain)
  <1> SUFFICES ASSUME MaxStops = 0  PROVE Spec => []UndoOnMainChain
    OBVIOUS
  <1>1. UndoIsComplete => UndoOnMainChain
    BY DEF UndoIsComplete, UndoOnMainChain, Undoable, Running
  <1>2. Spec => [](NeverStopped /\ UndoIsComplete)  BY UndoInvariant
  <1> QED  BY <1>1, <1>2, PTL

(* The database stands on one block.                                         *)
LEMMA AtIsUnique ==
  ASSUME ChainInv, Running, NEW p \in Blocks, NEW q \in Blocks, At(p), At(q)
  PROVE  p = q
  <1>1. CASE phase \in {"free", "save"}  BY <1>1 DEF At
  <1>2. CASE phase \in Working
    <2>1. Ancestors[p] = Ancestors[q]  BY <1>2 DEF At
    <2> QED  BY <2>1, SameAncestors
  <1> QED  BY <1>1, <1>2 DEF Running, Working, ChainInv, TypeOK, Phases

(* No undo record is missing when it is needed.                              *)
LEMMA UndoIsFound == ChainInv /\ UndoIsComplete => ~UndoMissing
  <1> SUFFICES ASSUME ChainInv, UndoIsComplete, UndoMissing  PROVE FALSE
    OBVIOUS
  <1>1. /\ phase = "next" /\ rollback # {} /\ Highest(rollback) \cap undone = {}
        /\ target \in Blocks
    BY DEF UndoMissing, ChainInv, TypeOK
  <1>2. PICK p \in Blocks : At(p) /\ Undoable(p)
    BY <1>1 DEF UndoIsComplete, Running
  <1>3. rollback = Ancestors[p] \ Ancestors[target]
    BY <1>1, <1>2 DEF At, Working
  <1>4. p \in Ancestors[p]  BY OwnAncestry
  <1>5. p \in rollback
    BY <1>1, <1>3, <1>4, AncestorFacts
  <1>6. p \in Highest(rollback)
    BY <1>3, <1>5, AncestorFacts DEF Highest
  <1>7. p # Genesis  BY <1>1, <1>3, <1>5, AncestorFacts
  <1> QED  BY <1>1, <1>2, <1>4, <1>6, <1>7 DEF Undoable

-----------------------------------------------------------------------------
(* What a valid block does to the unspent outputs.                           *)

LEMMA ValidReplay ==
  ASSUME NEW b \in Blocks, b # Genesis, Valid(b)
  PROVE  /\ Replay[b] = (Replay[Parent[b]] \ SpentBy(b)) \cup CreatedBy(b)
         /\ Replay[Parent[b]] = (Replay[b] \ CreatedBy(b)) \cup SpentBy(b)
         /\ SpentBy(b) \cap Replay[b] = {}
         /\ SpentBy(b) \cap CreatedBy(b) = {}
  BY ReplayAssumption DEF Valid

Distinct(s) == \A i, j \in DOMAIN s : i # j => s[i] # s[j]

(* A sequence without repetition loses exactly its head.                    *)
LEMMA TailOfDistinct ==
  ASSUME NEW S, NEW s \in Seq(S), s # <<>>, Distinct(s)
  PROVE  /\ Distinct(Tail(s))
         /\ Head(s) \in ToSet(s)
         /\ ToSet(Tail(s)) = ToSet(s) \ {Head(s)}
  <1>1. /\ Tail(s) \in Seq(S) /\ Len(Tail(s)) = Len(s) - 1
        /\ \A i \in 1 .. Len(Tail(s)) : Tail(s)[i] = s[i+1]
        /\ Head(s) = s[1] /\ Len(s) \in Nat /\ Len(s) # 0
    BY HeadTailProperties, LenProperties, EmptySeq
  <1>2. DOMAIN s = 1..Len(s) /\ DOMAIN Tail(s) = 1..(Len(s) - 1)
    BY <1>1, LenProperties
  <1>3. Distinct(Tail(s))  BY <1>1, <1>2 DEF Distinct
  <1>4. Head(s) \in ToSet(s)  BY <1>1, <1>2 DEF ToSet
  <1>5. ASSUME NEW x \in ToSet(Tail(s))  PROVE x \in ToSet(s) /\ x # Head(s)
    <2>1. PICK i \in 1..(Len(s) - 1) : x = s[i+1]  BY <1>1, <1>2 DEF ToSet
    <2>2. i+1 \in 1..Len(s) /\ i+1 # 1 /\ 1 \in 1..Len(s)  BY <1>1
    <2> QED  BY <1>1, <1>2, <2>1, <2>2 DEF ToSet, Distinct
  <1>6. ASSUME NEW x \in ToSet(s), x # Head(s)  PROVE x \in ToSet(Tail(s))
    <2>1. PICK i \in 1..Len(s) : x = s[i]  BY <1>2 DEF ToSet
    <2>2. i # 1  BY <1>1, <1>6, <2>1
    <2>3. i-1 \in 1..(Len(s) - 1) /\ (i-1)+1 = i  BY <1>1, <2>2
    <2> QED  BY <1>1, <1>2, <2>1, <2>3 DEF ToSet
  <1> QED  BY <1>3, <1>4, <1>5, <1>6

(* The transactions of a valid block are distinct and share no input.        *)
LEMMA TxsAreDistinct ==
  ASSUME NEW b \in Blocks, b # Genesis, Valid(b)
  PROVE  /\ Distinct(TxSeq[b])
         /\ \A t, u \in ToSet(TxSeq[b]) : t # u => Ins[t] \cap Ins[u] = {}
  <1>1. TxSeq[b] \in Seq(Txs) /\ DOMAIN TxSeq[b] = 1..Len(TxSeq[b])
    BY LedgerAssumption, LenProperties
  <1>2. \A i \in 1..Len(TxSeq[b]) : Ins[TxSeq[b][i]] = {} <=> i = 1
    BY LedgerAssumption
  <1>3. \A i, j \in DOMAIN TxSeq[b] :
          i # j => Ins[TxSeq[b][i]] \cap Ins[TxSeq[b][j]] = {}
    BY DEF Valid
  <1>4. ASSUME NEW i \in DOMAIN TxSeq[b], NEW j \in DOMAIN TxSeq[b], i # j,
               TxSeq[b][i] = TxSeq[b][j]
        PROVE  FALSE
    <2>1. Ins[TxSeq[b][i]] = {}  BY <1>3, <1>4
    <2>2. i = 1 /\ j = 1  BY <1>1, <1>2, <1>4, <2>1
    <2> QED  BY <1>4, <2>2
  <1> QED  BY <1>3, <1>4 DEF Distinct, ToSet

(* ProcessBlock takes each of them once, the coinbase last.                  *)
LEMMA ProcessOrderIsDistinct ==
  ASSUME NEW b \in Blocks, b # Genesis, Valid(b)
  PROVE  /\ ProcessOrder(b) \in Seq(Txs)
         /\ Distinct(ProcessOrder(b))
         /\ ToSet(ProcessOrder(b)) = ToSet(TxSeq[b])
  <1> DEFINE s == TxSeq[b]
             o == ProcessOrder(b)
  <1>1. s \in Seq(Txs) /\ s # <<>> /\ Distinct(s)
    BY LedgerAssumption, TxsAreDistinct
  <1>2. /\ Distinct(Tail(s))
        /\ Head(s) \in ToSet(s)
        /\ ToSet(Tail(s)) = ToSet(s) \ {Head(s)}
    BY <1>1, TailOfDistinct
  <1>3. Head(s) \in Txs /\ Tail(s) \in Seq(Txs)  BY <1>1, HeadTailProperties
  <1>4. /\ o \in Seq(Txs) /\ Len(o) = Len(Tail(s)) + 1
        /\ \A i \in 1..Len(Tail(s)) : o[i] = Tail(s)[i]
        /\ o[Len(Tail(s)) + 1] = Head(s)
    BY <1>3, AppendProperties DEF ProcessOrder
  <1>5. /\ DOMAIN o = 1..(Len(Tail(s)) + 1) /\ DOMAIN Tail(s) = 1..Len(Tail(s))
        /\ Len(Tail(s)) \in Nat
    BY <1>3, <1>4, LenProperties
  <1>6. ToSet(o) = ToSet(Tail(s)) \cup {Head(s)}
    BY <1>4, <1>5 DEF ToSet
  <1>7. \A i \in 1..Len(Tail(s)) : Tail(s)[i] # Head(s)
    BY <1>2, <1>5 DEF ToSet
  <1>8. Distinct(o)
    BY <1>2, <1>4, <1>5, <1>7 DEF Distinct
  <1> QED  BY <1>2, <1>4, <1>6, <1>8

-----------------------------------------------------------------------------
(* The unspent outputs, write by write.                                      *)

Used(txs) == UNION {Ins[tx] : tx \in txs}
Made(txs) == UNION {Creates[tx] : tx \in txs}

Done == ToSet(TxSeq[cur]) \ ToSet(todo)     \* transactions applied

(***************************************************************************)
(* What the UTXO set holds while the database stands on p: the outputs of  *)
(* p's chain, less what the rollback of p, or the transactions of its      *)
(* child, have changed so far.                                             *)
(***************************************************************************)
UndoingUTXO(p) ==
  /\ dels \subseteq CreatedBy(p) /\ adds \subseteq SpentBy(p)
  /\ utxo = (Replay[p] \ (CreatedBy(p) \ dels)) \cup (SpentBy(p) \ adds)

TodoOf(b) == todo \in Seq(Txs) /\ Distinct(todo) /\ ToSet(todo) \subseteq ToSet(TxSeq[b])

InTxUTXO(p) ==
  LET tx == Head(todo)
  IN  /\ todo # <<>>
      /\ dels \subseteq Ins[tx] /\ adds \subseteq Creates[tx]
      /\ utxo = (Replay[p] \ (Used(Done) \cup (Ins[tx] \ dels)))
                   \cup Made(Done) \cup (Creates[tx] \ adds)

UTXOAt(p) ==
  /\ phase \in {"free", "save", "next"} => utxo = Replay[p]
  /\ phase = "undo" => UndoingUTXO(p)
  /\ phase \in {"process", "tx"} => TodoOf(cur)
  /\ phase = "process" => utxo = (Replay[p] \ Used(Done)) \cup Made(Done)
  /\ phase = "tx" => InTxUTXO(p)
  /\ phase \in {"index", "record", "txindex"} => utxo = Replay[cur]

(* Nothing of a valid block is refused.                                      *)
LEMMA NothingRefused ==
  ASSUME ChainInv, BlocksAreValid, NEW p \in Blocks, At(p), UTXOAt(p)
  PROVE  ~TxRefused
  <1> SUFFICES ASSUME TxRefused  PROVE FALSE
    OBVIOUS
  <1>1. phase \in {"process", "tx"} /\ todo # <<>>
    BY DEF TxRefused, UTXOAt, InTxUTXO
  <1>2. /\ cur \in Blocks /\ cur # Genesis /\ Parent[cur] = p /\ Valid(cur)
    BY <1>1, NextToApply DEF Applying, BlocksAreValid
  <1> DEFINE tx == Head(todo)
  <1>3. tx \in ToSet(todo) /\ tx \in ToSet(TxSeq[cur])
    BY <1>1, TailOfDistinct DEF UTXOAt, TodoOf
  <1>4. /\ IsCoinbase(tx) => ~Overclaims(tx, cur)
        /\ ~IsCoinbase(tx) => ~Overspends(tx) /\ \A o \in Ins[tx] : Mature(o, Height[cur])
    BY <1>2, <1>3 DEF Valid
  <1>5. ~Overspends(tx)  BY <1>4 DEF Overspends
  <1>6. CASE phase = "process" /\ ~TxPasses(tx, cur)
    <2>1. ~IsCoinbase(tx) /\ ~(Ins[tx] \subseteq utxo)
      BY <1>4, <1>6 DEF TxPasses, InputsValid
    <2>2. Ins[tx] \subseteq Replay[p]
      BY <1>2, <1>3 DEF Valid, SpentBy
    <2>3. Ins[tx] \cap Used(Done) = {}
      BY <1>2, <1>3, TxsAreDistinct DEF Used, Done
    <2> QED  BY <1>6, <2>1, <2>2, <2>3 DEF UTXOAt
  <1> QED  BY <1>5, <1>6 DEF TxRefused

(* Outside the loops over outputs no step changes the set.                   *)
LEMMA UTXOEnter ==
  ASSUME NEW p \in Blocks, UTXOAt(p),
         \/ \E b \in Blocks : AddLimbo(b) \/ AddUnverified(b)
         \/ \E c \in Callers : EndVerify(c) \/ AbandonVerify(c)
         \/ \E c \in Callers, b \in Blocks : BeginVerify(c, b)
         \/ StoreExtending \/ StoreReorganizing \/ StoreOnly
         \/ SaveChainTip
  PROVE  UTXOAt(p)'
  <1>1. /\ phase \in {"free", "save", "next"} /\ phase' \in {"free", "save", "next"}
        /\ utxo' = utxo
    BY DEF db, work, Return, BeginApply, AddLimbo, AddUnverified, EndVerify, AbandonVerify,
           BeginVerify, StoreExtending, StoreReorganizing, StoreOnly, Store, SaveChainTip
  <1> QED  BY <1>1 DEF UTXOAt

(* Rolling a block back: its outputs go, those it spent return.             *)
LEMMA UTXOUndo ==
  ASSUME ChainInv, BlocksAreValid, NEW p \in Blocks, At(p), UTXOAt(p),
         BeginUndo \/ DeleteTxIndex \/ (phase = "undo" /\ (DeleteOut \/ AddOut))
  PROVE  UTXOAt(p)'
  <1>1. At(p)' /\ phase' = "undo"
    BY StaysAt DEF Stays, BeginUndo, DeleteTxIndex, DeleteOut, AddOut
  <1> SUFFICES UndoingUTXO(p)'
    BY <1>1 DEF UTXOAt
  <1>2. /\ p # Genesis /\ cur' = p
    <2>1. cur' \in Highest(Ancestors[p] \ Ancestors[target]) /\ target \in Blocks
      BY <1>1
      DEF At, Working, BeginUndo, DeleteTxIndex, DeleteOut, AddOut, ChainInv, TypeOK
    <2> QED  BY <2>1, TopOfBranch
  <1>3. SpentBy(p) \cap CreatedBy(p) = {}
    BY <1>2, ValidReplay DEF BlocksAreValid
  <1>4. CASE BeginUndo
    <2>1. dels' = CreatedBy(p) /\ adds' = SpentBy(p) /\ utxo' = utxo /\ utxo = Replay[p]
      BY <1>2, <1>4 DEF BeginUndo, db, UTXOAt
    <2> QED  BY <2>1 DEF UndoingUTXO
  <1>5. CASE DeleteTxIndex
    BY <1>5 DEF DeleteTxIndex, UTXOAt, UndoingUTXO
  <1>6. CASE phase = "undo" /\ DeleteOut
    <2>1. PICK o \in dels : utxo' = utxo \ {o} /\ dels' = dels \ {o} /\ adds' = adds
      BY <1>6 DEF DeleteOut
    <2> QED  BY <1>3, <1>6, <2>1 DEF UTXOAt, UndoingUTXO
  <1>7. CASE phase = "undo" /\ AddOut
    <2>1. PICK o \in adds : utxo' = utxo \cup {o} /\ adds' = adds \ {o} /\ dels' = dels
      BY <1>7 DEF AddOut
    <2> QED  BY <1>7, <2>1 DEF UTXOAt, UndoingUTXO
  <1> QED  BY <1>4, <1>5, <1>6, <1>7

(* Applying a block, one transaction after the other.                       *)
LEMMA UTXOProcess ==
  ASSUME ChainInv, BlocksAreValid, NEW p \in Blocks, At(p), UTXOAt(p),
         \/ BeginBlock \/ BeginTx \/ EndTx \/ EndProcess
         \/ phase = "tx" /\ (DeleteOut \/ AddOut)
  PROVE  UTXOAt(p)'
  <1>1. At(p)'
    BY StaysAt DEF Stays
  <1>2. ASSUME phase \in {"process", "tx"}
        PROVE  cur \in Blocks /\ cur # Genesis /\ Parent[cur] = p /\ Valid(cur)
    BY <1>2, NextToApply DEF Applying, BlocksAreValid
  <1>3. ASSUME phase \in {"process", "tx"}, todo # <<>>
        PROVE  /\ Head(todo) \in ToSet(todo) /\ Head(todo) \in ToSet(TxSeq[cur])
               /\ Distinct(Tail(todo)) /\ Tail(todo) \in Seq(Txs)
               /\ ToSet(Tail(todo)) = ToSet(todo) \ {Head(todo)}
    BY <1>3, TailOfDistinct, HeadTailProperties DEF UTXOAt, TodoOf
  <1>4. CASE BeginBlock
    <2>1. /\ phase' = "process" /\ utxo' = Replay[p] /\ apply' = apply
          /\ cur' \in Lowest(apply) /\ todo' = ProcessOrder(cur')
      BY <1>4 DEF BeginBlock, db, UTXOAt
    <2>2. cur' \in Blocks /\ cur' # Genesis
      <3>1. cur' \in apply  BY <2>1 DEF Lowest
      <3> QED  BY <3>1 DEF ChainInv, StoreConnected, TypeOK
    <2>3. /\ todo' \in Seq(Txs) /\ Distinct(todo')
          /\ ToSet(todo') = ToSet(TxSeq[cur'])
      BY <2>1, <2>2, ProcessOrderIsDistinct DEF BlocksAreValid
    <2>4. Done' = {}  BY <2>3 DEF Done
    <2>5. Used(Done') = {} /\ Made(Done') = {}  BY <2>4 DEF Used, Made
    <2> QED  BY <2>1, <2>3, <2>5 DEF UTXOAt, TodoOf, Used, Made
  <1>5. CASE BeginTx
    <2>1. /\ phase = "process" /\ phase' = "tx" /\ todo # <<>>
          /\ UNCHANGED <<utxo, todo, cur>>
          /\ dels' = Ins[Head(todo)] /\ adds' = Creates[Head(todo)]
      BY <1>5 DEF BeginTx, db
    <2>2. InTxUTXO(p)'  BY <2>1 DEF InTxUTXO, Done, Used, Made, UTXOAt
    <2> QED  BY <2>1, <2>2 DEF UTXOAt, TodoOf
  <1>6. CASE EndTx
    <2>1. /\ phase = "tx" /\ phase' = "process" /\ dels = {} /\ adds = {}
          /\ UNCHANGED <<utxo, cur>> /\ todo' = Tail(todo)
      BY <1>6 DEF EndTx, db
    <2>2. InTxUTXO(p) /\ TodoOf(cur)  BY <2>1 DEF UTXOAt
    <2>3. todo # <<>>  BY <2>2 DEF InTxUTXO
    <2> DEFINE tx == Head(todo)
    <2>4. Done' = Done \cup {tx}
      BY <1>3, <2>1, <2>3 DEF Done
    <2>5. Used(Done)' = Used(Done) \cup Ins[tx] /\ Made(Done)' = Made(Done) \cup Creates[tx]
      BY <2>4 DEF Used, Made
    <2>6. /\ tx \notin Done /\ tx \in ToSet(TxSeq[cur])  BY <1>3, <2>1, <2>3 DEF Done
    <2>7. utxo' = (Replay[p] \ Used(Done)') \cup Made(Done)'
      BY <2>1, <2>2, <2>5 DEF InTxUTXO
    <2>8. TodoOf(cur)'
      BY <1>3, <2>1, <2>2, <2>3 DEF TodoOf
    <2> QED  BY <2>1, <2>7, <2>8 DEF UTXOAt
  <1>7. CASE EndProcess
    <2>1. /\ phase = "process" /\ phase' = "index" /\ todo = <<>>
          /\ UNCHANGED <<utxo, cur>>
      BY <1>7 DEF EndProcess, db, work
    <2>2. Done = ToSet(TxSeq[cur])  BY <2>1 DEF Done, ToSet
    <2>3. utxo = (Replay[p] \ SpentBy(cur)) \cup CreatedBy(cur)
      BY <2>1, <2>2 DEF UTXOAt, Used, Made, SpentBy, CreatedBy
    <2>4. utxo = Replay[cur]  BY <1>2, <2>1, <2>3, ValidReplay
    <2> QED  BY <2>1, <2>4 DEF UTXOAt
  <1>8. CASE phase = "tx" /\ (DeleteOut \/ AddOut)
    <2>1. UNCHANGED <<phase, todo, cur>>  BY <1>8 DEF DeleteOut, AddOut
    <2>2. InTxUTXO(p) /\ TodoOf(cur)  BY <1>8 DEF UTXOAt
    <2> DEFINE tx == Head(todo)
    <2>3. tx \in ToSet(TxSeq[cur])  BY <1>3, <1>8, <2>2 DEF InTxUTXO
    <2>4. Ins[tx] \subseteq SpentBy(cur) /\ Made(Done) \subseteq CreatedBy(cur)
          /\ Creates[tx] \subseteq CreatedBy(cur)
      BY <2>3 DEF SpentBy, CreatedBy, Made, Done
    <2>5. Ins[tx] \cap (Made(Done) \cup Creates[tx]) = {}
      BY <1>2, <1>8, <2>4, ValidReplay
    <2>6. Done' = Done  BY <2>1 DEF Done
    <2>7. InTxUTXO(p)'
      <3>1. CASE DeleteOut
        <4>1. PICK o \in dels : utxo' = utxo \ {o} /\ dels' = dels \ {o} /\ adds' = adds
          BY <3>1 DEF DeleteOut
        <4> QED  BY <2>1, <2>2, <2>5, <2>6, <4>1 DEF InTxUTXO
      <3>2. CASE AddOut
        <4>1. PICK o \in adds : utxo' = utxo \cup {o} /\ adds' = adds \ {o} /\ dels' = dels
          BY <3>2 DEF AddOut
        <4> QED  BY <2>1, <2>2, <2>6, <4>1 DEF InTxUTXO
      <3> QED  BY <1>8, <3>1, <3>2
    <2> QED  BY <1>8, <2>1, <2>2, <2>7 DEF UTXOAt, TodoOf
  <1> QED  BY <1>4, <1>5, <1>6, <1>7, <1>8

(* The other steps leave the set as it is.                                  *)
LEMMA UTXOStays ==
  ASSUME ChainInv, BlocksAreValid, NEW p \in Blocks, At(p), UTXOAt(p), Stays
  PROVE  UTXOAt(p)'
  <1>1. CASE UpdateHeightIndex \/ SaveBlockUndo \/ SaveTxIndex
    <2>1. /\ phase \in {"index", "record", "txindex"}
          /\ phase' \in {"index", "record", "txindex"}
          /\ UNCHANGED <<utxo, cur>>
      BY <1>1 DEF UpdateHeightIndex, SaveBlockUndo, SaveTxIndex, db, work
    <2> QED  BY <2>1 DEF UTXOAt
  <1>2. CASE DeleteOut \/ AddOut
    <2>1. phase \in {"undo", "tx"}  BY <1>2 DEF DeleteOut, AddOut
    <2> QED  BY <1>2, <2>1, UTXOUndo, UTXOProcess
  <1> QED  BY <1>1, <1>2, UTXOEnter, UTXOUndo, UTXOProcess DEF Stays

UTXOIsKept == Running => \E p \in Blocks : At(p) /\ UTXOAt(p)

(* So no call gives up once it has begun to write.                           *)
LEMMA NothingGivesUp ==
  ASSUME ChainInv, BlocksAreValid, UndoIsComplete, UTXOIsKept
  PROVE  ~GivesUp
  <1>1. TxRefused => Running  BY DEF TxRefused, Running
  <1> QED  BY <1>1, NothingRefused, UndoIsFound DEF GivesUp, UTXOIsKept

(* Every step keeps the UTXO set at the node's position.                    *)
LEMMA UTXOIsKeptStep ==
  ASSUME ChainInv, Fresh, NeverStopped, MaxStops = 0, BlocksAreValid,
         UndoIsComplete, UTXOIsKept, Next
  PROVE  UTXOIsKept'
  <1> SUFFICES ASSUME Running'
               PROVE  \E p \in Blocks : At(p)' /\ UTXOAt(p)'
    BY DEF UTXOIsKept
  <1>1. CASE Stays
    <2>1. PICK p \in Blocks : At(p) /\ UTXOAt(p)
      BY <1>1, StaysRunning DEF UTXOIsKept
    <2> QED  BY <1>1, <2>1, StaysAt, UTXOStays
  <1>2. CASE EndUndo
    <2>1. PICK p \in Blocks : At(p) /\ UTXOAt(p)
      BY <1>2 DEF EndUndo, UTXOIsKept, Running
    <2>2. Parent[p] \in Blocks /\ p # Genesis /\ At(Parent[p])'
      BY <1>2, <2>1, UndoneAt
    <2>3. utxo = (Replay[p] \ CreatedBy(p)) \cup SpentBy(p)
      BY <1>2, <2>1 DEF EndUndo, UTXOAt, UndoingUTXO
    <2>4. utxo = Replay[Parent[p]]
      BY <2>2, <2>3, ValidReplay DEF BlocksAreValid
    <2>5. phase' = "next" /\ utxo' = utxo  BY <1>2 DEF EndUndo, db
    <2> QED  BY <2>2, <2>4, <2>5 DEF UTXOAt
  <1>3. CASE EndBlock
    <2>1. PICK p \in Blocks : At(p) /\ UTXOAt(p)
      BY <1>3 DEF EndBlock, UTXOIsKept, Running
    <2>2. PICK q \in Blocks : q = cur
      BY <1>3, <2>1, NextToApply DEF EndBlock, Applying
    <2>3. At(q)'  BY <1>3, <2>1, <2>2, AppliedAt
    <2>4. utxo = Replay[q]  BY <1>3, <2>1, <2>2 DEF EndBlock, UTXOAt
    <2>5. phase' = "next" /\ utxo' = utxo  BY <1>3 DEF EndBlock, db
    <2> QED  BY <2>3, <2>4, <2>5 DEF UTXOAt
  <1>4. CASE SaveGenesisTip
    <2>1. PICK q \in Blocks : q = tip' /\ At(q)'  BY <1>4, StartedAt
    <2>2. q = Genesis /\ phase' = "free" /\ utxo' = {}
      BY <1>4, <2>1 DEF SaveGenesisTip, Fresh
    <2> QED  BY <2>1, <2>2, ReplayAssumption DEF UTXOAt
  <1>5. CASE SaveGenesis  BY <1>5 DEF SaveGenesis, Running
  <1> QED
    BY <1>1, <1>2, <1>3, <1>4, <1>5, NextCases, NeverStoppedStep, NothingGivesUp

(* Fresh holds in every behaviour, stops included.                          *)
LEMMA FreshInvariant == Spec => []Fresh
  <1>1. Init => Fresh  BY DEF Init, Fresh
  <1> QED  BY <1>1, FreshStep, ChainInvariant, PTL DEF Spec

(* The invariant behind UTXOFollowsTip.                                     *)
LEMMA UTXOInvariant ==
  ASSUME MaxStops = 0, BlocksAreValid
  PROVE  Spec => []UTXOIsKept
  <1> DEFINE I == NeverStopped /\ UndoIsComplete
  <1>1. Init => UTXOIsKept  BY DEF Init, UTXOIsKept, Running
  <1>2. ChainInv /\ Fresh /\ I /\ UTXOIsKept /\ [Next]_vars => UTXOIsKept'
    <2> SUFFICES ASSUME ChainInv, Fresh, I, UTXOIsKept, [Next]_vars
                 PROVE  UTXOIsKept'
      OBVIOUS
    <2>1. CASE UNCHANGED vars
      BY <2>1
      DEF vars, db, work, UTXOIsKept, Running, At, Working, Applying, Highest, Lowest,
          UTXOAt, UndoingUTXO, TodoOf, InTxUTXO, Done, Used, Made
    <2>2. CASE Next  BY <2>2, UTXOIsKeptStep
    <2> QED  BY <2>1, <2>2
  <1>3. Spec => []I  BY UndoInvariant
  <1> QED  BY <1>1, <1>2, <1>3, ChainInvariant, FreshInvariant, PTL DEF Spec

(***************************************************************************)
(* Through any sequence of extensions and reorganisations of valid blocks, *)
(* in any order of arrival and by any number of goroutines, the UTXO set   *)
(* of a node that is not stopped is the one a replay of its main chain     *)
(* gives.                                                                  *)
(***************************************************************************)
THEOREM UTXOFollowsTip ==
  MaxStops = 0 /\ BlocksAreValid => (Spec => []UTXOIsReplay)
  <1> SUFFICES ASSUME MaxStops = 0, BlocksAreValid  PROVE Spec => []UTXOIsReplay
    OBVIOUS
  <1>1. UTXOIsKept => UTXOIsReplay
    BY DEF UTXOIsKept, UTXOIsReplay, UTXOAt, At, Running
  <1>2. Spec => []UTXOIsKept  BY UTXOInvariant
  <1> QED  BY <1>1, <1>2, PTL

-----------------------------------------------------------------------------
(* The height index.                                                         *)

(***************************************************************************)
(* While the database stands on x, the index holds the chain of x and,     *)
(* above it, what is left of the chain of the tip: rolling back leaves its *)
(* entries to be overwritten.                                              *)
(***************************************************************************)
Indexes(x) == indexed = Ancestors[x] \cup {b \in Ancestors[tip] : Height[b] > Height[x]}

IndexAt(p) ==
  /\ phase \in {"record", "txindex"} => Indexes(cur)
  /\ phase \notin {"record", "txindex"} => Indexes(p)
  /\ phase \in Working => Height[target] >= Height[tip]

IndexStays == UNCHANGED <<indexed, tip>>

(* Calls that come and go, and the choice of a branch.                      *)
LEMMA IndexEnter ==
  ASSUME ChainInv, NEW p \in Blocks, At(p), IndexAt(p),
         \/ \E b \in Blocks : AddLimbo(b) \/ AddUnverified(b)
         \/ \E c \in Callers : EndVerify(c) \/ AbandonVerify(c)
         \/ \E c \in Callers, b \in Blocks : BeginVerify(c, b)
         \/ StoreExtending \/ StoreReorganizing \/ StoreOnly
  PROVE  IndexAt(p)'
  <1> USE DEF Working, db, Return, NoWork
  <1>1. IndexStays /\ phase \in {"free", "save"} /\ phase' \in {"free", "save", "next"}
    BY DEF IndexStays, BeginApply, work, AddLimbo, AddUnverified, EndVerify, AbandonVerify,
           BeginVerify, StoreExtending, StoreReorganizing, StoreOnly, Store
  <1>2. ASSUME phase' = "next"  PROVE Height[target'] >= Height[tip]
    <2>1. ASSUME NEW b \in Blocks, b # Genesis, Parent[b] = tip
          PROVE  Height[b] >= Height[tip]
      BY <2>1, TreeAssumption
    <2>2. ASSUME NEW b \in Blocks, AddLimbo(b)  PROVE Height[target'] >= Height[tip]
      BY <2>1, <2>2 DEF AddLimbo
    <2>3. CASE StoreExtending
      BY <2>1, <2>3 DEF StoreExtending, Store, ChainInv, TypeOK, CallsValid
    <2>4. CASE StoreReorganizing
      BY <2>4 DEF StoreReorganizing, Preferred
    <2> QED
      BY <1>1, <1>2, <2>2, <2>3, <2>4
      DEF AddUnverified, EndVerify, AbandonVerify, BeginVerify, StoreOnly
  <1>3. Indexes(p)'  BY <1>1 DEF IndexStays, Indexes, IndexAt
  <1>4. (phase \in Working => Height[target] >= Height[tip])'
    BY <1>1, <1>2 DEF IndexStays
  <1> QED  BY <1>1, <1>3, <1>4 DEF IndexAt

(* The steps of a change of branch that leave the height index alone.       *)
LEMMA IndexWorks ==
  ASSUME ChainInv, NEW p \in Blocks, At(p), IndexAt(p),
         \/ BeginUndo \/ DeleteOut \/ AddOut \/ DeleteTxIndex
         \/ BeginBlock \/ BeginTx \/ EndTx \/ EndProcess
         \/ SaveBlockUndo \/ SaveTxIndex
  PROVE  IndexAt(p)'
  <1>1. /\ UNCHANGED <<indexed, tip, target>>
        /\ phase \in Working /\ phase' \in Working
        /\ phase \in {"record", "txindex"} => phase' = "txindex" /\ cur' = cur
        /\ phase' \in {"record", "txindex"} => phase \in {"record", "txindex"}
    BY DEF Working, db, work, BeginUndo, DeleteOut, AddOut, DeleteTxIndex, BeginBlock,
           BeginTx, EndTx, EndProcess, SaveBlockUndo, SaveTxIndex
  <1> QED  BY <1>1 DEF IndexAt, Indexes

(* The one that does not: it enters a block and drops what it displaces.    *)
LEMMA IndexUpdated ==
  ASSUME ChainInv, NEW p \in Blocks, At(p), IndexAt(p), UpdateHeightIndex
  PROVE  IndexAt(p)'
  <1>1. /\ cur \in Blocks /\ Height[cur] = Height[p] + 1
        /\ Ancestors[cur] = Ancestors[p] \cup {cur}
        /\ Height[p] \in Nat /\ Height[cur] \in Nat
    BY NextToApply, TreeAssumption DEF UpdateHeightIndex, Applying
  <1>2. indexed = Ancestors[p] \cup {b \in Ancestors[tip] : Height[b] > Height[p]}
    BY DEF UpdateHeightIndex, IndexAt, Indexes
  <1>3. indexed' = {c \in indexed : Height[c] # Height[cur]} \cup {cur}
    BY DEF UpdateHeightIndex
  <1>4. tip \in Blocks /\ Ancestors[tip] \subseteq Blocks /\ Ancestors[p] \subseteq Blocks
    BY OwnAncestry DEF UpdateHeightIndex, ChainInv, TypeOK
  <1>5. \A b \in Blocks : Height[b] \in Nat  BY TreeAssumption
  <1>6. \A b \in Ancestors[p] : Height[b] <= Height[p]  BY AncestorFacts
  <1>7. \A b \in Ancestors[p] : Height[b] # Height[cur]
    <2>1. ASSUME NEW b \in Ancestors[p]  PROVE Height[b] # Height[cur]
      <3>1. Height[b] \in Nat /\ Height[b] <= Height[p]  BY <1>4, <1>5, <1>6
      <3> QED  BY <1>1, <3>1
    <2> QED  BY <2>1
  <1>8. \A b \in Ancestors[tip] :
          Height[b] > Height[cur] <=> Height[b] > Height[p] /\ Height[b] # Height[cur]
    <2>1. ASSUME NEW b \in Ancestors[tip]
          PROVE  Height[b] > Height[cur]
                   <=> Height[b] > Height[p] /\ Height[b] # Height[cur]
      <3>1. Height[b] \in Nat  BY <1>4, <1>5
      <3> QED  BY <1>1, <3>1
    <2> QED  BY <2>1
  <1>9. indexed' = Ancestors[cur] \cup {b \in Ancestors[tip] : Height[b] > Height[cur]}
    BY <1>1, <1>2, <1>3, <1>7, <1>8
  <1>10. UNCHANGED <<tip, cur, target>> /\ phase' = "record" /\ phase \in Working
    BY DEF UpdateHeightIndex, work, Working
  <1> QED  BY <1>9, <1>10 DEF IndexAt, Indexes

(* With the last block applied nothing of the old chain is left.             *)
LEMMA IndexAtTip ==
  ASSUME ChainInv, NEW p \in Blocks, At(p), IndexAt(p), SaveChainTip
  PROVE  IndexAt(p)'
  <1>1. p = target /\ tip' = target /\ phase' = "free" /\ phase = "next"
    BY StaysAt DEF Stays, SaveChainTip, Return, At
  <1>2. tip \in Blocks /\ \A b \in Blocks : Height[b] \in Nat
    BY TreeAssumption DEF SaveChainTip, ChainInv, TypeOK
  <1>3. Height[tip] <= Height[p]  BY <1>1, <1>2 DEF IndexAt, Working
  <1>4. \A q \in {p, tip} : \A b \in Ancestors[q] : ~(Height[b] > Height[p])
    <2>1. ASSUME NEW q \in {p, tip}, NEW b \in Ancestors[q]
          PROVE  ~(Height[b] > Height[p])
      <3>1. q \in Blocks /\ b \in Blocks  BY <1>2, OwnAncestry
      <3>2. Height[b] <= Height[q] /\ Height[q] <= Height[p]
        BY <1>2, <1>3, <3>1, AncestorFacts
      <3> QED  BY <1>2, <3>1, <3>2
    <2> QED  BY <2>1
  <1>5. indexed = Ancestors[p]  BY <1>1, <1>4 DEF IndexAt, Indexes
  <1>6. indexed' = indexed  BY DEF SaveChainTip
  <1> QED  BY <1>1, <1>4, <1>5, <1>6 DEF IndexAt, Indexes, Working

IndexIsExact == Running => \E p \in Blocks : At(p) /\ IndexAt(p)

(* Every step keeps the height index at the node's position.                *)
LEMMA IndexIsExactStep ==
  ASSUME ChainInv, Fresh, NeverStopped, MaxStops = 0, ~GivesUp, IndexIsExact, Next
  PROVE  IndexIsExact'
  <1> SUFFICES ASSUME Running'
               PROVE  \E p \in Blocks : At(p)' /\ IndexAt(p)'
    BY DEF IndexIsExact
  <1>1. CASE Stays
    <2>1. PICK p \in Blocks : At(p) /\ IndexAt(p)
      BY <1>1, StaysRunning DEF IndexIsExact
    <2>2. IndexAt(p)'
      BY <1>1, <2>1, IndexEnter, IndexWorks, IndexUpdated, IndexAtTip DEF Stays
    <2> QED  BY <1>1, <2>1, <2>2, StaysAt
  <1>2. CASE EndUndo
    <2>1. PICK p \in Blocks : At(p) /\ IndexAt(p)
      BY <1>2 DEF EndUndo, IndexIsExact, Running
    <2>2. /\ cur = p /\ Parent[p] \in Blocks /\ p # Genesis /\ At(Parent[p])'
          /\ tip \in Blocks
      BY <1>2, <2>1, UndoneAt DEF EndUndo, ChainInv, TypeOK
    <2>3. p \in Ancestors[tip]
      BY <1>2, <2>1, <2>2 DEF EndUndo, At, Working, Highest
    <2>4. Ancestors[p] = Ancestors[Parent[p]] \cup {p}  BY <2>2, OwnAncestry
    <2>5. /\ \A b \in Blocks : Height[b] \in Nat
          /\ Height[p] \in Nat /\ Height[Parent[p]] \in Nat
          /\ Height[p] = Height[Parent[p]] + 1
      BY <2>2, TreeAssumption
    <2>6. ASSUME NEW b \in Ancestors[tip]
          PROVE  Height[b] > Height[Parent[p]] <=> Height[b] > Height[p] \/ b = p
      <3>1. b \in Blocks /\ (Height[b] = Height[p] => b = p)
        BY <2>2, <2>3, OwnAncestry, AncestorFacts
      <3>2. Height[b] \in Nat  BY <2>5, <3>1
      <3> QED  BY <2>5, <3>1, <3>2
    <2>7. Indexes(p)  BY <1>2, <2>1 DEF EndUndo, IndexAt
    <2>8. Indexes(Parent[p])  BY <2>3, <2>4, <2>6, <2>7 DEF Indexes
    <2>9. UNCHANGED <<indexed, tip, target>> /\ phase' = "next" /\ phase = "undo"
      BY <1>2 DEF EndUndo, db
    <2> QED  BY <2>1, <2>2, <2>8, <2>9 DEF IndexAt, Indexes, Working
  <1>3. CASE EndBlock
    <2>1. PICK p \in Blocks : At(p) /\ IndexAt(p)
      BY <1>3 DEF EndBlock, IndexIsExact, Running
    <2>2. PICK q \in Blocks : q = cur
      BY <1>3, <2>1, NextToApply DEF EndBlock, Applying
    <2>3. At(q)'  BY <1>3, <2>1, <2>2, AppliedAt
    <2>4. Indexes(q)  BY <1>3, <2>1, <2>2 DEF EndBlock, IndexAt
    <2>5. UNCHANGED <<indexed, tip, target>> /\ phase' = "next" /\ phase = "txindex"
      BY <1>3 DEF EndBlock, db
    <2> QED  BY <2>1, <2>3, <2>4, <2>5 DEF IndexAt, Indexes, Working
  <1>4. CASE SaveGenesisTip
    <2>1. PICK q \in Blocks : q = tip' /\ At(q)'  BY <1>4, StartedAt
    <2>2. q = Genesis /\ phase' = "free" /\ indexed' = {Genesis}
      BY <1>4, <2>1 DEF SaveGenesisTip, Fresh
    <2> QED  BY <2>1, <2>2, TreeAssumption DEF IndexAt, Indexes, Working
  <1>5. CASE SaveGenesis  BY <1>5 DEF SaveGenesis, Running
  <1> QED  BY <1>1, <1>2, <1>3, <1>4, <1>5, NextCases, NeverStoppedStep

(* What has been shown of a node that is not stopped and gets valid blocks.  *)
Sound == ChainInv /\ Fresh /\ NeverStopped /\ UndoIsComplete /\ UTXOIsKept

(* All of it holds together.                                                *)
LEMMA SoundInvariant ==
  ASSUME MaxStops = 0, BlocksAreValid
  PROVE  Spec => []Sound
  <1>1. Spec => [](NeverStopped /\ UndoIsComplete)  BY UndoInvariant
  <1>2. Spec => []UTXOIsKept  BY UTXOInvariant
  <1>3. ChainInv /\ Fresh /\ (NeverStopped /\ UndoIsComplete) /\ UTXOIsKept => Sound
    BY DEF Sound
  <1> QED  BY <1>1, <1>2, <1>3, ChainInvariant, FreshInvariant, PTL

(* Then no change of branch is given up.                                    *)
LEMMA SoundStep ==
  ASSUME Sound, BlocksAreValid
  PROVE  ChainInv /\ Fresh /\ NeverStopped /\ ~GivesUp
  BY NothingGivesUp DEF Sound

(* The invariant behind IndexFollowsTip.                                    *)
LEMMA IndexInvariant ==
  ASSUME MaxStops = 0, BlocksAreValid
  PROVE  Spec => [](Sound /\ IndexIsExact)
  <1>1. Init => IndexIsExact  BY DEF Init, IndexIsExact, Running
  <1>2. Sound /\ IndexIsExact /\ [Next]_vars => IndexIsExact'
    <2> SUFFICES ASSUME Sound, IndexIsExact, [Next]_vars  PROVE IndexIsExact'
      OBVIOUS
    <2>1. CASE UNCHANGED vars
      BY <2>1
      DEF vars, db, work, IndexIsExact, Running, At, Working, Applying, Highest, Lowest,
          IndexAt, Indexes
    <2>2. CASE Next  BY <2>2, SoundStep, IndexIsExactStep
    <2> QED  BY <2>1, <2>2
  <1> QED  BY <1>1, <1>2, SoundInvariant, PTL DEF Spec

(***************************************************************************)
(* ... and its height index holds the blocks of the main chain and nothing *)
(* else: what a reorganisation leaves above the fork is overwritten by the *)
(* new branch, which is never the shorter one.                             *)
(***************************************************************************)
THEOREM IndexFollowsTip ==
  MaxStops = 0 /\ BlocksAreValid => (Spec => []IndexIsMainChain)
  <1> SUFFICES ASSUME MaxStops = 0, BlocksAreValid  PROVE Spec => []IndexIsMainChain
    OBVIOUS
  <1>1. Sound /\ IndexIsExact => IndexIsMainChain
    <2> SUFFICES ASSUME Sound, IndexIsExact, phase = "free"
                 PROVE  indexed = Ancestors[tip]
      BY DEF IndexIsMainChain
    <2>1. indexed = Ancestors[tip] \cup {b \in Ancestors[tip] : Height[b] > Height[tip]}
      BY DEF IndexIsExact, Running, At, IndexAt, Indexes
    <2> QED  BY <2>1
  <1>2. Spec => [](Sound /\ IndexIsExact)  BY IndexInvariant
  <1> QED  BY <1>1, <1>2, PTL

-----------------------------------------------------------------------------
(* The transaction index.                                                    *)

(* The entry of tx is the one the chain of x calls for.                      *)
Listed(x, tx) ==
  \/ \E b \in Ancestors[x] : tx \in ToSet(TxSeq[b]) /\ txHeight[tx] = Height[b]
  \/ txHeight[tx] = NotIndexed /\ \A b \in Ancestors[x] : tx \notin ToSet(TxSeq[b])

(***************************************************************************)
(* While the entries of a block are deleted or written, those of its       *)
(* transactions that are through differ from what the block the database   *)
(* stands on calls for.                                                    *)
(***************************************************************************)
TxIndexAt(p) ==
  /\ phase \notin {"undo", "txindex"} => \A tx \in Txs : Listed(p, tx)
  /\ phase = "undo" =>
       /\ idxs \subseteq ToSet(TxSeq[p])
       /\ \A tx \in Txs : IF tx \in ToSet(TxSeq[p]) \ idxs
                            THEN txHeight[tx] = NotIndexed
                            ELSE Listed(p, tx)
  /\ phase = "txindex" =>
       /\ idxs \subseteq ToSet(TxSeq[cur])
       /\ \A tx \in Txs : IF tx \in ToSet(TxSeq[cur]) \ idxs
                            THEN txHeight[tx] = Height[cur]
                            ELSE Listed(p, tx)

TxIndexIsExact == Running => \E p \in Blocks : At(p) /\ TxIndexAt(p)

(* Most steps of a call leave the index and what is left to do on it alone.  *)
LEMMA TxIndexUntouched ==
  ASSUME NEW p \in Blocks, TxIndexAt(p), UNCHANGED txHeight,
         \/ phase \notin {"undo", "txindex"} /\ phase' \notin {"undo", "txindex"}
         \/ phase = "undo" /\ phase' = "undo" /\ idxs' = idxs
  PROVE  TxIndexAt(p)'
  BY DEF TxIndexAt, Listed

(* Saving and deleting the entries of a block, and the steps that do neither.*)
LEMMA TxIndexStays ==
  ASSUME ChainInv, NEW p \in Blocks, At(p), TxIndexAt(p), Stays
  PROVE  TxIndexAt(p)'
  <1>1. CASE \/ \E b \in Blocks : AddLimbo(b) \/ AddUnverified(b)
             \/ \E c \in Callers : EndVerify(c) \/ AbandonVerify(c)
             \/ \E c \in Callers, b \in Blocks : BeginVerify(c, b)
             \/ StoreExtending \/ StoreReorganizing \/ StoreOnly
             \/ BeginBlock \/ BeginTx \/ EndTx \/ EndProcess
             \/ UpdateHeightIndex \/ SaveChainTip
    <2>1. /\ phase \notin {"undo", "txindex"} /\ phase' \notin {"undo", "txindex"}
          /\ txHeight' = txHeight
      BY <1>1
      DEF db, work, Return, BeginApply, AddLimbo, AddUnverified, EndVerify,
          AbandonVerify, BeginVerify, StoreExtending, StoreReorganizing, StoreOnly, Store,
          BeginBlock, BeginTx, EndTx, EndProcess, UpdateHeightIndex, SaveChainTip
    <2> QED  BY <2>1, TxIndexUntouched
  <1>2. CASE DeleteOut \/ AddOut
    <2>1. phase' = phase /\ phase \in {"undo", "tx"} /\ UNCHANGED <<txHeight, idxs>>
      BY <1>2 DEF DeleteOut, AddOut
    <2> QED  BY <2>1, TxIndexUntouched
  <1>3. CASE BeginUndo
    <2>1. /\ phase = "next" /\ phase' = "undo" /\ txHeight' = txHeight
          /\ idxs' = ToSet(TxSeq[cur']) /\ cur' \in Highest(rollback)
      BY <1>3 DEF BeginUndo, db
    <2>2. cur' \in Highest(Ancestors[p] \ Ancestors[target]) /\ target \in Blocks
      BY <2>1 DEF At, Working, ChainInv, TypeOK
    <2>3. cur' = p  BY <2>2, TopOfBranch
    <2> QED  BY <2>1, <2>3 DEF TxIndexAt, Listed
  <1>4. CASE SaveBlockUndo
    <2>1. /\ phase = "record" /\ phase' = "txindex" /\ txHeight' = txHeight
          /\ idxs' = ToSet(TxSeq[cur]) /\ cur' = cur
      BY <1>4 DEF SaveBlockUndo
    <2> QED  BY <2>1 DEF TxIndexAt, Listed
  <1>5. CASE DeleteTxIndex
    <2>1. PICK tx \in idxs :
            txHeight' = [txHeight EXCEPT ![tx] = NotIndexed] /\ idxs' = idxs \ {tx}
      BY <1>5 DEF DeleteTxIndex
    <2>2. phase = "undo" /\ phase' = "undo" /\ txHeight \in [Txs -> Int]
      BY <1>5 DEF DeleteTxIndex, ChainInv, TypeOK
    <2>3. ASSUME NEW t \in Txs
          PROVE  IF t \in ToSet(TxSeq[p]) \ idxs' THEN txHeight'[t] = NotIndexed
                                                 ELSE Listed(p, t)'
      <3>1. CASE t = tx
        <4>1. txHeight'[t] = NotIndexed  BY <2>1, <2>2, <3>1
        <4> QED  BY <2>1, <2>2, <3>1, <4>1 DEF TxIndexAt, Listed
      <3>2. CASE t # tx
        <4>1. txHeight'[t] = txHeight[t]  BY <2>1, <2>2, <3>2
        <4> QED  BY <2>1, <2>2, <3>2, <4>1 DEF TxIndexAt, Listed
      <3> QED  BY <3>1, <3>2
    <2> QED  BY <2>1, <2>2, <2>3 DEF TxIndexAt
  <1>6. CASE SaveTxIndex
    <2>1. PICK tx \in idxs :
            txHeight' = [txHeight EXCEPT ![tx] = Height[cur]] /\ idxs' = idxs \ {tx}
      BY <1>6 DEF SaveTxIndex
    <2>2. /\ phase = "txindex" /\ phase' = "txindex" /\ cur' = cur
          /\ txHeight \in [Txs -> Int]
      BY <1>6 DEF SaveTxIndex, ChainInv, TypeOK
    <2>3. ASSUME NEW t \in Txs
          PROVE  IF t \in ToSet(TxSeq[cur]) \ idxs' THEN txHeight'[t] = Height[cur]
                                                   ELSE Listed(p, t)'
      <3>1. CASE t = tx
        <4>1. txHeight'[t] = Height[cur]  BY <2>1, <2>2, <3>1
        <4> QED  BY <2>1, <2>2, <3>1, <4>1 DEF TxIndexAt, Listed
      <3>2. CASE t # tx
        <4>1. txHeight'[t] = txHeight[t]  BY <2>1, <2>2, <3>2
        <4> QED  BY <2>1, <2>2, <3>2, <4>1 DEF TxIndexAt, Listed
      <3> QED  BY <3>1, <3>2
    <2> QED  BY <2>1, <2>2, <2>3 DEF TxIndexAt
  <1> QED  BY <1>1, <1>2, <1>3, <1>4, <1>5, <1>6 DEF Stays

(* A block that is undone takes its transactions out of the chain.           *)
LEMMA TxIndexUndone ==
  ASSUME ChainInv, OncePerChain, NEW p \in Blocks, p # Genesis,
         TxIndexAt(p), EndUndo, NEW q \in Blocks, q = Parent[p]
  PROVE  TxIndexAt(q)'
  <1>1. phase = "undo" /\ idxs = {} /\ phase' = "next" /\ txHeight' = txHeight
    BY DEF EndUndo, db
  <1>2. Ancestors[p] = Ancestors[q] \cup {p} /\ p \notin Ancestors[q] /\ p \in Ancestors[p]
    BY OwnAncestry, ParentInChain
  <1>3. \A a \in Ancestors[q] : ToSet(TxSeq[a]) \cap ToSet(TxSeq[p]) = {}
    BY <1>2 DEF OncePerChain
  <1>4. ASSUME NEW tx \in Txs  PROVE Listed(q, tx)
    <2>1. CASE tx \in ToSet(TxSeq[p])
      BY <1>1, <1>3, <2>1 DEF TxIndexAt, Listed
    <2>2. CASE tx \notin ToSet(TxSeq[p])
      BY <1>1, <1>2, <2>2 DEF TxIndexAt, Listed
    <2> QED  BY <2>1, <2>2
  <1>5. \A tx \in Txs : Listed(q, tx)'  BY <1>1, <1>4 DEF Listed
  <1> QED  BY <1>1, <1>5 DEF TxIndexAt

(* A block that is applied brings its own in.                                *)
LEMMA TxIndexApplied ==
  ASSUME ChainInv, NEW p \in Blocks, At(p), TxIndexAt(p), EndBlock,
         NEW q \in Blocks, q = cur
  PROVE  TxIndexAt(q)'
  <1>1. phase = "txindex" /\ idxs = {} /\ phase' = "next" /\ txHeight' = txHeight
    BY DEF EndBlock, db
  <1>2. Ancestors[q] = Ancestors[p] \cup {q}
    BY <1>1, NextToApply DEF Applying
  <1>3. ASSUME NEW tx \in Txs  PROVE Listed(q, tx)
    <2>1. CASE tx \in ToSet(TxSeq[q])
      BY <1>1, <1>2, <2>1 DEF TxIndexAt, Listed
    <2>2. CASE tx \notin ToSet(TxSeq[q])
      BY <1>1, <1>2, <2>2 DEF TxIndexAt, Listed
    <2> QED  BY <2>1, <2>2
  <1>4. \A tx \in Txs : Listed(q, tx)'  BY <1>1, <1>3 DEF Listed
  <1> QED  BY <1>1, <1>4 DEF TxIndexAt

(* An empty database lists nothing, and genesis has no transactions.         *)
LEMMA TxIndexStarts ==
  ASSUME Fresh, SaveGenesisTip, NEW q \in Blocks, q = Genesis
  PROVE  TxIndexAt(q)'
  <1>1. /\ phase' = "free" /\ txHeight' = [tx \in Txs |-> NotIndexed]
    BY DEF SaveGenesisTip, Fresh
  <1>2. Ancestors[q] = {Genesis} /\ ToSet(TxSeq[Genesis]) = {}
    BY TreeAssumption, LedgerAssumption DEF ToSet
  <1> QED  BY <1>1, <1>2 DEF TxIndexAt, Listed

(* Every step keeps the transaction index at the node's position.           *)
LEMMA TxIndexIsExactStep ==
  ASSUME ChainInv, Fresh, NeverStopped, MaxStops = 0, ~GivesUp, OncePerChain,
         TxIndexIsExact, Next
  PROVE  TxIndexIsExact'
  <1> SUFFICES ASSUME Running'
               PROVE  \E p \in Blocks : At(p)' /\ TxIndexAt(p)'
    BY DEF TxIndexIsExact
  <1>1. CASE Stays
    <2>1. PICK p \in Blocks : At(p) /\ TxIndexAt(p)
      BY <1>1, StaysRunning DEF TxIndexIsExact
    <2> QED  BY <1>1, <2>1, StaysAt, TxIndexStays
  <1>2. CASE EndUndo
    <2>1. PICK p \in Blocks : At(p) /\ TxIndexAt(p)
      BY <1>2 DEF EndUndo, TxIndexIsExact, Running
    <2>2. PICK q \in Blocks : q = Parent[p]  BY <1>2, <2>1, UndoneAt
    <2> QED  BY <1>2, <2>1, <2>2, UndoneAt, TxIndexUndone
  <1>3. CASE EndBlock
    <2>1. PICK p \in Blocks : At(p) /\ TxIndexAt(p)
      BY <1>3 DEF EndBlock, TxIndexIsExact, Running
    <2>2. PICK q \in Blocks : q = cur
      BY <1>3, <2>1, NextToApply DEF EndBlock, Applying
    <2> QED  BY <1>3, <2>1, <2>2, AppliedAt, TxIndexApplied
  <1>4. CASE SaveGenesisTip
    <2>1. PICK q \in Blocks : q = tip' /\ At(q)'  BY <1>4, StartedAt
    <2>2. q = Genesis  BY <1>4, <2>1 DEF SaveGenesisTip
    <2> QED  BY <1>4, <2>1, <2>2, TxIndexStarts
  <1>5. CASE SaveGenesis  BY <1>5 DEF SaveGenesis, Running
  <1> QED  BY <1>1, <1>2, <1>3, <1>4, <1>5, NextCases, NeverStoppedStep

(***************************************************************************)
(* ... and its transaction index lists the transactions of the main chain, *)
(* each at the height of its block, and no other, also when both sides of  *)
(* a reorganisation hold a transaction.                                    *)
(***************************************************************************)
THEOREM TxIndexFollowsTip ==
  MaxStops = 0 /\ BlocksAreValid /\ OncePerChain => (Spec => []TxIndexIsMainChain)
  <1> SUFFICES ASSUME MaxStops = 0, BlocksAreValid, OncePerChain
               PROVE  Spec => []TxIndexIsMainChain
    OBVIOUS
  <1>1. Init => TxIndexIsExact  BY DEF Init, TxIndexIsExact, Running
  <1>2. Sound /\ TxIndexIsExact /\ [Next]_vars => TxIndexIsExact'
    <2> SUFFICES ASSUME Sound, TxIndexIsExact, [Next]_vars  PROVE TxIndexIsExact'
      OBVIOUS
    <2>1. CASE UNCHANGED vars
      BY <2>1
      DEF vars, db, work, TxIndexIsExact, Running, At, Working, Applying, Highest, Lowest,
          TxIndexAt, Listed
    <2>2. CASE Next  BY <2>2, SoundStep, TxIndexIsExactStep
    <2> QED  BY <2>1, <2>2
  <1>3. TxIndexIsExact => TxIndexIsMainChain
    <2> SUFFICES ASSUME TxIndexIsExact, phase = "free", NEW tx \in Txs
                 PROVE  LET holders == {b \in Ancestors[tip] \ {Genesis} :
                                          tx \in ToSet(TxSeq[b])}
                        IN  IF holders = {} THEN txHeight[tx] = NotIndexed
                            ELSE \E b \in holders : txHeight[tx] = Height[b]
      BY DEF TxIndexIsMainChain
    <2>1. Listed(tip, tx)  BY DEF TxIndexIsExact, Running, At, TxIndexAt
    <2>2. tx \notin ToSet(TxSeq[Genesis])  BY LedgerAssumption DEF ToSet
    <2> QED  BY <2>1, <2>2 DEF Listed
  <1> QED  BY <1>1, <1>2, <1>3, SoundInvariant, PTL DEF Spec

-----------------------------------------------------------------------------
(* The fork choice.                                                          *)

LEMMA BetterIsAnOrder ==
  ASSUME NEW a \in Blocks, NEW b \in Blocks, NEW c \in Blocks
  PROVE  /\ ~Better(a, a)
         /\ Better(a, b) /\ Better(b, c) => Better(a, c)
         /\ Better(a, b) \/ Better(b, a) \/ a = b
  <1>1. /\ Work[a] \in Nat /\ Work[b] \in Nat /\ Work[c] \in Nat
        /\ Rank[a] \in Nat /\ Rank[b] \in Nat /\ Rank[c] \in Nat
        /\ Rank[a] = Rank[b] => a = b
    BY TreeAssumption
  <1> QED  BY <1>1 DEF Better

(***************************************************************************)
(* The block the node is to stand on, its tip or its target, has no stored *)
(* child: a stored block never has to be taken up later.                   *)
(***************************************************************************)
Childless(t) == \A b \in stored \ {Genesis} : Parent[b] # t

TopIsChildless ==
  /\ phase = "save" => target \notin stored
  /\ phase \in {"free", "save"} => Childless(tip)
  /\ phase \in Working => Childless(target)

(***************************************************************************)
(* From the checkpoint on nothing the node holds, and that is as high,     *)
(* beats its tip, but for the block it is working to make its tip.         *)
(***************************************************************************)
Beats(b, t) == Height[b] >= Height[t] /\ Better(b, t)
BestOf(S, t) == Height[t] >= CheckpointHeight => \A b \in S : ~Beats(b, t)

NoneBetter ==
  /\ phase \in {"free", "save"} => BestOf(stored, tip)
  /\ phase \in Working =>
       /\ BestOf(stored \ {target}, tip)
       /\ \/ target # Genesis /\ Parent[target] = tip
          \/ Height[tip] >= CheckpointHeight /\ Height[target] >= Height[tip]

Settled == OnlyCheckpointStored /\ TopIsChildless /\ NoneBetter

(* What is stored has its parent stored.                                     *)
LEMMA ParentIsStored ==
  ASSUME ChainInv, NEW b \in stored, b # Genesis
  PROVE  Parent[b] \in stored
  <1>1. b \in Blocks /\ Ancestors[b] \subseteq stored
    BY DEF ChainInv, TypeOK, StoreConnected
  <1>2. Parent[b] \in Ancestors[b]  BY <1>1, TreeAssumption, OwnAncestry
  <1> QED  BY <1>1, <1>2

(* A new block is stored: nothing stored is its child.                       *)
LEMMA ChildlessStored ==
  ASSUME ChainInv, TopIsChildless, StoreExtending \/ StoreReorganizing \/ StoreOnly
  PROVE  TopIsChildless'
  <1>1. /\ phase = "save" /\ stored' = stored \cup {target} /\ tip' = tip
        /\ target \in Blocks /\ target # Genesis /\ target \notin stored
    BY DEF StoreExtending, StoreReorganizing, StoreOnly, Store, ChainInv, TypeOK, CallsValid,
           TopIsChildless
  <1>2. ASSUME NEW b \in stored' \ {Genesis}  PROVE Parent[b] # target
    <2>1. CASE b = target  BY <1>1, <2>1, TreeAssumption
    <2>2. CASE b \in stored  BY <1>1, <1>2, <2>2, ParentIsStored
    <2> QED  BY <1>1, <2>1, <2>2
  <1>3. CASE StoreExtending \/ StoreReorganizing
    <2>1. phase' = "next" /\ target' = target
      BY <1>3 DEF StoreExtending, StoreReorganizing, BeginApply
    <2> QED  BY <1>2, <2>1 DEF TopIsChildless, Childless
  <1>4. CASE StoreOnly
    <2>1. phase' = "free" /\ Parent[target] # tip  BY <1>4 DEF StoreOnly, Return
    <2> QED  BY <1>1, <2>1 DEF TopIsChildless, Childless, Working
  <1> QED  BY <1>3, <1>4

(* A new block is stored: it is not worked on, or beats the tip.             *)
LEMMA NoneBetterStored ==
  ASSUME ChainInv, OnlyCheckpointStored, NoneBetter,
         StoreExtending \/ StoreReorganizing \/ StoreOnly
  PROVE  NoneBetter'
  <1>1. /\ phase = "save" /\ stored' = stored \cup {target} /\ tip' = tip
        /\ tip \in Blocks /\ tip \in stored /\ target \in Blocks
    BY DEF StoreExtending, StoreReorganizing, StoreOnly, Store, ChainInv, TypeOK, TipStored
  <1>2. BestOf(stored, tip)  BY <1>1 DEF NoneBetter
  <1>3. CASE StoreExtending
    <2>1. phase' = "next" /\ target' = target /\ Parent[target] = tip /\ target # Genesis
      BY <1>1, <1>3 DEF StoreExtending, BeginApply, ChainInv, CallsValid
    <2> QED  BY <1>1, <1>2, <2>1 DEF NoneBetter, BestOf
  <1>4. CASE StoreReorganizing
    <2>1. phase' = "next" /\ target' = target /\ Height[target] >= Height[tip]
      BY <1>4 DEF StoreReorganizing, Preferred
    <2>2. PICK a \in Ancestors[tip] : Height[a] >= CheckpointHeight
      BY <1>4 DEF StoreReorganizing, ReorgAllowed
    <2>3. /\ a \in Blocks /\ Height[a] <= Height[tip]
          /\ Height[a] \in Nat /\ Height[tip] \in Nat
      BY <1>1, AncestorFacts, OwnAncestry, TreeAssumption
    <2>4. Height[tip] >= CheckpointHeight  BY <2>2, <2>3, ChainAssumption
    <2> QED  BY <1>1, <1>2, <2>1, <2>4 DEF NoneBetter, BestOf
  <1>5. CASE StoreOnly
    <2>1. phase' = "free" /\ ~(Preferred(target) /\ ReorgAllowed(target))
      BY <1>5 DEF StoreOnly, Return
    <2>2. ASSUME Height[tip] >= CheckpointHeight, Beats(target, tip)  PROVE FALSE
      <3>1. Height[target] >= CheckpointHeight
        <4>1. /\ Height[target] \in Nat /\ Height[tip] \in Nat /\ CheckpointHeight \in Nat
              /\ Height[target] >= Height[tip]
          BY <1>1, <2>2, TreeAssumption, ChainAssumption DEF Beats
        <4> QED  BY <2>2, <4>1
      <3>2. CASE CheckpointHeight = 0
        <4>1. Genesis \in Ancestors[tip] \cap Ancestors[target] /\ Height[Genesis] >= 0
          BY <1>1, TreeAssumption, AncestorFacts
        <4> QED  BY <2>1, <2>2, <3>2, <4>1 DEF Beats, Preferred, ReorgAllowed
      <3>3. CASE CheckpointHeight > 0
        <4>1. ASSUME NEW b \in {tip, target}  PROVE CheckpointBlock \in Ancestors[b]
          <5>1. b \in Blocks /\ Height[b] >= CheckpointHeight  BY <1>1, <2>2, <3>1, <4>1
          <5>2. PICK a \in Ancestors[b] : Height[a] = CheckpointHeight
            BY <5>1, AncestorFacts, TreeAssumption, ChainAssumption
          <5>3. a \in stored \cup {target} /\ a # Genesis
            <6>1. Ancestors[tip] \subseteq stored  BY <1>1 DEF ChainInv, StoreConnected
            <6>2. Ancestors[target] \subseteq stored \cup {target}
              <7>1. target # Genesis /\ Parent[target] \in stored
                BY <1>1 DEF ChainInv, CallsValid
              <7>2. Ancestors[Parent[target]] \subseteq stored
                BY <7>1 DEF ChainInv, StoreConnected
              <7> QED  BY <1>1, <7>1, <7>2, OwnAncestry
            <6>3. a # Genesis  BY <3>3, <5>2, TreeAssumption
            <6> QED  BY <4>1, <5>2, <6>1, <6>2, <6>3
          <5>4. a = CheckpointBlock
            BY <1>1, <3>3, <5>2, <5>3 DEF OnlyCheckpointStored, PassesCheckpoint, CheckpointOK
          <5> QED  BY <5>2, <5>4
        <4>2. Height[CheckpointBlock] >= CheckpointHeight
          <5>1. PICK a \in Ancestors[tip] : Height[a] = CheckpointHeight
            BY <1>1, <2>2, AncestorFacts, TreeAssumption, ChainAssumption
          <5>2. a \in stored /\ a # Genesis
            BY <1>1, <3>3, <5>1, TreeAssumption DEF ChainInv, StoreConnected
          <5>3. a = CheckpointBlock
            BY <3>3, <5>1, <5>2 DEF OnlyCheckpointStored, PassesCheckpoint, CheckpointOK
          <5> QED  BY <5>1, <5>3, ChainAssumption
        <4> QED  BY <2>1, <2>2, <4>1, <4>2 DEF Beats, Preferred, ReorgAllowed
      <3> QED  BY <3>2, <3>3, ChainAssumption
    <2> QED  BY <1>1, <1>2, <2>1, <2>2 DEF NoneBetter, BestOf, Working
  <1> QED  BY <1>3, <1>4, <1>5

(* The tip moves: a block that beats the new one beat the old one, or the    *)
(* new tip is the checkpoint and the block is above it, with a child of the  *)
(* checkpoint on the way.                                                    *)
LEMMA BestMoves ==
  ASSUME ChainInv, Settled, SaveChainTip
  PROVE  BestOf(stored, target)
  <1>1. /\ phase = "next" /\ phase \in Working
        /\ tip \in Blocks /\ target \in Blocks /\ target \in stored /\ stored \subseteq Blocks
        /\ Better(target, tip) /\ Childless(target)
        /\ \A b \in stored : Ancestors[b] \subseteq stored
    BY DEF SaveChainTip, ChainInv, TypeOK, CallsValid, StoreConnected, Working, Settled,
           TopIsChildless
  <1>2. Height[tip] \in Nat /\ Height[target] \in Nat /\ CheckpointHeight \in Nat
    BY <1>1, TreeAssumption, ChainAssumption
  <1> SUFFICES ASSUME Height[target] >= CheckpointHeight,
                      NEW b \in stored, Height[b] >= Height[target], Better(b, target)
               PROVE  FALSE
    BY DEF BestOf, Beats
  <1>3. b \in Blocks /\ Height[b] \in Nat /\ b # target
    BY <1>1, TreeAssumption, BetterIsAnOrder
  <1>4. CASE Height[tip] >= CheckpointHeight
    <2>1. Height[target] >= Height[tip]
      <3>1. CASE target # Genesis /\ Parent[target] = tip
        BY <1>1, <1>2, <3>1, TreeAssumption
      <3>2. CASE Height[target] >= Height[tip]  BY <3>2
      <3> QED  BY <1>1, <3>1, <3>2 DEF Settled, NoneBetter
    <2>2. Better(b, tip)  BY <1>1, <1>3, BetterIsAnOrder
    <2>3. Height[b] >= Height[tip]  BY <1>2, <1>3, <2>1
    <2> QED  BY <1>1, <1>3, <1>4, <2>2, <2>3 DEF Settled, NoneBetter, BestOf, Beats
  <1>5. CASE Height[tip] < CheckpointHeight
    <2>1. Parent[target] = tip  BY <1>1, <1>2, <1>5 DEF Settled, NoneBetter
    <2>2. target # Genesis  BY <1>1, <1>2, <1>5 DEF Settled, NoneBetter
    <2>3. Height[target] = CheckpointHeight /\ CheckpointHeight > 0
      BY <1>1, <1>2, <1>5, <2>1, <2>2, TreeAssumption
    <2>4. \A a \in stored : Height[a] = CheckpointHeight => a = target
      BY <1>1, <2>2, <2>3, TreeAssumption
      DEF Settled, OnlyCheckpointStored, PassesCheckpoint, CheckpointOK
    <2>5. Height[b] >= CheckpointHeight + 1
      BY <1>1, <1>2, <1>3, <2>3, <2>4
    <2>6. PICK c \in Ancestors[b] : Height[c] = CheckpointHeight + 1
      BY <1>2, <1>3, <2>5, AncestorFacts
    <2>7. c \in stored /\ c \in Blocks /\ c # Genesis
      BY <1>1, <1>2, <2>6, TreeAssumption
    <2>8. Parent[c] \in stored  BY <2>7, ParentIsStored
    <2>9. Height[Parent[c]] = CheckpointHeight
      BY <1>1, <1>2, <2>6, <2>7, <2>8, TreeAssumption
    <2>10. Parent[c] = target  BY <2>4, <2>8, <2>9
    <2> QED  BY <1>1, <2>7, <2>10 DEF Childless
  <1> QED  BY <1>2, <1>4, <1>5

(* Every step leaves the tip, or the branch under way, unbeaten.            *)
LEMMA SettledStep ==
  ASSUME ChainInv, Fresh, NeverStopped, MaxStops = 0, ~GivesUp, Settled, Next
  PROVE  TopIsChildless' /\ NoneBetter'
  <1>1. CASE StoreExtending \/ StoreReorganizing \/ StoreOnly
    BY <1>1, ChildlessStored, NoneBetterStored DEF Settled
  <1>2. ASSUME NEW b \in Blocks  PROVE ~AddLimbo(b)
    <2>1. ASSUME AddLimbo(b)  PROVE FALSE
      <3>1. b \in stored \ {Genesis} /\ Parent[b] = tip /\ phase = "free"
        BY <2>1 DEF AddLimbo
      <3> QED  BY <3>1 DEF Settled, TopIsChildless, Childless
    <2> QED  BY <2>1
  <1>3. CASE \/ \E b \in Blocks : AddUnverified(b)
             \/ \E c \in Callers : EndVerify(c) \/ AbandonVerify(c)
             \/ \E c \in Callers, b \in Blocks : BeginVerify(c, b)
    <2>1. /\ phase = "free" /\ phase' \in {"free", "save"}
          /\ UNCHANGED <<stored, tip>>
          /\ phase' = "save" => target' \notin stored
      BY <1>3 DEF AddUnverified, Acceptable, EndVerify, AbandonVerify, BeginVerify, db
    <2> QED
      BY <2>1 DEF Settled, TopIsChildless, Childless, NoneBetter, BestOf, Working
  <1>4. CASE \/ BeginUndo \/ DeleteOut \/ AddOut \/ DeleteTxIndex \/ EndUndo
             \/ BeginBlock \/ BeginTx \/ EndTx \/ EndProcess
             \/ UpdateHeightIndex \/ SaveBlockUndo \/ SaveTxIndex \/ EndBlock
    <2>1. /\ phase \in Working /\ phase' \in Working
          /\ UNCHANGED <<stored, tip, target>>
      BY <1>4
      DEF Working, db, work, BeginUndo, DeleteOut, AddOut, DeleteTxIndex, EndUndo,
          BeginBlock, BeginTx, EndTx, EndProcess, UpdateHeightIndex, SaveBlockUndo,
          SaveTxIndex, EndBlock
    <2> QED
      BY <2>1 DEF Settled, TopIsChildless, Childless, NoneBetter, BestOf, Working
  <1>5. CASE SaveChainTip
    <2>1. /\ phase = "next" /\ phase \in Working /\ phase' = "free"
          /\ stored' = stored /\ tip' = target
      BY <1>5 DEF SaveChainTip, Return, Working
    <2>2. BestOf(stored, target)  BY <1>5, BestMoves
    <2>3. Childless(target)  BY <2>1 DEF Settled, TopIsChildless
    <2> QED  BY <2>1, <2>2, <2>3 DEF TopIsChildless, Childless, NoneBetter, BestOf, Working
  <1>6. CASE SaveGenesis
    BY <1>6 DEF SaveGenesis, TopIsChildless, NoneBetter, Working
  <1>7. CASE SaveGenesisTip
    <2>1. /\ phase' = "free" /\ tip' = Genesis /\ stored' \subseteq {Genesis}
      BY <1>7 DEF SaveGenesisTip, Fresh
    <2>2. ~Better(Genesis, Genesis)  BY TreeAssumption, BetterIsAnOrder
    <2> QED
      BY <2>1, <2>2 DEF TopIsChildless, Childless, NoneBetter, BestOf, Beats, Working
  <1>8. CASE Stays  BY <1>1, <1>2, <1>3, <1>4, <1>5, <1>8 DEF Stays
  <1> QED  BY <1>4, <1>6, <1>7, <1>8, NextCases, NeverStoppedStep

(***************************************************************************)
(* ... and from the checkpoint on its tip is the best block of its height  *)
(* or more that it holds, in whatever order the blocks came and however    *)
(* their verifications overlapped, for every checkpoint and whatever the   *)
(* work of the blocks: no branch is left aside that should have won.       *)
(***************************************************************************)
THEOREM TipStaysBest ==
  MaxStops = 0 /\ BlocksAreValid => (Spec => []TipIsBest)
  <1> SUFFICES ASSUME MaxStops = 0, BlocksAreValid  PROVE Spec => []TipIsBest
    OBVIOUS
  <1>1. Init => TopIsChildless /\ NoneBetter
    BY DEF Init, TopIsChildless, NoneBetter, Working
  <1>2. /\ Sound /\ OnlyCheckpointStored /\ TopIsChildless /\ NoneBetter /\ [Next]_vars
        => TopIsChildless' /\ NoneBetter'
    <2> SUFFICES ASSUME Sound, OnlyCheckpointStored, TopIsChildless, NoneBetter, [Next]_vars
                 PROVE  TopIsChildless' /\ NoneBetter'
      OBVIOUS
    <2>1. CASE UNCHANGED vars
      BY <2>1 DEF vars, db, work, TopIsChildless, Childless, NoneBetter, BestOf, Working
    <2>2. CASE Next  BY <2>2, SoundStep, SettledStep DEF Settled
    <2> QED  BY <2>1, <2>2
  <1>3. NoneBetter => TipIsBest  BY DEF NoneBetter, BestOf, Beats, TipIsBest
  <1> QED  BY <1>1, <1>2, <1>3, SoundInvariant, CheckpointInvariant, PTL DEF Spec

=============================================================================
