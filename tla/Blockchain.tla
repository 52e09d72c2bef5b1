----------------------------- MODULE Blockchain -----------------------------
(***************************************************************************)
(* The chain of one node: AddBlock, applyBlock, reorganize and the         *)
(* recovery at start-up, over the Badger database they share.              *)
(*                                                                         *)
(* Every write the code makes is a Badger transaction of its own, so each  *)
(* is one action here, in the order of the code, and the node may stop     *)
(* between any two.  (A kill, a power cut, and an ordinary shutdown all do *)
(* that: Node.Stop closes the database without waiting for chainMu.)       *)
(*                                                                         *)
(* chainMu serialises the callers of AddBlock: one of them at a time works *)
(* through the phases below, and phase = "free" means nobody holds it.     *)
(* Only VerifyEngine.Init runs with the lock released; the callers there   *)
(* are in verifying.                                                       *)
(***************************************************************************)
EXTENDS Ledger

CONSTANTS
  NoBlock,           \* no tip in the database; no block being verified
  Callers,           \* goroutines that may be in AddBlock
  CheckpointHeight,  \* highestCheckpoint(); 0 for none
  CheckpointBlock,   \* the one block accepted at that height
  MaxStops           \* bound: how often the node stops

ASSUME ChainAssumption ==
  /\ NoBlock \notin Blocks
  /\ CheckpointHeight \in Nat
  /\ MaxStops \in Nat

NotIndexed == -1

VARIABLES
  (* the database *)
  stored,     \* blocks saved under their hash
  indexed,    \* blocks the height index points at, at most one per height
  undone,     \* blocks with an undo record
  txHeight,   \* tx -> height in the tx index, or NotIndexed
  utxo,       \* unspent outputs
  dbTip,      \* meta:tip
  (* memory *)
  tip,        \* bc.Tip
  verifying,  \* caller -> the block it is initialising the engine for
  phase,      \* where the holder of chainMu stands
  target,     \* the block it is adding
  rollback,   \* blocks still to roll back
  apply,      \* blocks still to apply
  cur,        \* the block being rolled back or applied
  todo,       \* transactions of the current block still to process
  dels, adds, \* output keys still to delete, then to add
  idxs,       \* tx index entries still to delete or write
  stops       \* how often the node has stopped

db == <<stored, indexed, undone, txHeight, utxo, dbTip>>
work == <<target, rollback, apply, cur, todo, dels, adds, idxs>>
vars == <<db, tip, verifying, phase, work, stops>>

Phases == {"boot", "recover", "free", "save", "next", "undo", "process", "tx",
           "index", "record", "txindex"}

TypeOK ==
  /\ stored \subseteq Blocks
  /\ indexed \subseteq Blocks
  /\ undone \subseteq Blocks
  /\ txHeight \in [Txs -> Int]
  /\ utxo \subseteq Outs
  /\ dbTip \in Blocks \cup {NoBlock}
  /\ tip \in Blocks \cup {NoBlock}
  /\ verifying \in [Callers -> Blocks \cup {NoBlock}]
  /\ phase \in Phases
  /\ target \in Blocks \cup {NoBlock}
  /\ rollback \subseteq Blocks
  /\ apply \subseteq Blocks
  /\ cur \in Blocks \cup {NoBlock}
  /\ todo \in Seq(Txs)
  /\ dels \subseteq Outs
  /\ adds \subseteq Outs
  /\ idxs \subseteq Txs
  /\ stops \in 0..MaxStops
  /\ tip = NoBlock <=> phase = "boot"
  /\ target = NoBlock <=> phase \in {"boot", "recover", "free"}
  /\ cur = NoBlock <=> phase \in {"boot", "recover", "free", "save", "next"}
  /\ phase = "tx" => todo # <<>>

-----------------------------------------------------------------------------
(* Helpers *)

Highest(S) == {b \in S : \A c \in S : Height[c] <= Height[b]}
Lowest(S)  == {b \in S : \A c \in S : Height[b] <= Height[c]}

AtHeight(h) == {b \in indexed : Height[b] = h}     \* GetBlockByHeight

OnMainChain(b) == b \in stored /\ b \in indexed    \* IsBlockOnMainChain

(* Mutant: off by one.                                                       *)
CheckpointOK_Above(b) == Height[b] = CheckpointHeight + 1 => b = CheckpointBlock

CheckpointOK(b) == Height[b] = CheckpointHeight /\ CheckpointHeight > 0
                     => b = CheckpointBlock

(* Mutant: the checkpoint itself may not be the common ancestor.             *)
ReorgAllowed_Above(new) ==
  \E a \in Ancestors[tip] \cap Ancestors[new] : Height[a] > CheckpointHeight

(***************************************************************************)
(* findReorgPath stops at the highest common ancestor; reorganize refuses  *)
(* if that lies below the highest checkpoint.                              *)
(***************************************************************************)
ReorgAllowed(new) ==
  \E a \in Ancestors[tip] \cap Ancestors[new] : Height[a] >= CheckpointHeight

(* Mutant: the taller chain wins.                                            *)
Preferred_ByHeight(new) == Height[new] >= Height[tip]

(***************************************************************************)
(* The fork choice as AddBlock makes it: a block below the current height  *)
(* is not compared.                                                        *)
(***************************************************************************)
Preferred(new) == Height[new] >= Height[tip] /\ Better(new, tip)

NoWork ==
  /\ target' = NoBlock
  /\ rollback' = {} /\ apply' = {} /\ cur' = NoBlock
  /\ todo' = <<>> /\ dels' = {} /\ adds' = {} /\ idxs' = {}

(***************************************************************************)
(* AddBlock returns (an error or not) and releases chainMu.  Nothing that  *)
(* was written is taken back.                                              *)
(***************************************************************************)
Return == phase' = "free" /\ NoWork

-----------------------------------------------------------------------------
(* Start-up *)

Init ==
  /\ stored = {} /\ indexed = {} /\ undone = {}
  /\ txHeight = [tx \in Txs |-> NotIndexed]
  /\ utxo = {}
  /\ dbTip = NoBlock /\ tip = NoBlock
  /\ verifying = [c \in Callers |-> NoBlock]
  /\ phase = "boot"
  /\ target = NoBlock /\ rollback = {} /\ apply = {} /\ cur = NoBlock
  /\ todo = <<>> /\ dels = {} /\ adds = {} /\ idxs = {}
  /\ stops = 0

(* An empty database: SaveBlock(genesis), then SaveChainTip(genesis).        *)
SaveGenesis ==
  /\ phase = "boot" /\ dbTip = NoBlock
  /\ Genesis \notin stored
  /\ stored' = stored \cup {Genesis}
  /\ indexed' = indexed \cup {Genesis}
  /\ UNCHANGED <<undone, txHeight, utxo, dbTip, tip, verifying, phase, work, stops>>

(* Mutant: bc.Tip is not set after a fresh start.                            *)
SaveGenesisTip_Unset ==
  /\ phase = "boot" /\ dbTip = NoBlock
  /\ Genesis \in stored
  /\ dbTip' = Genesis
  /\ phase' = "free"
  /\ UNCHANGED <<stored, indexed, undone, txHeight, utxo, tip, verifying, work, stops>>

SaveGenesisTip ==
  /\ phase = "boot" /\ dbTip = NoBlock
  /\ Genesis \in stored
  /\ dbTip' = Genesis /\ tip' = Genesis
  /\ phase' = "free"
  /\ UNCHANGED <<stored, indexed, undone, txHeight, utxo, verifying, work, stops>>

LoadTip ==
  /\ phase = "boot" /\ dbTip # NoBlock
  /\ tip' = dbTip
  /\ phase' = "recover"
  /\ UNCHANGED <<db, verifying, work, stops>>

(* If the height index is ahead of the tip, advance the tip along it.        *)
Ahead == {b \in AtHeight(Height[tip] + 1) : Parent[b] = tip}

RecoverStep ==
  /\ phase = "recover"
  /\ \E b \in Ahead : dbTip' = b /\ tip' = b
  /\ UNCHANGED <<stored, indexed, undone, txHeight, utxo, verifying, phase, work, stops>>

RecoverDone ==
  /\ phase = "recover" /\ Ahead = {}
  /\ phase' = "free"
  /\ UNCHANGED <<db, tip, verifying, work, stops>>

(* The process ends: memory is lost, the database stays as it is.            *)
Stop ==
  /\ stops < MaxStops /\ phase # "boot"
  /\ stops' = stops + 1
  /\ phase' = "boot" /\ NoWork
  /\ tip' = NoBlock
  /\ verifying' = [c \in Callers |-> NoBlock]
  /\ UNCHANGED db

-----------------------------------------------------------------------------
(* AddBlock *)

BeginApply(blocks) ==
  /\ phase' = "next"
  /\ apply' = blocks
  /\ rollback' = {}

(* A stored block that is not on the main chain is applied without checks if *)
(* it extends the tip; otherwise AddBlock returns nil and does nothing.      *)
AddLimbo(b) ==
  /\ phase = "free"
  /\ b # Genesis
  /\ b \in stored /\ ~OnMainChain(b)
  /\ Parent[b] = tip
  /\ target' = b
  /\ BeginApply({b})
  /\ UNCHANGED <<db, tip, verifying, cur, todo, dels, adds, idxs, stops>>

(* A new block with a known parent; without one AddBlock returns             *)
(* ErrOrphanBlock.  PoW is skipped when no engine is wired in, or in IBD for *)
(* blocks more than ten below the sync target.                               *)
Acceptable(b) ==
  /\ b # Genesis
  /\ b \notin stored
  /\ Parent[b] \in stored
  /\ CheckpointOK(b)

AddUnverified(b) ==
  /\ phase = "free"
  /\ Acceptable(b)
  /\ target' = b
  /\ phase' = "save"
  /\ UNCHANGED <<db, tip, verifying, rollback, apply, cur, todo, dels, adds, idxs, stops>>

BeginVerify(c, b) ==
  /\ phase = "free"
  /\ Acceptable(b)
  /\ verifying[c] = NoBlock
  /\ verifying' = [verifying EXCEPT ![c] = b]
  /\ UNCHANGED <<db, tip, phase, work, stops>>

(* The lock is taken again: a concurrent call may have stored the block.     *)
EndVerify(c) ==
  /\ phase = "free"
  /\ verifying[c] # NoBlock
  /\ verifying[c] \notin stored
  /\ target' = verifying[c]
  /\ phase' = "save"
  /\ verifying' = [verifying EXCEPT ![c] = NoBlock]
  /\ UNCHANGED <<db, tip, rollback, apply, cur, todo, dels, adds, idxs, stops>>

(* Stored meanwhile, or the engine failed or did not confirm the hash.       *)
AbandonVerify(c) ==
  /\ phase = "free"
  /\ verifying[c] # NoBlock
  /\ verifying' = [verifying EXCEPT ![c] = NoBlock]
  /\ UNCHANGED <<db, tip, phase, work, stops>>

(* SaveBlockData, and the fork choice that follows it.                       *)
Store ==
  /\ phase = "save"
  /\ stored' = stored \cup {target}
  /\ UNCHANGED <<indexed, undone, txHeight, utxo, dbTip, tip, verifying, stops>>

StoreExtending ==
  /\ Store
  /\ Parent[target] = tip
  /\ BeginApply({target})
  /\ UNCHANGED <<target, cur, todo, dels, adds, idxs>>

StoreReorganizing ==
  /\ Store
  /\ Parent[target] # tip
  /\ Preferred(target)
  /\ ReorgAllowed(target)
  /\ phase' = "next"
  /\ rollback' = Ancestors[tip] \ Ancestors[target]
  /\ apply' = Ancestors[target] \ Ancestors[tip]
  /\ UNCHANGED <<target, cur, todo, dels, adds, idxs>>

StoreOnly ==
  /\ Store
  /\ Parent[target] # tip
  /\ ~(Preferred(target) /\ ReorgAllowed(target))
  /\ Return

-----------------------------------------------------------------------------
(* One output key at a time.  The inputs of a transaction are distinct keys  *)
(* and so are its outputs, so their order within one loop is left open.      *)

DeleteOut ==
  /\ phase \in {"undo", "tx"}
  /\ \E o \in dels : utxo' = utxo \ {o} /\ dels' = dels \ {o}
  /\ UNCHANGED <<stored, indexed, undone, txHeight, dbTip, tip, verifying, phase,
                 target, rollback, apply, cur, todo, adds, idxs, stops>>

AddOut ==
  /\ phase = "undo" \/ (phase = "tx" /\ ~Overspends(Head(todo)))
  /\ dels = {}
  /\ \E o \in adds : utxo' = utxo \cup {o} /\ adds' = adds \ {o}
  /\ UNCHANGED <<stored, indexed, undone, txHeight, dbTip, tip, verifying, phase,
                 target, rollback, apply, cur, todo, dels, idxs, stops>>

-----------------------------------------------------------------------------
(* reorganize, first loop: roll back from the tip down.  RollbackBlock       *)
(* deletes what the block created, then restores what it spent; the tx index *)
(* entries go last.                                                          *)

(* Mutants: the spent outputs are not restored; the tx index is kept.        *)
BeginUndo_NoRestore ==
  /\ phase = "next" /\ rollback # {}
  /\ \E b \in Highest(rollback) :
       /\ b \in undone /\ cur' = b
       /\ dels' = CreatedBy(b) /\ idxs' = ToSet(TxSeq[b])
  /\ adds' = {}
  /\ phase' = "undo"
  /\ UNCHANGED <<db, tip, verifying, target, rollback, apply, todo, stops>>

BeginUndo_KeepTxIndex ==
  /\ phase = "next" /\ rollback # {}
  /\ \E b \in Highest(rollback) :
       /\ b \in undone /\ cur' = b
       /\ dels' = CreatedBy(b) /\ adds' = SpentBy(b)
  /\ idxs' = {}
  /\ phase' = "undo"
  /\ UNCHANGED <<db, tip, verifying, target, rollback, apply, todo, stops>>

BeginUndo ==
  /\ phase = "next" /\ rollback # {}
  /\ \E b \in Highest(rollback) :
       /\ b \in undone
       /\ cur' = b
       /\ dels' = CreatedBy(b)
       /\ adds' = SpentBy(b)
       /\ idxs' = ToSet(TxSeq[b])
  /\ phase' = "undo"
  /\ UNCHANGED <<db, tip, verifying, target, rollback, apply, todo, stops>>

UndoMissing ==
  /\ phase = "next" /\ rollback # {}
  /\ Highest(rollback) \cap undone = {}
  /\ Return
  /\ UNCHANGED <<db, tip, verifying, stops>>

DeleteTxIndex ==
  /\ phase = "undo" /\ dels = {} /\ adds = {}
  /\ \E tx \in idxs :
       /\ txHeight' = [txHeight EXCEPT ![tx] = NotIndexed]
       /\ idxs' = idxs \ {tx}
  /\ UNCHANGED <<stored, indexed, undone, utxo, dbTip, tip, verifying, phase,
                 target, rollback, apply, cur, todo, dels, adds, stops>>

(* Mutants: the loop does not advance; the height index entry goes too.      *)
EndUndo_Stuck ==
  /\ phase = "undo" /\ dels = {} /\ adds = {} /\ idxs = {}
  /\ phase' = "next" /\ cur' = NoBlock
  /\ UNCHANGED <<db, tip, verifying, target, rollback, apply, todo, dels, adds, idxs,
                 stops>>

EndUndo_Unindex ==
  /\ phase = "undo" /\ dels = {} /\ adds = {} /\ idxs = {}
  /\ rollback' = rollback \ {cur} /\ cur' = NoBlock
  /\ indexed' = indexed \ {cur}
  /\ phase' = "next"
  /\ UNCHANGED <<stored, undone, txHeight, utxo, dbTip, tip, verifying, target,
                 apply, todo, dels, adds, idxs, stops>>

EndUndo ==
  /\ phase = "undo" /\ dels = {} /\ adds = {} /\ idxs = {}
  /\ rollback' = rollback \ {cur} /\ cur' = NoBlock
  /\ phase' = "next"
  /\ UNCHANGED <<db, tip, verifying, target, apply, todo, dels, adds, idxs, stops>>

-----------------------------------------------------------------------------
(* applyBlock, and the second loop of reorganize: ProcessBlock, height       *)
(* index, undo record, tx index.                                             *)

BeginBlock ==
  /\ phase = "next" /\ rollback = {} /\ apply # {}
  /\ \E b \in Lowest(apply) : cur' = b /\ todo' = ProcessOrder(b)
  /\ phase' = "process"
  /\ UNCHANGED <<db, tip, verifying, target, rollback, apply, dels, adds, idxs, stops>>

TxPasses(tx, b) ==
  IF IsCoinbase(tx) THEN ~Overclaims(tx, b)
                    ELSE InputsValid(tx, Height[b], utxo)

BeginTx ==
  /\ phase = "process" /\ todo # <<>>
  /\ TxPasses(Head(todo), cur)
  /\ dels' = Ins[Head(todo)]
  /\ adds' = Creates[Head(todo)]
  /\ phase' = "tx"
  /\ UNCHANGED <<db, tip, verifying, target, rollback, apply, cur, todo, idxs, stops>>

EndTx ==
  /\ phase = "tx" /\ dels = {} /\ adds = {}
  /\ todo' = Tail(todo)
  /\ phase' = "process"
  /\ UNCHANGED <<db, tip, verifying, target, rollback, apply, cur, dels, adds, idxs, stops>>

(* ProcessBlock returns an error: before the transaction's first write, or   *)
(* after its inputs are spent.                                               *)
TxRefused ==
  /\ \/ /\ phase = "process" /\ todo # <<>>
        /\ ~TxPasses(Head(todo), cur)
     \/ /\ phase = "tx" /\ dels = {}
        /\ Overspends(Head(todo))
  /\ Return
  /\ UNCHANGED <<db, tip, verifying, stops>>

EndProcess ==
  /\ phase = "process" /\ todo = <<>>
  /\ phase' = "index"
  /\ UNCHANGED <<db, tip, verifying, work, stops>>

(* Mutant: a height that is indexed already keeps its block.                 *)
UpdateHeightIndex_KeepOld ==
  /\ phase = "index"
  /\ indexed' = IF \E c \in indexed : Height[c] = Height[cur] THEN indexed ELSE indexed \cup {cur}
  /\ phase' = "record"
  /\ UNCHANGED <<stored, undone, txHeight, utxo, dbTip, tip, verifying, work, stops>>

UpdateHeightIndex ==
  /\ phase = "index"
  /\ indexed' = {c \in indexed : Height[c] # Height[cur]} \cup {cur}
  /\ phase' = "record"
  /\ UNCHANGED <<stored, undone, txHeight, utxo, dbTip, tip, verifying, work, stops>>

SaveBlockUndo ==
  /\ phase = "record"
  /\ undone' = undone \cup {cur}
  /\ idxs' = ToSet(TxSeq[cur])
  /\ phase' = "txindex"
  /\ UNCHANGED <<stored, indexed, txHeight, utxo, dbTip, tip, verifying,
                 target, rollback, apply, cur, todo, dels, adds, stops>>

SaveTxIndex ==
  /\ phase = "txindex"
  /\ \E tx \in idxs :
       /\ txHeight' = [txHeight EXCEPT ![tx] = Height[cur]]
       /\ idxs' = idxs \ {tx}
  /\ UNCHANGED <<stored, indexed, undone, utxo, dbTip, tip, verifying, phase,
                 target, rollback, apply, cur, todo, dels, adds, stops>>

EndBlock ==
  /\ phase = "txindex" /\ idxs = {}
  /\ apply' = apply \ {cur} /\ cur' = NoBlock
  /\ phase' = "next"
  /\ UNCHANGED <<db, tip, verifying, target, rollback, todo, dels, adds, idxs, stops>>

(* SaveChainTip, then bc.Tip and bc.Height under stateMu.                    *)
SaveChainTip ==
  /\ phase = "next" /\ rollback = {} /\ apply = {}
  /\ dbTip' = target /\ tip' = target
  /\ Return
  /\ UNCHANGED <<stored, indexed, undone, txHeight, utxo, verifying, stops>>

-----------------------------------------------------------------------------

Next ==
  \/ SaveGenesis \/ SaveGenesisTip \/ LoadTip \/ RecoverStep \/ RecoverDone
  \/ \E b \in Blocks : AddLimbo(b) \/ AddUnverified(b)
  \/ \E c \in Callers : EndVerify(c) \/ AbandonVerify(c)
  \/ \E c \in Callers, b \in Blocks : BeginVerify(c, b)
  \/ StoreExtending \/ StoreReorganizing \/ StoreOnly
  \/ BeginUndo \/ UndoMissing \/ DeleteOut \/ AddOut \/ DeleteTxIndex \/ EndUndo
  \/ BeginBlock \/ BeginTx \/ EndTx \/ TxRefused \/ EndProcess
  \/ UpdateHeightIndex \/ SaveBlockUndo \/ SaveTxIndex \/ EndBlock
  \/ SaveChainTip \/ Stop

Spec == Init /\ [][Next]_vars

(* A goroutine that is in AddBlock, or a start-up, runs on.  New blocks and  *)
(* stops need not come.                                                      *)
Steps ==
  \/ SaveGenesis \/ SaveGenesisTip \/ LoadTip \/ RecoverStep \/ RecoverDone
  \/ StoreExtending \/ StoreReorganizing \/ StoreOnly
  \/ BeginUndo \/ UndoMissing \/ DeleteOut \/ AddOut \/ DeleteTxIndex \/ EndUndo
  \/ BeginBlock \/ BeginTx \/ EndTx \/ TxRefused \/ EndProcess
  \/ UpdateHeightIndex \/ SaveBlockUndo \/ SaveTxIndex \/ EndBlock
  \/ SaveChainTip

FairSpec == Spec /\ WF_vars(Steps)

-----------------------------------------------------------------------------
(* Properties *)

(***************************************************************************)
(* Whenever no caller is inside AddBlock, the UTXO set is what replaying   *)
(* the main chain from genesis gives: reorgs lose and resurrect nothing.   *)
(***************************************************************************)
UTXOIsReplay == phase = "free" => utxo = Replay[tip]

(***************************************************************************)
(* ... the height index points at the blocks of the main chain and at      *)
(* nothing else: no height above the tip resolves.                         *)
(***************************************************************************)
IndexIsMainChain == phase = "free" => indexed = Ancestors[tip]

(***************************************************************************)
(* ... every block of the main chain but genesis can be rolled back.       *)
(***************************************************************************)
UndoOnMainChain == phase = "free" => Ancestors[tip] \ {Genesis} \subseteq undone

(***************************************************************************)
(* ... a transaction is in the tx index exactly if a block of the main     *)
(* chain holds it, at that block's height, also when both sides of a reorg *)
(* hold it.                                                                *)
(***************************************************************************)
TxIndexIsMainChain ==
  phase = "free" =>
    \A tx \in Txs :
      LET holders == {b \in Ancestors[tip] \ {Genesis} : tx \in ToSet(TxSeq[b])}
      IN  IF holders = {} THEN txHeight[tx] = NotIndexed
                          ELSE \E b \in holders : txHeight[tx] = Height[b]

(***************************************************************************)
(* ... no block the node holds that is as high as its tip beats the tip,   *)
(* whatever the order in which the blocks came and however their           *)
(* verifications overlapped, once the tip has reached the checkpoint: any  *)
(* two branches of that height meet at it, and none is left aside that     *)
(* should have won.  (A tip below it is kept, since every common ancestor  *)
(* lies below; and AddBlock does not compare a shorter chain.)             *)
(***************************************************************************)
TipIsBest ==
  phase = "free" /\ Height[tip] >= CheckpointHeight =>
    \A b \in stored : ~(Height[b] >= Height[tip] /\ Better(b, tip))

(***************************************************************************)
(* A chain that reaches the checkpoint's height runs through the           *)
(* checkpoint, in the database a restart will read.                        *)
(***************************************************************************)
CheckpointOnChain ==
  dbTip # NoBlock /\ CheckpointHeight > 0 /\ Height[dbTip] >= CheckpointHeight
    => CheckpointBlock \in Ancestors[dbTip]

(***************************************************************************)
(* Whatever a crash leaves behind, every height up to the tip resolves to  *)
(* a block, so the difficulty window, getblocks and the explorer find one. *)
(***************************************************************************)
IndexCoversTip ==
  phase = "free" => \A h \in 0..Height[tip] : AtHeight(h) # {}

(***************************************************************************)
(* The database refines BestChain, crash or not: what it holds is          *)
(* connected to genesis, and its tip only moves to a preferred block.      *)
(***************************************************************************)
BC == INSTANCE BestChain WITH known <- stored, best <- dbTip

ImplementsBestChain == BC!Spec

(***************************************************************************)
(* The inductive invariant behind it: what each phase may rely on.         *)
(***************************************************************************)
Working == {"next", "undo", "process", "tx", "index", "record", "txindex"}

StoreConnected ==
  /\ \A b \in stored : Ancestors[b] \subseteq stored
  /\ indexed \subseteq stored
  /\ apply \subseteq stored \ {Genesis}
  /\ phase = "undo" => cur \in rollback
  /\ phase \in Working \ {"next", "undo"} => cur \in apply

TipStored ==
  /\ phase # "boot" => tip = dbTip
  /\ dbTip # NoBlock => dbTip \in stored

CallsValid ==
  /\ \A c \in Callers : verifying[c] # NoBlock =>
       verifying[c] # Genesis /\ Parent[verifying[c]] \in stored
  /\ phase = "save" => target # Genesis /\ Parent[target] \in stored
  /\ phase \in Working => target \in stored /\ Better(target, tip)

ChainInv == TypeOK /\ StoreConnected /\ TipStored /\ CallsValid

(***************************************************************************)
(* Every call of AddBlock returns and every start-up completes.            *)
(***************************************************************************)
LockReleased == [](phase # "free" => <>(phase = "free"))

=============================================================================
