-------------------------------- MODULE Sync --------------------------------
(***************************************************************************)
(* The sync manager of one node: how blocks that peers announce or serve,  *)
(* in any order and with some lost, become the node's chain.               *)
(*                                                                         *)
(* Threads: a reader per peer, inside OnBlockReceived for as long as a     *)
(* block and the orphans it connects take, and syncLoop.  AddBlock is one  *)
(* step here (module Blockchain has its inside) and all blocks are valid.  *)
(* Peers are other nodes of the same program that hold one branch each,    *)
(* may extend it, and are not moved by what this node relays.              *)
(***************************************************************************)
EXTENDS BlockTree, FiniteSets, Sequences, SequencesExt

CONSTANTS
  Peers, NoPeer,
  Start,          \* the node's tip at the beginning
  PeerStart,      \* peer -> its tip at the beginning
  PeerEnd,        \* peer -> bound: the last block it extends its branch to
  Batch,          \* blocks a getblocks asks for (500)
  QueueSize,      \* capacity of an outbound queue (100)
  MaxInv,         \* cap of pendingInv (10000)
  MaxOrphans,     \* cap of the orphan pool (500)
  Activations,    \* heights in ForkActivations
  MaxCuts         \* bound: connections that drop

ASSUME SyncAssumption ==
  /\ NoPeer \notin Peers
  /\ Start \in Blocks
  /\ PeerStart \in [Peers -> Blocks] /\ PeerEnd \in [Peers -> Blocks]
  /\ \A p \in Peers : PeerStart[p] \in Ancestors[PeerEnd[p]]
  /\ {Batch, QueueSize, MaxInv} \subseteq Nat \ {0}
  /\ {MaxOrphans, MaxCuts} \subseteq Nat
  /\ Activations \subseteq Nat

VARIABLES
  known, tip,     \* blocks stored, the tip
  orphans,        \* sm.orphans
  pendingInv,     \* hashes asked for with getdata
  recent,         \* lastReorg is less than two seconds ago
  syncing,        \* bc.isSyncing
  bestPeer,
  height,         \* peer -> peer.Height, as far as this node has heard
  up,             \* peer -> handshake complete
  todo,           \* peer -> what its reader has still to do, innermost call first
  loop,           \* where syncLoop stands in doSync
  peerTip,        \* peer -> its tip
  outbox, inbox,  \* peer -> messages to it and from it
  cuts

net == <<outbox, inbox>>
flags == <<syncing, bestPeer>>
store == <<known, tip, orphans, pendingInv, recent>>
vars == <<store, flags, height, up, todo, loop, peerTip, net, cuts>>

Message ==
  [type : {"getblocks"}, from : Nat]
    \cup [type : {"getdata", "block"}, block : Blocks]
    \cup [type : {"inv"}, blocks : Seq(Blocks)]

Task ==
  [do : {"item", "receive", "add", "orphan", "added", "finish", "compare", "relay"},
   block : Blocks, from : Peers \cup {NoPeer}, reorg : BOOLEAN]

TypeOK ==
  /\ known \subseteq Blocks /\ tip \in known
  /\ orphans \subseteq Blocks /\ pendingInv \subseteq Blocks
  /\ Cardinality(orphans) <= MaxOrphans /\ Cardinality(pendingInv) <= MaxInv
  /\ recent \in BOOLEAN /\ syncing \in BOOLEAN
  /\ bestPeer \in Peers \cup {NoPeer}
  /\ height \in [Peers -> Nat] /\ up \in [Peers -> BOOLEAN]
  /\ peerTip \in [Peers -> Blocks]
  /\ \A p \in Peers : todo[p] \in Seq(Task)
  /\ \A p \in Peers : outbox[p] \in Seq(Message) /\ inbox[p] \in Seq(Message)
  /\ loop.at \in {"wait", "act"} /\ loop.best \in Peers \cup {NoPeer}
  /\ loop.from \in Nat /\ loop.peers \subseteq Peers
  /\ cuts \in 0..MaxCuts

Waiting == [at |-> "wait", best |-> NoPeer, from |-> 0, peers |-> {}]

Init ==
  /\ known = Ancestors[Start] /\ tip = Start
  /\ orphans = {} /\ pendingInv = {} /\ recent = FALSE
  /\ syncing = FALSE /\ bestPeer = NoPeer
  /\ height = [p \in Peers |-> 0] /\ up = [p \in Peers |-> FALSE]
  /\ todo = [p \in Peers |-> <<>>]
  /\ loop = Waiting
  /\ peerTip = PeerStart
  /\ outbox = [p \in Peers |-> <<>>] /\ inbox = [p \in Peers |-> <<>>]
  /\ cuts = 0

-----------------------------------------------------------------------------
(* Messages *)

(* Send: a full queue drops the message.                                     *)
Enqueue(queue, m) == IF Len(queue) < QueueSize THEN Append(queue, m) ELSE queue

GetBlocks == [type |-> "getblocks", from |-> Height[tip]]
GetData(b) == [type |-> "getdata", block |-> b]

(* The peer's handleGetBlocks: its main chain above a height, in batches.    *)
Above(p, h) ==
  LET t    == peerTip[p]
      last == IF Height[t] < h + Batch THEN Height[t] ELSE h + Batch
  IN  [i \in 1..(last - h) |-> CHOOSE b \in Ancestors[t] : Height[b] = h + i]

PeerServe(p) ==
  /\ outbox[p] # <<>>
  /\ outbox' = [outbox EXCEPT ![p] = Tail(@)]
  /\ LET m == Head(outbox[p])
     IN  \/ /\ m.type = "getblocks" /\ Above(p, m.from) # <<>>
            /\ inbox' = [inbox EXCEPT
                 ![p] = Enqueue(@, [type |-> "inv", blocks |-> Above(p, m.from)])]
         \/ /\ m.type = "getdata" /\ m.block \in Ancestors[peerTip[p]]
            /\ inbox' = [inbox EXCEPT
                 ![p] = Enqueue(@, [type |-> "block", block |-> m.block])]
         \/ /\ \/ m.type = "block"
               \/ m.type = "getblocks" /\ Above(p, m.from) = <<>>
               \/ m.type = "getdata" /\ m.block \notin Ancestors[peerTip[p]]
            /\ UNCHANGED inbox
  /\ UNCHANGED <<store, flags, height, up, todo, loop, peerTip, cuts>>

(* The peer mines or receives a block and broadcasts it.                     *)
PeerMine(p) ==
  \E b \in Ancestors[PeerEnd[p]] :
    /\ b # Genesis /\ Parent[b] = peerTip[p]
    /\ peerTip' = [peerTip EXCEPT ![p] = b]
    /\ inbox' = IF up[p]
                THEN [inbox EXCEPT ![p] = Enqueue(@, [type |-> "block", block |-> b])]
                ELSE inbox
    /\ UNCHANGED <<store, flags, height, up, todo, loop, outbox, cuts>>

-----------------------------------------------------------------------------
(* A peer's reader *)

Call(d, b, p) == [do |-> d, block |-> b, from |-> p, reorg |-> FALSE]

(* readLoop takes a message: handleInv, or handleBlock, which notes whether  *)
(* the block is new before it calls OnBlockReceived.                         *)
Read(p) ==
  /\ up[p] /\ todo[p] = <<>> /\ inbox[p] # <<>>
  /\ inbox' = [inbox EXCEPT ![p] = Tail(@)]
  /\ LET m == Head(inbox[p])
     IN  todo' = [todo EXCEPT
           ![p] = IF m.type = "inv"
                  THEN [i \in 1..Len(m.blocks) |-> Call("item", m.blocks[i], p)]
                  ELSE IF m.block \in known THEN <<>>
                  ELSE <<Call("receive", m.block, p), Call("relay", m.block, p)>>]
  /\ UNCHANGED <<store, flags, height, up, loop, peerTip, outbox, cuts>>

At(p, d) == todo[p] # <<>> /\ Head(todo[p]).do = d
Return(p) == todo' = [todo EXCEPT ![p] = Tail(@)]
Become(p, task) == todo' = [todo EXCEPT ![p] = <<task>> \o Tail(@)]

(* One item of an inv: ask once for a block that is not on the main chain.   *)
Item(p) ==
  /\ At(p, "item")
  /\ LET b == Head(todo[p]).block
     IN  IF b \notin Ancestors[tip] \cup pendingInv /\ Cardinality(pendingInv) < MaxInv
         THEN /\ pendingInv' = pendingInv \cup {b}
              /\ outbox' = IF up[p] THEN [outbox EXCEPT ![p] = Enqueue(@, GetData(b))]
                                    ELSE outbox
         ELSE UNCHANGED <<pendingInv, outbox>>
  /\ Return(p)
  /\ UNCHANGED <<known, tip, orphans, recent, flags, height, up, loop, peerTip, inbox, cuts>>

(***************************************************************************)
(* OnBlockReceived: drop what is stored, and what would reorganise the     *)
(* chain within two seconds of the last time.                              *)
(***************************************************************************)
WouldReorg(b) == Parent[b] # tip /\ Height[b] >= Height[tip]

Receive(p) ==
  /\ At(p, "receive")
  /\ LET task == Head(todo[p])
         b == task.block
         limited == WouldReorg(b) /\ recent /\ Height[b] \notin Activations
     IN  IF b \in known \/ limited
         THEN Return(p)
         ELSE Become(p, [task EXCEPT !.do = "add", !.reorg = WouldReorg(b)])
  /\ UNCHANGED <<store, flags, height, up, loop, peerTip, net, cuts>>

Preferred(b) == Height[b] >= Height[tip] /\ Better(b, tip)

(* Mutant: a block that takes over from another branch is not stored.        *)
AddBlock_NotStored(p) ==
  /\ At(p, "add")
  /\ LET task == Head(todo[p])
         b == task.block
     IN  IF b \in known \/ Parent[b] \in known
         THEN /\ known' = IF Parent[b] = tip THEN known \cup {b} ELSE known
              /\ tip' = IF \/ Parent[b] = tip
                           \/ b \notin known /\ Preferred(b) THEN b ELSE tip
              /\ Become(p, [task EXCEPT !.do = "added"])
         ELSE /\ Become(p, [task EXCEPT !.do = "orphan"])
              /\ UNCHANGED <<known, tip>>
  /\ UNCHANGED <<orphans, pendingInv, recent, flags, height, up, loop, peerTip, net, cuts>>

AddBlock(p) ==
  /\ At(p, "add")
  /\ LET task == Head(todo[p])
         b == task.block
     IN  IF b \in known \/ Parent[b] \in known
         THEN /\ known' = known \cup {b}
              /\ tip' = IF \/ Parent[b] = tip
                           \/ b \notin known /\ Preferred(b) THEN b ELSE tip
              /\ Become(p, [task EXCEPT !.do = "added"])
         ELSE /\ Become(p, [task EXCEPT !.do = "orphan"])
              /\ UNCHANGED <<known, tip>>
  /\ UNCHANGED <<orphans, pendingInv, recent, flags, height, up, loop, peerTip, net, cuts>>

(* AddOrphan unless the pool is full; RequestBlock for the parent.           *)
AddOrphan(p) ==
  /\ At(p, "orphan")
  /\ LET task == Head(todo[p])
         parent == GetData(Parent[task.block])
     IN  /\ orphans' = IF Cardinality(orphans) < MaxOrphans
                       THEN orphans \cup {task.block} ELSE orphans
         /\ outbox' = IF task.from # NoPeer /\ up[p]
                      THEN [outbox EXCEPT ![p] = Enqueue(@, parent)] ELSE outbox
  /\ Return(p)
  /\ UNCHANGED <<known, tip, pendingInv, recent, flags, height, up, loop, peerTip, inbox, cuts>>

(***************************************************************************)
(* A reorganisation starts the two seconds only if the block is the tip    *)
(* now.  Then ProcessOrphans: the children of the block, in the order of a *)
(* Go map, each through OnBlockReceived.                                   *)
(***************************************************************************)
Ready(b) == {c \in orphans : Parent[c] = b}

Added(p) ==
  /\ At(p, "added")
  /\ LET task == Head(todo[p])
         b == task.block
     IN  /\ recent' = (recent \/ (task.reorg /\ tip = b))
         /\ height' = IF task.from # NoPeer /\ Height[b] > height[p]
                      THEN [height EXCEPT ![p] = Height[b]] ELSE height
         /\ pendingInv' = pendingInv \ {b}
         /\ orphans' = orphans \ Ready(b)
         /\ \E order \in SetToSeqs(Ready(b)) :
              todo' = [todo EXCEPT
                ![p] = [i \in 1..Len(order) |-> Call("receive", order[i], NoPeer)]
                         \o <<Call("finish", b, task.from)>> \o Tail(@)]
  /\ UNCHANGED <<known, tip, flags, up, loop, peerTip, net, cuts>>

(* Broadcast leaves out the peer the block came from.                        *)
Relayed(b, from) ==
  [q \in Peers |-> IF up[q] /\ q # from
                   THEN Enqueue(outbox[q], [type |-> "block", block |-> b]) ELSE outbox[q]]

(* Relay the block; is there a peer that is synced from?                     *)
Finish(p) ==
  /\ At(p, "finish")
  /\ LET task == Head(todo[p])
     IN  /\ outbox' = Relayed(task.block, task.from)
         /\ IF bestPeer # NoPeer THEN Become(p, [task EXCEPT !.do = "compare"]) ELSE Return(p)
  /\ UNCHANGED <<store, flags, height, up, loop, peerTip, inbox, cuts>>

(* bestPeer is read again: caught up with it?                                *)
Compare(p) ==
  /\ At(p, "compare") /\ bestPeer # NoPeer
  /\ syncing' = (syncing /\ Height[tip] < height[bestPeer])
  /\ Return(p)
  /\ UNCHANGED <<store, bestPeer, height, up, loop, peerTip, net, cuts>>

(***************************************************************************)
(* OnPeerDisconnected has set it to nil in between: the process ends and   *)
(* systemd starts it again.  What is in the database stays.                *)
(***************************************************************************)
Panic(p) ==
  /\ At(p, "compare") /\ bestPeer = NoPeer
  /\ orphans' = {} /\ pendingInv' = {} /\ recent' = FALSE
  /\ syncing' = FALSE
  /\ up' = [q \in Peers |-> FALSE]
  /\ todo' = [q \in Peers |-> <<>>]
  /\ loop' = Waiting
  /\ outbox' = [q \in Peers |-> <<>>] /\ inbox' = [q \in Peers |-> <<>>]
  /\ UNCHANGED <<known, tip, bestPeer, height, peerTip, cuts>>

(* handleBlock relays a block that was new and is stored now once more.      *)
Relay(p) ==
  /\ At(p, "relay")
  /\ LET task == Head(todo[p])
     IN  outbox' = IF task.block \in known THEN Relayed(task.block, p) ELSE outbox
  /\ Return(p)
  /\ UNCHANGED <<store, flags, height, up, loop, peerTip, inbox, cuts>>

Handle(p) ==
  \/ Item(p) \/ Receive(p) \/ AddBlock(p) \/ AddOrphan(p)
  \/ Added(p) \/ Finish(p) \/ Compare(p) \/ Panic(p) \/ Relay(p)

-----------------------------------------------------------------------------
(* syncLoop *)

Connected == {p \in Peers : up[p]}

(* Those of S that announced most, and more than h.                          *)
Tallest(S, h) ==
  {p \in S : height[p] > h /\ \A q \in S : height[q] <= height[p]}

(* doSync reads the height and picks the best peer ...                       *)
SyncTick ==
  /\ loop = Waiting
  /\ \/ /\ Connected = {}
        /\ syncing' = FALSE
        /\ UNCHANGED loop
     \/ /\ Connected # {}
        /\ \E best \in Tallest(Connected, Height[tip]) \cup {NoPeer} :
             /\ best = NoPeer => Tallest(Connected, Height[tip]) = {}
             /\ loop' = [at |-> "act", best |-> best, from |-> Height[tip],
                         peers |-> Connected]
        /\ UNCHANGED syncing
  /\ UNCHANGED <<store, bestPeer, height, up, todo, peerTip, net, cuts>>

(* Mutant: the flag is left to OnBlockReceived.                              *)
SyncDone_KeepFlag ==
  /\ loop.at = "act" /\ loop.best = NoPeer
  /\ loop' = Waiting
  /\ UNCHANGED <<store, flags, height, up, todo, peerTip, net, cuts>>

(* ... nobody is ahead: done, unless a height may still be unknown.          *)
SyncDone ==
  /\ loop.at = "act" /\ loop.best = NoPeer
  /\ loop' = Waiting
  /\ LET deferred == bestPeer \in loop.peers /\ \E p \in loop.peers : height[p] = 0
     IN  syncing' = (syncing /\ deferred)
  /\ UNCHANGED <<store, bestPeer, height, up, todo, peerTip, net, cuts>>

(* ... or asks the best peer for what follows the height it read.            *)
SyncFrom ==
  /\ loop.at = "act" /\ loop.best # NoPeer
  /\ bestPeer' = loop.best /\ syncing' = TRUE
  /\ outbox' = IF up[loop.best]
               THEN [outbox EXCEPT ![loop.best] =
                       Enqueue(@, [type |-> "getblocks", from |-> loop.from])]
               ELSE outbox
  /\ loop' = Waiting
  /\ UNCHANGED <<store, height, up, todo, peerTip, inbox, cuts>>

-----------------------------------------------------------------------------
(* Peers come and go *)

(* version and verack, then OnPeerConnected.                                 *)
Handshake(p) ==
  /\ ~up[p] /\ todo[p] = <<>>
  /\ up' = [up EXCEPT ![p] = TRUE]
  /\ height' = [height EXCEPT ![p] = Height[peerTip[p]]]
  /\ IF height'[p] > Height[tip]
     THEN bestPeer' = p /\ syncing' = TRUE
     ELSE UNCHANGED flags
  /\ outbox' = [outbox EXCEPT ![p] = <<GetBlocks>>]
  /\ UNCHANGED <<store, todo, loop, peerTip, inbox, cuts>>

(* RemovePeer, then OnPeerDisconnected.                                      *)
Disconnect(p) ==
  /\ up[p] /\ cuts < MaxCuts
  /\ cuts' = cuts + 1
  /\ up' = [up EXCEPT ![p] = FALSE]
  /\ outbox' = [outbox EXCEPT ![p] = <<>>] /\ inbox' = [inbox EXCEPT ![p] = <<>>]
  /\ LET others == Connected \ {p}
     IN  \/ /\ bestPeer # p
            /\ UNCHANGED flags
         \/ /\ bestPeer = p /\ others = {}
            /\ bestPeer' = NoPeer /\ syncing' = FALSE
         \/ /\ bestPeer = p /\ others # {}
            /\ bestPeer' \in IF Tallest(others, 0) = {} THEN {NoPeer} ELSE Tallest(others, 0)
            /\ UNCHANGED syncing
  /\ UNCHANGED <<store, height, todo, loop, peerTip>>

-----------------------------------------------------------------------------
(* Time passes *)

CoolDown ==
  /\ recent /\ recent' = FALSE
  /\ UNCHANGED <<known, tip, orphans, pendingInv, flags, height, up, todo, loop, peerTip, net, cuts>>

(* Mutant: the sweep of pendingInv never finds an old entry.                 *)
Sweep_Nothing(old) == old # {} /\ UNCHANGED vars

(* pingLoop forgets the hashes it asked for thirty seconds ago.              *)
Sweep(old) ==
  /\ old # {} /\ pendingInv' = pendingInv \ old
  /\ UNCHANGED <<known, tip, orphans, recent, flags, height, up, todo, loop, peerTip, net, cuts>>

EvictOrphan(b) ==
  /\ b \in orphans /\ orphans' = orphans \ {b}
  /\ UNCHANGED <<known, tip, pendingInv, recent, flags, height, up, todo, loop, peerTip, net, cuts>>

-----------------------------------------------------------------------------

Next ==
  \/ \E p \in Peers : Read(p) \/ Handle(p)
  \/ \E p \in Peers : PeerServe(p) \/ PeerMine(p) \/ Handshake(p) \/ Disconnect(p)
  \/ SyncTick \/ SyncDone \/ SyncFrom
  \/ CoolDown
  \/ \E old \in SUBSET pendingInv : Sweep(old)
  \/ \E b \in Blocks : EvictOrphan(b)

Spec == Init /\ [][Next]_vars

(***************************************************************************)
(* Goroutines run, TCP delivers, timers fire.  Nothing says that a peer    *)
(* connects or stays, or that anybody finds a block.  ReaderRuns is weak   *)
(* fairness of Read(p) \/ Handle(p): one of them is enabled exactly when   *)
(* the reader is busy.                                                     *)
(***************************************************************************)
Busy(p) == todo[p] # <<>> \/ (up[p] /\ inbox[p] # <<>>)
ReaderRuns(p) == []<>~Busy(p) \/ []<><<todo[p]' # todo[p]>>_todo

Fairness ==
  /\ \A p \in Peers : ReaderRuns(p) /\ WF_outbox(PeerServe(p))
  /\ WF_<<loop, syncing>>(SyncTick \/ SyncDone \/ SyncFrom)
  /\ WF_recent(CoolDown)
  /\ WF_pendingInv(Sweep(pendingInv))

(***************************************************************************)
(* The ticks are five seconds apart.  From some time on a request to the   *)
(* best peer has been answered, and the answers have been handled, when    *)
(* the next tick is due; before, ticks fall anywhere.                      *)
(***************************************************************************)
Quiet(p) == outbox[p] = <<>> /\ inbox[p] = <<>> /\ todo[p] = <<>>

TicksAreSlow == <>[][loop'.best # NoPeer => Quiet(loop'.best)]_loop

FairSpec == Spec /\ Fairness /\ TicksAreSlow

-----------------------------------------------------------------------------
(* Properties *)

(***************************************************************************)
(* A node does not stay behind a height it has heard of from a peer that   *)
(* stays: whatever the rate limit, a full queue or a full orphan pool has  *)
(* dropped is asked for again.                                             *)
(***************************************************************************)
CatchesUp ==
  []<>(\A p \in Peers : up[p] => Height[tip] >= height[p])

(***************************************************************************)
(* The syncing flag, which holds the miner back, is cleared, or doSync     *)
(* leaves it to a later tick: no peer is ahead, the best peer stays, and   *)
(* the height of another is still 0.                                       *)
(***************************************************************************)
Deferred ==
  /\ bestPeer \in Connected /\ Tallest(Connected, Height[tip]) = {}
  /\ \E p \in Connected : height[p] = 0

SyncingIsDeferredOnly == []<>(~syncing \/ Deferred)

(***************************************************************************)
(* The comment in doSync: the heights that are not known yet resolve once  *)
(* the version exchange completes, so the flag clears and the miner is not *)
(* stuck for ever.                                                         *)
(***************************************************************************)
SyncingClears == []<>~syncing

=============================================================================
