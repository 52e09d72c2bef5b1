----------------------------- MODULE Sync_proofs -----------------------------
(***************************************************************************)
(* The sync manager, for every tree of blocks, any number of peers, every  *)
(* capacity and every number of lost connections: types and limits, what   *)
(* the node believes of its peers, and the choice of its tip.              *)
(***************************************************************************)
EXTENDS Sync, FiniteSetTheorems, SequenceTheorems, WellFoundedInduction, TLAPS

(* A set of numbers has a least one: induction without a schema.             *)
LEMMA LeastNumber ==
  ASSUME NEW T \in SUBSET Nat, T # {}
  PROVE  \E n \in T : \A m \in T : n <= m
  <1> DEFINE R == {p \in Nat \X Nat : p[1] < p[2]}
  <1>1. IsWellFoundedOn(R, Nat)  BY NatLessThanWellFounded DEF OpToRel
  <1>2. PICK n \in T : \A m \in T : <<m, n>> \notin R  BY <1>1, WFMin
  <1>3. ASSUME NEW m \in T PROVE n <= m
    <2>1. <<m, n>> \in Nat \X Nat /\ <<m, n>>[1] = m /\ <<m, n>>[2] = n  OBVIOUS
    <2> QED  BY <1>2, <2>1
  <1> QED  BY <1>3

(***************************************************************************)
(* A block lies in its own ancestry, and so does its parent.               *)
(***************************************************************************)
LEMMA OwnAncestry ==
  ASSUME NEW b \in Blocks
  PROVE  /\ b \in Ancestors[b]
         /\ b # Genesis => Ancestors[b] = Ancestors[Parent[b]] \cup {b}
         /\ Ancestors[b] \subseteq Blocks
  <1>1. CASE b = Genesis  BY <1>1, TreeAssumption
  <1>2. CASE b # Genesis  BY <1>2, TreeAssumption
  <1> QED  BY <1>1, <1>2

(* The ancestry of a block is a chain: it starts at genesis, has one block   *)
(* at each height, with a block the ancestry of that block, and the work     *)
(* grows along it.                                                           *)
Linear(b) ==
  /\ Genesis \in Ancestors[b]
  /\ \A h \in 0..Height[b] : \E a \in Ancestors[b] : Height[a] = h
  /\ \A a \in Ancestors[b] :
       /\ Ancestors[a] \subseteq Ancestors[b]
       /\ Height[a] <= Height[b]
       /\ a # b => Work[a] < Work[b]
       /\ \A c \in Ancestors[b] : Height[a] = Height[c] => a = c

(* One block more.                                                           *)
LEMMA ChildIsLinear ==
  ASSUME NEW b \in Blocks, b # Genesis, Linear(Parent[b])
  PROVE  Linear(b)
  <1>1. PICK p \in Blocks : p = Parent[b]  BY TreeAssumption
  <1>2. /\ Ancestors[b] = Ancestors[p] \cup {b} /\ Ancestors[p] \subseteq Blocks
        /\ Height[b] = Height[p] + 1 /\ Height[p] \in Nat
        /\ Work[p] < Work[b] /\ Work[p] \in Nat /\ Work[b] \in Nat
    BY <1>1, TreeAssumption, OwnAncestry
  <1>3. Linear(p)  BY <1>1
  <1>4. Genesis \in Ancestors[b]  BY <1>2, <1>3 DEF Linear
  <1>5. ASSUME NEW h \in 0..Height[b] PROVE \E a \in Ancestors[b] : Height[a] = h
    <2>1. h = Height[b] \/ h \in 0..Height[p]  BY <1>2
    <2> QED  BY <1>2, <1>3, <2>1 DEF Linear
  <1>6. ASSUME NEW a \in Ancestors[p] PROVE Height[a] <= Height[p] /\ Height[a] \in Nat
    BY <1>2, <1>3, TreeAssumption DEF Linear
  <1>7. ASSUME NEW a \in Ancestors[b]
        PROVE  /\ Ancestors[a] \subseteq Ancestors[b] /\ Height[a] <= Height[b]
               /\ a # b => Work[a] < Work[b]
    <2>1. CASE a = b  BY <1>2, <2>1
    <2>2. CASE a \in Ancestors[p]
      <3>1. Ancestors[a] \subseteq Ancestors[p]  BY <1>3, <2>2 DEF Linear
      <3>2. Work[a] \in Nat /\ Work[a] <= Work[p]
        BY <1>2, <1>3, <2>2, TreeAssumption DEF Linear
      <3> QED  BY <1>2, <1>6, <2>2, <3>1, <3>2
    <2> QED  BY <1>2, <2>1, <2>2
  <1>8. ASSUME NEW a \in Ancestors[b], NEW c \in Ancestors[b], Height[a] = Height[c]
        PROVE  a = c
    <2>1. CASE a \in Ancestors[p] /\ c \in Ancestors[p]  BY <1>3, <1>8, <2>1 DEF Linear
    <2>2. CASE a = b /\ c \in Ancestors[p]  BY <1>2, <1>6, <1>8, <2>2
    <2>3. CASE c = b /\ a \in Ancestors[p]  BY <1>2, <1>6, <1>8, <2>3
    <2> QED  BY <1>2, <2>1, <2>2, <2>3
  <1> QED  BY <1>4, <1>5, <1>7, <1>8 DEF Linear

(***************************************************************************)
(* What a walk along PreviousHash gives, by induction on the height: the   *)
(* lowest block whose ancestry were no chain would have a parent whose is. *)
(***************************************************************************)
LEMMA AncestorsAreChains == \A b \in Blocks : Linear(b)
  <1> DEFINE Bad == {b \in Blocks : ~Linear(b)}
             H == {Height[b] : b \in Bad}
  <1> SUFFICES ASSUME Bad # {} PROVE FALSE
    OBVIOUS
  <1>1. H \subseteq Nat /\ H # {}  BY TreeAssumption
  <1>2. PICK n \in H : \A m \in H : n <= m  BY <1>1, LeastNumber
  <1>3. PICK b \in Bad : Height[b] = n  BY <1>2
  <1>4. b # Genesis
    <2>1. ASSUME b = Genesis PROVE Linear(b)
      <3>1. Ancestors[b] = {b} /\ Height[b] = 0  BY <2>1, TreeAssumption
      <3> QED  BY <2>1, <3>1 DEF Linear
    <2> QED  BY <1>3, <2>1
  <1>5. PICK p \in Blocks : p = Parent[b]  BY <1>3, TreeAssumption
  <1>6. Height[b] = Height[p] + 1 /\ Height[p] \in Nat  BY <1>3, <1>4, <1>5, TreeAssumption
  <1>7. CASE p \in Bad
    <2>1. Height[p] \in H  BY <1>7
    <2>2. n <= Height[p]  BY <1>2, <2>1
    <2> QED  BY <1>3, <1>6, <2>2
  <1>8. CASE Linear(p)  BY <1>3, <1>4, <1>5, <1>8, ChildIsLinear
  <1> QED  BY <1>5, <1>7, <1>8

-----------------------------------------------------------------------------
(* Types.  Queues and stacks are functions of the peers, and the orphan pool *)
(* and the request table are finite.                                         *)

StoreTypeOK ==
  /\ known \subseteq Blocks /\ tip \in known
  /\ orphans \subseteq Blocks /\ IsFiniteSet(orphans) /\ Cardinality(orphans) <= MaxOrphans
  /\ pendingInv \subseteq Blocks /\ IsFiniteSet(pendingInv) /\ Cardinality(pendingInv) <= MaxInv
  /\ recent \in BOOLEAN

(* What peers send in this model.                                            *)
Answer == [type : {"block"}, block : Blocks] \cup [type : {"inv"}, blocks : Seq(Blocks)]

PeerTypeOK ==
  /\ height \in [Peers -> Nat] /\ up \in [Peers -> BOOLEAN] /\ peerTip \in [Peers -> Blocks]
  /\ todo \in [Peers -> Seq(Task)]
  /\ outbox \in [Peers -> Seq(Message)] /\ inbox \in [Peers -> Seq(Answer)]

LoopTypeOK ==
  /\ syncing \in BOOLEAN /\ bestPeer \in Peers \cup {NoPeer}
  /\ loop \in [at : {"wait", "act"}, best : Peers \cup {NoPeer}, from : Nat, peers : SUBSET Peers]
  /\ cuts \in 0..MaxCuts

TypeInv == StoreTypeOK /\ PeerTypeOK /\ LoopTypeOK

LEMMA InitTypes == Init => TypeInv
  <1> SUFFICES ASSUME Init PROVE TypeInv
    OBVIOUS
  <1>1. StoreTypeOK
    <2>1. Cardinality({}) = 0 /\ IsFiniteSet({})  BY FS_EmptySet
    <2>2. Start \in Ancestors[Start] /\ Ancestors[Start] \subseteq Blocks
      BY SyncAssumption, OwnAncestry
    <2>3. MaxOrphans \in Nat /\ MaxInv \in Nat  BY SyncAssumption
    <2>4. known = Ancestors[Start] /\ tip = Start /\ orphans = {} /\ pendingInv = {}
      BY DEF Init
    <2>5. recent \in BOOLEAN  BY DEF Init
    <2>6. Cardinality(orphans) <= MaxOrphans /\ Cardinality(pendingInv) <= MaxInv
      BY <2>1, <2>3, <2>4
    <2> QED  BY <2>1, <2>2, <2>4, <2>5, <2>6 DEF StoreTypeOK
  <1>2. PeerTypeOK
    <2>1. <<>> \in Seq(Task) /\ <<>> \in Seq(Message) /\ <<>> \in Seq(Answer)  OBVIOUS
    <2> QED  BY <2>1, SyncAssumption DEF Init, PeerTypeOK
  <1>3. LoopTypeOK
    <2>1. cuts \in 0..MaxCuts  BY SyncAssumption DEF Init
    <2>2. loop \in [at : {"wait", "act"}, best : Peers \cup {NoPeer}, from : Nat, peers : SUBSET Peers]
      BY DEF Init, Waiting
    <2>3. syncing \in BOOLEAN /\ bestPeer \in Peers \cup {NoPeer}  BY DEF Init
    <2> QED  BY <2>1, <2>2, <2>3 DEF LoopTypeOK
  <1> QED  BY <1>1, <1>2, <1>3 DEF TypeInv

(* A set with a cap: one more is put in only below it, and less is fine.     *)
LEMMA OneMore ==
  ASSUME NEW S, IsFiniteSet(S), NEW cap \in Nat, Cardinality(S) < cap, NEW x
  PROVE  IsFiniteSet(S \cup {x}) /\ Cardinality(S \cup {x}) <= cap
  <1>1. Cardinality(S) \in Nat  BY FS_CardinalityType
  <1>2. IsFiniteSet(S \cup {x}) /\ Cardinality(S \cup {x}) <= Cardinality(S) + 1
    BY <1>1, FS_AddElement
  <1>3. Cardinality(S \cup {x}) \in Nat  BY <1>2, FS_CardinalityType
  <1> QED  BY <1>1, <1>2, <1>3

(* Less of it.                                                               *)
LEMMA SomeLess ==
  ASSUME NEW S, IsFiniteSet(S), NEW cap \in Nat, Cardinality(S) <= cap, NEW T, T \subseteq S
  PROVE  IsFiniteSet(T) /\ Cardinality(T) <= cap
  <1>1. IsFiniteSet(T) /\ Cardinality(T) <= Cardinality(S)  BY FS_Subset
  <1>2. Cardinality(S) \in Nat /\ Cardinality(T) \in Nat  BY <1>1, FS_CardinalityType
  <1> QED  BY <1>1, <1>2

(* A message joins a queue or is dropped.                                    *)
LEMMA EnqueueType ==
  ASSUME NEW M, NEW q \in Seq(M), NEW m \in M
  PROVE  Enqueue(q, m) \in Seq(M)
  BY DEF Enqueue

(* The messages.                                                             *)
LEMMA MessageTypes ==
  /\ \A h \in Nat : [type |-> "getblocks", from |-> h] \in Message
  /\ \A b \in Blocks : /\ GetData(b) \in Message
                       /\ [type |-> "block", block |-> b] \in Message \cap Answer
  /\ \A s \in Seq(Blocks) : [type |-> "inv", blocks |-> s] \in Answer
  /\ Answer \subseteq Message
  BY DEF Message, Answer, GetData

(* What a message carries.                                                   *)
LEMMA MessageShapes ==
  /\ \A m \in Message : /\ m.type \in {"getblocks", "getdata", "block", "inv"}
                        /\ m.type = "getblocks" => m.from \in Nat
                        /\ m.type = "getdata" => m.block \in Blocks
  /\ \A m \in Answer : /\ m.type = "inv" => m.blocks \in Seq(Blocks)
                       /\ m.type # "inv" => m.type = "block" /\ m.block \in Blocks
  BY DEF Message, Answer

(* The answer to a getblocks lists blocks of the peer's chain.               *)
LEMMA AboveType ==
  ASSUME TypeInv, NEW p \in Peers, NEW h \in Nat
  PROVE  Above(p, h) \in Seq(Blocks)
  <1>1. PICK t \in Blocks : t = peerTip[p]  BY DEF TypeInv, PeerTypeOK
  <1>2. Height[t] \in Nat /\ Batch \in Nat /\ Ancestors[t] \subseteq Blocks
    BY TreeAssumption, SyncAssumption
  <1>3. PICK last \in Nat : last = IF Height[t] < h + Batch THEN Height[t] ELSE h + Batch
    BY <1>2
  <1>4. last <= Height[t]  BY <1>2, <1>3
  <1> DEFINE F(i) == CHOOSE b \in Ancestors[t] : Height[b] = h + i
  <1>5. Above(p, h) = [i \in 1..(last - h) |-> F(i)]  BY <1>1, <1>3 DEF Above
  <1>6. ASSUME NEW i \in 1..(last - h) PROVE F(i) \in Blocks
    <2>1. h + i \in 0..Height[t]  BY <1>2, <1>3, <1>4
    <2>2. \E b \in Ancestors[t] : Height[b] = h + i  BY <2>1, AncestorsAreChains DEF Linear
    <2> QED  BY <1>2, <2>2
  <1> HIDE DEF F
  <1>7. PICK n \in Nat : 1..(last - h) = 1..n
    <2>1. CASE last - h \in Nat  BY <2>1
    <2>2. CASE last - h \notin Nat
      <3>1. 1..(last - h) = 1..0  BY <1>3, <2>2
      <3> QED  BY <3>1
    <2> QED  BY <2>1, <2>2
  <1> QED  BY <1>5, <1>6, <1>7

(* What a reader has to do.                                                  *)
Doing == {"item", "receive", "add", "orphan", "added", "finish", "compare", "relay"}

LEMMA TaskTypes ==
  /\ \A d \in Doing, b \in Blocks,
        p \in Peers \cup {NoPeer} : Call(d, b, p) \in Task
  /\ \A t \in Task : t.block \in Blocks /\ t.from \in Peers \cup {NoPeer}
  /\ \A t \in Task, r \in BOOLEAN, d \in Doing :
       [t EXCEPT !.do = d, !.reorg = r] \in Task /\ [t EXCEPT !.do = d] \in Task
  BY DEF Task, Call, Doing

(* A reader that is at something has a first task, and others behind it.     *)
LEMMA AtType ==
  ASSUME TypeInv, NEW p \in Peers, NEW d, At(p, d)
  PROVE  /\ todo[p] \in Seq(Task) /\ todo[p] # <<>>
         /\ Head(todo[p]) \in Task /\ Tail(todo[p]) \in Seq(Task)
         /\ Head(todo[p]).block \in Blocks /\ Head(todo[p]).from \in Peers \cup {NoPeer}
  <1>1. PICK s : s = todo[p]  OBVIOUS
  <1>2. s \in Seq(Task) /\ s # <<>>  BY <1>1 DEF TypeInv, PeerTypeOK, At
  <1>3. Head(s) \in Task /\ Tail(s) \in Seq(Task)  BY <1>2
  <1> QED  BY <1>1, <1>2, <1>3, TaskTypes


(* A stack or a queue of one peer changes.                                   *)
LEMMA TodoType ==
  ASSUME TypeInv, NEW p \in Peers, NEW s \in Seq(Task), todo' = [todo EXCEPT ![p] = s]
  PROVE  todo' \in [Peers -> Seq(Task)]
  BY DEF TypeInv, PeerTypeOK

LEMMA OutboxType ==
  ASSUME TypeInv, NEW p \in Peers, NEW m \in Message,
         outbox' = IF up[p] THEN [outbox EXCEPT ![p] = Enqueue(@, m)] ELSE outbox
  PROVE  outbox' \in [Peers -> Seq(Message)]
  <1>1. PICK q : q = Enqueue(outbox[p], m)  OBVIOUS
  <1>2. q \in Seq(Message)  BY <1>1, EnqueueType DEF TypeInv, PeerTypeOK
  <1>3. outbox' = IF up[p] THEN [outbox EXCEPT ![p] = q] ELSE outbox  BY <1>1
  <1> QED  BY <1>2, <1>3 DEF TypeInv, PeerTypeOK

LEMMA InboxType ==
  ASSUME TypeInv, NEW p \in Peers, NEW m \in Answer,
         inbox' = [inbox EXCEPT ![p] = Enqueue(@, m)]
  PROVE  inbox' \in [Peers -> Seq(Answer)]
  <1>1. PICK q : q = Enqueue(inbox[p], m)  OBVIOUS
  <1>2. q \in Seq(Answer)  BY <1>1, EnqueueType DEF TypeInv, PeerTypeOK
  <1>3. inbox' = [inbox EXCEPT ![p] = q]  BY <1>1
  <1> QED  BY <1>2, <1>3 DEF TypeInv, PeerTypeOK

(* The steps of the reader that leave the store alone, but for requests.     *)
LEMMA ReadTypes ==
  ASSUME TypeInv, NEW p \in Peers, Read(p)
  PROVE  PeerTypeOK'
  <1>1. PICK q : q = inbox[p]  OBVIOUS
  <1>2. q \in Seq(Answer) /\ q # <<>>  BY <1>1 DEF Read, TypeInv, PeerTypeOK
  <1>3. PICK m, r : m = Head(q) /\ r = Tail(q)  OBVIOUS
  <1>4. m \in Answer /\ r \in Seq(Answer)  BY <1>2, <1>3
  <1>5. inbox' = [inbox EXCEPT ![p] = r] /\ UNCHANGED <<height, up, peerTip, outbox>>
    BY <1>1, <1>3 DEF Read
  <1>6. PICK s : /\ todo' = [todo EXCEPT ![p] = s]
                 /\ s = IF m.type = "inv"
                        THEN [i \in 1..Len(m.blocks) |-> Call("item", m.blocks[i], p)]
                        ELSE IF m.block \in known THEN <<>>
                        ELSE <<Call("receive", m.block, p), Call("relay", m.block, p)>>
    BY <1>1, <1>3 DEF Read
  <1>7. s \in Seq(Task)
    <2>1. CASE m.type = "inv"
      <3>1. PICK bs \in Seq(Blocks) : bs = m.blocks  BY <1>4, <2>1, MessageShapes
      <3>2. ASSUME NEW i \in 1..Len(bs) PROVE Call("item", bs[i], p) \in Task
        <4>1. bs[i] \in Blocks  OBVIOUS
        <4> QED  BY <4>1, TaskTypes DEF Doing
      <3>3. s = [i \in 1..Len(bs) |-> Call("item", bs[i], p)]  BY <1>6, <2>1, <3>1
      <3>4. PICK n \in Nat : n = Len(bs)  OBVIOUS
      <3> QED  BY <3>2, <3>3, <3>4
    <2>2. CASE m.type # "inv"
      <3>1. PICK u, v : u = Call("receive", m.block, p) /\ v = Call("relay", m.block, p)
        OBVIOUS
      <3>2. u \in Task /\ v \in Task
        BY <1>4, <2>2, <3>1, MessageShapes, TaskTypes DEF Doing
      <3>3. <<u, v>> \in Seq(Task) /\ <<>> \in Seq(Task)  BY <3>2
      <3>4. s = <<>> \/ s = <<u, v>>  BY <1>6, <2>2, <3>1
      <3> QED  BY <3>3, <3>4
    <2> QED  BY <2>1, <2>2
  <1>8. todo' \in [Peers -> Seq(Task)]  BY <1>6, <1>7, TodoType
  <1> QED  BY <1>4, <1>5, <1>8 DEF TypeInv, PeerTypeOK


(* A call returns, or goes on as another.                                    *)
LEMMA ReturnType ==
  ASSUME TypeInv, NEW p \in Peers, NEW d, At(p, d), Return(p)
  PROVE  todo' \in [Peers -> Seq(Task)]
  <1>1. PICK r : r = Tail(todo[p])  OBVIOUS
  <1>2. r \in Seq(Task)  BY <1>1, AtType
  <1>3. todo' = [todo EXCEPT ![p] = r]  BY <1>1 DEF Return
  <1> QED  BY <1>2, <1>3, TodoType

LEMMA BecomeType ==
  ASSUME TypeInv, NEW p \in Peers, NEW d, At(p, d), NEW t \in Task, Become(p, t)
  PROVE  todo' \in [Peers -> Seq(Task)]
  <1>1. PICK r : r = Tail(todo[p])  OBVIOUS
  <1>2. r \in Seq(Task)  BY <1>1, AtType
  <1>3. PICK s : s = <<t>> \o r  OBVIOUS
  <1>4. s \in Seq(Task)
    <2>1. <<t>> \in Seq(Task)  OBVIOUS
    <2> QED  BY <1>2, <1>3, <2>1
  <1>5. todo' = [todo EXCEPT ![p] = s]  BY <1>1, <1>3 DEF Become
  <1> QED  BY <1>4, <1>5, TodoType

(* An item of an inv.                                                        *)
LEMMA ItemTypes ==
  ASSUME TypeInv, NEW p \in Peers, Item(p)
  PROVE  TypeInv'
  <1>1. PICK b : b = Head(todo[p]).block  OBVIOUS
  <1>2. /\ At(p, "item") /\ Return(p)
        /\ UNCHANGED <<known, tip, orphans, recent, flags, height, up, loop, peerTip, inbox, cuts>>
    BY DEF Item
  <1>3. b \in Blocks  BY <1>1, <1>2, AtType
  <1>4. /\ pendingInv' \subseteq Blocks
        /\ IsFiniteSet(pendingInv') /\ Cardinality(pendingInv') <= MaxInv
        /\ outbox' \in [Peers -> Seq(Message)]
    <2>1. CASE pendingInv' = pendingInv /\ outbox' = outbox
      BY <2>1 DEF TypeInv, StoreTypeOK, PeerTypeOK
    <2>2. CASE ~(pendingInv' = pendingInv /\ outbox' = outbox)
      <3>1. /\ Cardinality(pendingInv) < MaxInv
            /\ pendingInv' = pendingInv \cup {b}
            /\ outbox' = IF up[p] THEN [outbox EXCEPT ![p] = Enqueue(@, GetData(b))] ELSE outbox
        BY <1>1, <2>2 DEF Item
      <3>2. PICK P : P = pendingInv  OBVIOUS
      <3>3. P \subseteq Blocks /\ IsFiniteSet(P) /\ MaxInv \in Nat
        BY <3>2, SyncAssumption DEF TypeInv, StoreTypeOK
      <3>4. IsFiniteSet(P \cup {b}) /\ Cardinality(P \cup {b}) <= MaxInv
        BY <3>1, <3>2, <3>3, OneMore
      <3>5. PICK m : m = GetData(b)  OBVIOUS
      <3>6. m \in Message  BY <1>3, <3>5, MessageTypes
      <3>7. outbox' \in [Peers -> Seq(Message)]  BY <3>1, <3>5, <3>6, OutboxType
      <3> QED  BY <1>3, <3>1, <3>2, <3>3, <3>4, <3>7
    <2> QED  BY <2>1, <2>2
  <1>5. todo' \in [Peers -> Seq(Task)]  BY <1>2, ReturnType
  <1>6. StoreTypeOK'  BY <1>2, <1>4 DEF TypeInv, StoreTypeOK
  <1>7. PeerTypeOK'
    <2>1. inbox' \in [Peers -> Seq(Answer)]  BY <1>2 DEF TypeInv, PeerTypeOK
    <2> QED  BY <1>2, <1>4, <1>5, <2>1 DEF TypeInv, PeerTypeOK
  <1>8. LoopTypeOK'  BY <1>2 DEF TypeInv, LoopTypeOK, flags
  <1> QED  BY <1>6, <1>7, <1>8 DEF TypeInv

(* OnBlockReceived.                                                          *)
LEMMA ReceiveTypes ==
  ASSUME TypeInv, NEW p \in Peers, Receive(p)
  PROVE  TypeInv'
  <1>0. WouldReorg(Head(todo[p]).block) \in BOOLEAN  BY DEF WouldReorg
  <1>1. PICK t, r : t = Head(todo[p]) /\ r \in BOOLEAN /\ r = WouldReorg(t.block)  BY <1>0
  <1>2. /\ At(p, "receive")
        /\ UNCHANGED <<store, flags, height, up, loop, peerTip, net, cuts>>
    BY DEF Receive
  <1>3. t \in Task  BY <1>1, <1>2, AtType
  <1>4. todo' \in [Peers -> Seq(Task)]
    <2>1. CASE Return(p)  BY <1>2, <2>1, ReturnType
    <2>2. CASE Become(p, [t EXCEPT !.do = "add", !.reorg = r])
      <3>1. PICK u : u = [t EXCEPT !.do = "add", !.reorg = r]  OBVIOUS
      <3>2. u \in Task
        <4>1. CASE r = TRUE  BY <1>3, <3>1, <4>1 DEF Task
        <4>2. CASE r = FALSE  BY <1>3, <3>1, <4>2 DEF Task
        <4> QED  BY <1>1, <4>1, <4>2
      <3> QED  BY <1>2, <2>2, <3>1, <3>2, BecomeType
    <2>3. Return(p) \/ Become(p, [t EXCEPT !.do = "add", !.reorg = WouldReorg(t.block)])
      BY <1>1 DEF Receive
    <2>4. Return(p) \/ Become(p, [t EXCEPT !.do = "add", !.reorg = r])  BY <1>1, <2>3
    <2> QED  BY <2>1, <2>2, <2>4
  <1>5. StoreTypeOK' /\ LoopTypeOK'
    BY <1>2 DEF TypeInv, StoreTypeOK, LoopTypeOK, store, flags
  <1>6. PeerTypeOK'  BY <1>2, <1>4 DEF TypeInv, PeerTypeOK, net
  <1> QED  BY <1>5, <1>6 DEF TypeInv

(* AddBlock stores the block or finds no parent.                             *)
LEMMA AddTypes ==
  ASSUME TypeInv, NEW p \in Peers, AddBlock(p)
  PROVE  TypeInv'
  <1>1. PICK t, b : t = Head(todo[p]) /\ b = t.block  OBVIOUS
  <1>2. /\ At(p, "add")
        /\ UNCHANGED <<orphans, pendingInv, recent, flags, height, up, loop, peerTip, net, cuts>>
    BY DEF AddBlock
  <1>3. t \in Task /\ b \in Blocks  BY <1>1, <1>2, AtType
  <1>4. PICK u, v : u = [t EXCEPT !.do = "added"] /\ v = [t EXCEPT !.do = "orphan"]  OBVIOUS
  <1>5. u \in Task /\ v \in Task
    <2>1. PICK r \in BOOLEAN : r = TRUE  OBVIOUS
    <2> QED  BY <1>3, <1>4, TaskTypes DEF Doing
  <1>6. todo' \in [Peers -> Seq(Task)]
    <2>1. CASE Become(p, u)  BY <1>2, <1>5, <2>1, BecomeType
    <2>2. CASE Become(p, v)  BY <1>2, <1>5, <2>2, BecomeType
    <2> QED  BY <1>1, <1>4, <2>1, <2>2 DEF AddBlock
  <1>7. known' \subseteq Blocks /\ tip' \in known'
    BY <1>1, <1>3 DEF AddBlock, TypeInv, StoreTypeOK
  <1>8. StoreTypeOK'  BY <1>2, <1>7 DEF TypeInv, StoreTypeOK
  <1>9. PeerTypeOK'  BY <1>2, <1>6 DEF TypeInv, PeerTypeOK, net
  <1>10. LoopTypeOK'  BY <1>2 DEF TypeInv, LoopTypeOK, flags
  <1> QED  BY <1>8, <1>9, <1>10 DEF TypeInv

(* AddOrphan.                                                                *)
LEMMA OrphanTypes ==
  ASSUME TypeInv, NEW p \in Peers, AddOrphan(p)
  PROVE  TypeInv'
  <1>1. PICK t, b, m : t = Head(todo[p]) /\ b = t.block /\ m = GetData(Parent[b])  OBVIOUS
  <1>2. /\ At(p, "orphan") /\ Return(p)
        /\ orphans' = IF Cardinality(orphans) < MaxOrphans THEN orphans \cup {b} ELSE orphans
        /\ outbox' = IF t.from # NoPeer /\ up[p]
                     THEN [outbox EXCEPT ![p] = Enqueue(@, m)] ELSE outbox
        /\ UNCHANGED <<known, tip, pendingInv, recent, flags, height, up, loop, peerTip, inbox, cuts>>
    BY <1>1 DEF AddOrphan
  <1>3. b \in Blocks  BY <1>1, <1>2, AtType
  <1>4. m \in Message
    <2>1. Parent[b] \in Blocks  BY <1>3, TreeAssumption
    <2> QED  BY <1>1, <2>1, MessageTypes
  <1>5. todo' \in [Peers -> Seq(Task)]  BY <1>2, ReturnType
  <1>6. outbox' \in [Peers -> Seq(Message)]
    <2>1. CASE outbox' = outbox  BY <2>1 DEF TypeInv, PeerTypeOK
    <2>2. CASE outbox' # outbox
      <3>1. outbox' = IF up[p] THEN [outbox EXCEPT ![p] = Enqueue(@, m)] ELSE outbox
        BY <1>2, <2>2
      <3> QED  BY <1>4, <3>1, OutboxType
    <2> QED  BY <2>1, <2>2
  <1>7. /\ orphans' \subseteq Blocks
        /\ IsFiniteSet(orphans') /\ Cardinality(orphans') <= MaxOrphans
    <2>1. PICK O : O = orphans  OBVIOUS
    <2>2. /\ O \subseteq Blocks /\ IsFiniteSet(O) /\ Cardinality(O) <= MaxOrphans
          /\ MaxOrphans \in Nat
      BY <2>1, SyncAssumption DEF TypeInv, StoreTypeOK
    <2>3. CASE Cardinality(O) < MaxOrphans
      <3>1. IsFiniteSet(O \cup {b}) /\ Cardinality(O \cup {b}) <= MaxOrphans
        BY <2>2, <2>3, OneMore
      <3> QED  BY <1>2, <1>3, <2>1, <2>2, <2>3, <3>1
    <2>4. CASE ~(Cardinality(O) < MaxOrphans)  BY <1>2, <2>1, <2>2, <2>4
    <2> QED  BY <2>3, <2>4
  <1>8. StoreTypeOK'  BY <1>2, <1>7 DEF TypeInv, StoreTypeOK
  <1>9. PeerTypeOK'
    <2>1. inbox' \in [Peers -> Seq(Answer)]  BY <1>2 DEF TypeInv, PeerTypeOK
    <2> QED  BY <1>2, <1>5, <1>6, <2>1 DEF TypeInv, PeerTypeOK
  <1>10. LoopTypeOK'  BY <1>2 DEF TypeInv, LoopTypeOK, flags
  <1> QED  BY <1>8, <1>9, <1>10 DEF TypeInv


(* ProcessOrphans: those of the pool go on the stack, in some order.         *)
LEMMA ReadyOrder ==
  ASSUME TypeInv, NEW b \in Blocks, NEW order \in SetToSeqs(Ready(b))
  PROVE  Len(order) \in Nat /\ \A i \in 1..Len(order) : order[i] \in Blocks
  <1>1. Ready(b) \subseteq Blocks /\ IsFiniteSet(Ready(b))
    <2>1. PICK S : S = orphans  OBVIOUS
    <2>2. S \subseteq Blocks /\ IsFiniteSet(S)  BY <2>1 DEF TypeInv, StoreTypeOK
    <2>3. Ready(b) \subseteq S  BY <2>1 DEF Ready
    <2> QED  BY <2>2, <2>3, FS_Subset
  <1>2. PICK n \in Nat : n = Cardinality(Ready(b))  BY <1>1, FS_CardinalityType
  <1>3. order \in [1..n -> Ready(b)]  BY <1>2 DEF SetToSeqs
  <1>4. order \in [1..n -> Blocks]  BY <1>1, <1>3
  <1>5. Len(order) = n /\ \A i \in 1..n : order[i] \in Blocks  BY <1>4
  <1> QED  BY <1>5

LEMMA AddedStack ==
  ASSUME TypeInv, NEW t \in Task, NEW rest \in Seq(Task), NEW b \in Blocks,
         NEW order \in SetToSeqs(Ready(b)),
         NEW s, s = [i \in 1..Len(order) |-> Call("receive", order[i], NoPeer)]
                      \o <<Call("finish", b, t.from)>> \o rest
  PROVE  s \in Seq(Task)
  <1>5. PICK n \in Nat : Len(order) = n /\ \A i \in 1..n : order[i] \in Blocks
    BY ReadyOrder
  <1>6. PICK u : u = [i \in 1..n |-> Call("receive", order[i], NoPeer)]  OBVIOUS
  <1>7. ASSUME NEW i \in 1..n PROVE Call("receive", order[i], NoPeer) \in Task
    BY <1>5, TaskTypes DEF Doing
  <1>8. u \in Seq(Task)  BY <1>6, <1>7
  <1>9. PICK v : v = Call("finish", b, t.from)  OBVIOUS
  <1>10. v \in Task  BY <1>9, TaskTypes DEF Doing
  <1>11. u \o <<v>> \in Seq(Task)  BY <1>8, <1>10
  <1>12. u \o <<v>> \o rest \in Seq(Task)  BY <1>11
  <1> QED  BY <1>5, <1>6, <1>9, <1>12

LEMMA AddedTypes ==
  ASSUME TypeInv, NEW p \in Peers, Added(p)
  PROVE  TypeInv'
  <1>1. PICK t, b, rest : t = Head(todo[p]) /\ b = t.block /\ rest = Tail(todo[p])  OBVIOUS
  <1>2. /\ At(p, "added")
        /\ recent' = (recent \/ (t.reorg /\ tip = b))
        /\ height' = IF t.from # NoPeer /\ Height[b] > height[p]
                     THEN [height EXCEPT ![p] = Height[b]] ELSE height
        /\ pendingInv' = pendingInv \ {b}
        /\ orphans' = orphans \ Ready(b)
        /\ UNCHANGED <<known, tip, flags, up, loop, peerTip, net, cuts>>
    BY <1>1 DEF Added
  <1>3. t \in Task /\ b \in Blocks /\ rest \in Seq(Task)  BY <1>1, <1>2, AtType
  <1>4. todo' \in [Peers -> Seq(Task)]
    <2>1. PICK order \in SetToSeqs(Ready(b)) :
            todo' = [todo EXCEPT
              ![p] = [i \in 1..Len(order) |-> Call("receive", order[i], NoPeer)]
                       \o <<Call("finish", b, t.from)>> \o Tail(@)]
      BY <1>1 DEF Added
    <2>2. PICK s : s = [i \in 1..Len(order) |-> Call("receive", order[i], NoPeer)]
                       \o <<Call("finish", b, t.from)>> \o rest
      OBVIOUS
    <2>3. s \in Seq(Task)  BY <1>3, <2>2, AddedStack
    <2>4. todo' = [todo EXCEPT ![p] = s]  BY <1>1, <2>1, <2>2
    <2> QED  BY <2>3, <2>4, TodoType
  <1>5. height' \in [Peers -> Nat]
    <2>1. Height[b] \in Nat  BY <1>3, TreeAssumption
    <2> QED  BY <1>2, <2>1 DEF TypeInv, PeerTypeOK
  <1>6. StoreTypeOK'
    <2>1. PICK O, P : O = orphans /\ P = pendingInv  OBVIOUS
    <2>2. /\ O \subseteq Blocks /\ IsFiniteSet(O) /\ Cardinality(O) <= MaxOrphans
          /\ P \subseteq Blocks /\ IsFiniteSet(P) /\ Cardinality(P) <= MaxInv
          /\ MaxOrphans \in Nat /\ MaxInv \in Nat
      BY <2>1, SyncAssumption DEF TypeInv, StoreTypeOK
    <2>3. orphans' \subseteq O /\ pendingInv' \subseteq P  BY <1>2, <2>1
    <2>4. /\ IsFiniteSet(orphans') /\ Cardinality(orphans') <= MaxOrphans
          /\ IsFiniteSet(pendingInv') /\ Cardinality(pendingInv') <= MaxInv
      BY <2>2, <2>3, SomeLess
    <2>5. recent' \in BOOLEAN  BY <1>2
    <2> QED  BY <1>2, <2>2, <2>3, <2>4, <2>5 DEF TypeInv, StoreTypeOK
  <1>7. PeerTypeOK'  BY <1>2, <1>4, <1>5 DEF TypeInv, PeerTypeOK, net
  <1>8. LoopTypeOK'  BY <1>2 DEF TypeInv, LoopTypeOK, flags
  <1> QED  BY <1>6, <1>7, <1>8 DEF TypeInv

(* The relay of a block.                                                     *)
LEMMA RelayedType ==
  ASSUME TypeInv, NEW b \in Blocks, NEW from
  PROVE  Relayed(b, from) \in [Peers -> Seq(Message)]
  <1>1. PICK m : m = [type |-> "block", block |-> b]  OBVIOUS
  <1>2. m \in Message  BY <1>1, MessageTypes
  <1>3. ASSUME NEW q \in Peers
        PROVE  Enqueue(outbox[q], m) \in Seq(Message) /\ outbox[q] \in Seq(Message)
    <2>1. PICK o : o = outbox[q]  OBVIOUS
    <2>2. o \in Seq(Message)  BY <2>1 DEF TypeInv, PeerTypeOK
    <2>3. Enqueue(o, m) \in Seq(Message)  BY <1>2, <2>2, EnqueueType
    <2> QED  BY <2>1, <2>2, <2>3
  <1>4. Relayed(b, from)
          = [q \in Peers |-> IF up[q] /\ q # from THEN Enqueue(outbox[q], m) ELSE outbox[q]]
    BY <1>1 DEF Relayed
  <1> QED  BY <1>3, <1>4

LEMMA FinishTypes ==
  ASSUME TypeInv, NEW p \in Peers, Finish(p)
  PROVE  TypeInv'
  <1>1. PICK t, u : t = Head(todo[p]) /\ u = [t EXCEPT !.do = "compare"]  OBVIOUS
  <1>2. /\ At(p, "finish") /\ (Become(p, u) \/ Return(p))
        /\ outbox' = Relayed(t.block, t.from)
        /\ UNCHANGED <<store, flags, height, up, loop, peerTip, inbox, cuts>>
    BY <1>1 DEF Finish
  <1>3. t \in Task /\ t.block \in Blocks  BY <1>1, <1>2, AtType
  <1>4. u \in Task  BY <1>1, <1>3 DEF Task
  <1>5. todo' \in [Peers -> Seq(Task)]  BY <1>2, <1>4, ReturnType, BecomeType
  <1>6. outbox' \in [Peers -> Seq(Message)]
    <2>1. PICK b, f : b = t.block /\ f = t.from  OBVIOUS
    <2>2. Relayed(b, f) \in [Peers -> Seq(Message)]  BY <1>3, <2>1, RelayedType
    <2> QED  BY <1>2, <2>1, <2>2
  <1>7. StoreTypeOK' /\ LoopTypeOK'
    BY <1>2 DEF TypeInv, StoreTypeOK, LoopTypeOK, store, flags
  <1>8. PeerTypeOK'  BY <1>2, <1>5, <1>6 DEF TypeInv, PeerTypeOK
  <1> QED  BY <1>7, <1>8 DEF TypeInv

LEMMA RelayTypes ==
  ASSUME TypeInv, NEW p \in Peers, Relay(p)
  PROVE  TypeInv'
  <1>1. PICK b : b = Head(todo[p]).block  OBVIOUS
  <1>2. /\ At(p, "relay") /\ Return(p)
        /\ outbox' = Relayed(b, p) \/ outbox' = outbox
        /\ UNCHANGED <<store, flags, height, up, loop, peerTip, inbox, cuts>>
    BY <1>1 DEF Relay
  <1>3. b \in Blocks  BY <1>1, <1>2, AtType
  <1>4. outbox' \in [Peers -> Seq(Message)]
    BY <1>2, <1>3, RelayedType DEF TypeInv, PeerTypeOK
  <1>5. StoreTypeOK' /\ LoopTypeOK'
    BY <1>2 DEF TypeInv, StoreTypeOK, LoopTypeOK, store, flags
  <1>6. PeerTypeOK'  BY <1>2, <1>4, ReturnType DEF TypeInv, PeerTypeOK
  <1> QED  BY <1>5, <1>6 DEF TypeInv

(* The flag is cleared, or the process starts again.                         *)
LEMMA CompareTypes ==
  ASSUME TypeInv, NEW p \in Peers, Compare(p)
  PROVE  TypeInv'
  <1>1. /\ At(p, "compare") /\ Return(p)
        /\ UNCHANGED <<store, bestPeer, height, up, loop, peerTip, net, cuts>>
    BY DEF Compare
  <1>2. syncing' \in BOOLEAN  BY DEF Compare
  <1>3. StoreTypeOK'  BY <1>1 DEF TypeInv, StoreTypeOK, store
  <1>4. PeerTypeOK'  BY <1>1, ReturnType DEF TypeInv, PeerTypeOK, net
  <1>5. LoopTypeOK'  BY <1>1, <1>2 DEF TypeInv, LoopTypeOK
  <1> QED  BY <1>3, <1>4, <1>5 DEF TypeInv

LEMMA PanicTypes ==
  ASSUME TypeInv, NEW p \in Peers, Panic(p)
  PROVE  TypeInv'
  <1>1. StoreTypeOK'
    <2>1. Cardinality({}) = 0 /\ IsFiniteSet({})  BY FS_EmptySet
    <2>2. MaxOrphans \in Nat /\ MaxInv \in Nat  BY SyncAssumption
    <2>3. /\ known' = known /\ tip' = tip
          /\ orphans' = {} /\ pendingInv' = {} /\ recent' = FALSE
      BY DEF Panic
    <2>4. Cardinality(orphans') <= MaxOrphans /\ Cardinality(pendingInv') <= MaxInv
      BY <2>1, <2>2, <2>3
    <2> QED  BY <2>1, <2>3, <2>4 DEF TypeInv, StoreTypeOK
  <1>2. PeerTypeOK'
    <2>1. <<>> \in Seq(Task) /\ <<>> \in Seq(Message) /\ <<>> \in Seq(Answer)  OBVIOUS
    <2> QED  BY <2>1 DEF Panic, TypeInv, PeerTypeOK
  <1>3. LoopTypeOK'  BY DEF Panic, Waiting, TypeInv, LoopTypeOK
  <1> QED  BY <1>1, <1>2, <1>3 DEF TypeInv

(* A peer answers.                                                           *)
LEMMA ServeTypes ==
  ASSUME TypeInv, NEW p \in Peers, PeerServe(p)
  PROVE  TypeInv'
  <1>1. PICK q : q = outbox[p]  OBVIOUS
  <1>2. q \in Seq(Message) /\ q # <<>>  BY <1>1 DEF PeerServe, TypeInv, PeerTypeOK
  <1>3. PICK m, r : m = Head(q) /\ r = Tail(q)  OBVIOUS
  <1>4. m \in Message /\ r \in Seq(Message)  BY <1>2, <1>3
  <1>5. outbox' = [outbox EXCEPT ![p] = r]
        /\ UNCHANGED <<store, flags, height, up, todo, loop, peerTip, cuts>>
    BY <1>1, <1>3 DEF PeerServe
  <1>6. outbox' \in [Peers -> Seq(Message)]  BY <1>4, <1>5 DEF TypeInv, PeerTypeOK
  <1>7. inbox' \in [Peers -> Seq(Answer)]
    <2>1. CASE /\ m.type = "getblocks"
               /\ inbox' = [inbox EXCEPT
                    ![p] = Enqueue(@, [type |-> "inv", blocks |-> Above(p, m.from)])]
      <3>1. PICK a : a = Above(p, m.from)  OBVIOUS
      <3>2. m.from \in Nat  BY <1>4, <2>1, MessageShapes
      <3>3. a \in Seq(Blocks)  BY <3>1, <3>2, AboveType
      <3>4. PICK n : n = [type |-> "inv", blocks |-> a]  OBVIOUS
      <3>5. n \in Answer  BY <3>3, <3>4, MessageTypes
      <3> QED  BY <2>1, <3>1, <3>4, <3>5, InboxType
    <2>2. CASE /\ m.type = "getdata"
               /\ inbox' = [inbox EXCEPT
                    ![p] = Enqueue(@, [type |-> "block", block |-> m.block])]
      <3>1. PICK b : b = m.block  OBVIOUS
      <3>2. b \in Blocks  BY <1>4, <2>2, <3>1, MessageShapes
      <3>3. PICK n : n = [type |-> "block", block |-> b]  OBVIOUS
      <3>4. n \in Answer  BY <3>2, <3>3, MessageTypes
      <3> QED  BY <2>2, <3>1, <3>3, <3>4, InboxType
    <2>3. CASE UNCHANGED inbox  BY <2>3 DEF TypeInv, PeerTypeOK
    <2> QED  BY <1>1, <1>3, <2>1, <2>2, <2>3 DEF PeerServe
  <1>8. StoreTypeOK' /\ LoopTypeOK'
    BY <1>5 DEF TypeInv, StoreTypeOK, LoopTypeOK, store, flags
  <1>9. PeerTypeOK'  BY <1>5, <1>6, <1>7 DEF TypeInv, PeerTypeOK
  <1> QED  BY <1>8, <1>9 DEF TypeInv

(* A peer's chain grows.                                                     *)
LEMMA PeerMineTypes ==
  ASSUME TypeInv, NEW p \in Peers, PeerMine(p)
  PROVE  TypeInv'
  <1>1. PICK b \in Ancestors[PeerEnd[p]] :
          /\ peerTip' = [peerTip EXCEPT ![p] = b]
          /\ inbox' = IF up[p]
                      THEN [inbox EXCEPT ![p] = Enqueue(@, [type |-> "block", block |-> b])]
                      ELSE inbox
    BY DEF PeerMine
  <1>2. UNCHANGED <<store, flags, height, up, todo, loop, outbox, cuts>>  BY DEF PeerMine
  <1>3. b \in Blocks
    <2>1. PeerEnd[p] \in Blocks  BY SyncAssumption
    <2> QED  BY <2>1, OwnAncestry
  <1>4. inbox' \in [Peers -> Seq(Answer)]
    <2>1. PICK n : n = [type |-> "block", block |-> b]  OBVIOUS
    <2>2. n \in Answer  BY <1>3, <2>1, MessageTypes
    <2>3. CASE inbox' = [inbox EXCEPT ![p] = Enqueue(@, n)]  BY <2>2, <2>3, InboxType
    <2>4. CASE UNCHANGED inbox  BY <2>4 DEF TypeInv, PeerTypeOK
    <2> QED  BY <1>1, <2>1, <2>3, <2>4
  <1>5. StoreTypeOK' /\ LoopTypeOK'
    BY <1>2 DEF TypeInv, StoreTypeOK, LoopTypeOK, store, flags
  <1>6. PeerTypeOK'  BY <1>1, <1>2, <1>3, <1>4 DEF TypeInv, PeerTypeOK
  <1> QED  BY <1>5, <1>6 DEF TypeInv

(* Peers come and go.                                                        *)
LEMMA LinkTypes ==
  ASSUME TypeInv, NEW p \in Peers, Handshake(p) \/ Disconnect(p)
  PROVE  TypeInv'
  <1>1. UNCHANGED <<store, todo, loop, peerTip>>  BY DEF Handshake, Disconnect
  <1>2. StoreTypeOK'  BY <1>1 DEF TypeInv, StoreTypeOK, store
  <1>3. CASE Handshake(p)
    <2>1. PICK q, n : q = <<GetBlocks>> /\ n = Height[peerTip[p]]  OBVIOUS
    <2>2. /\ up' = [up EXCEPT ![p] = TRUE] /\ height' = [height EXCEPT ![p] = n]
          /\ outbox' = [outbox EXCEPT ![p] = q] /\ UNCHANGED <<inbox, cuts>>
      BY <1>3, <2>1 DEF Handshake
    <2>3. n \in Nat
      <3>1. peerTip[p] \in Blocks  BY DEF TypeInv, PeerTypeOK
      <3> QED  BY <2>1, <3>1, TreeAssumption
    <2>4. q \in Seq(Message)
      <3>1. Height[tip] \in Nat  BY TreeAssumption DEF TypeInv, StoreTypeOK
      <3>2. PICK m : m = GetBlocks  OBVIOUS
      <3>3. m \in Message  BY <3>1, <3>2, MessageTypes DEF GetBlocks
      <3> QED  BY <2>1, <3>2, <3>3
    <2>5. PeerTypeOK'  BY <1>1, <2>2, <2>3, <2>4 DEF TypeInv, PeerTypeOK
    <2>6. bestPeer' \in {bestPeer, p} /\ (syncing' = TRUE \/ syncing' = syncing)
      BY <1>3 DEF Handshake, flags
    <2>7. LoopTypeOK'  BY <1>1, <2>2, <2>6 DEF TypeInv, LoopTypeOK
    <2> QED  BY <1>2, <2>5, <2>7 DEF TypeInv
  <1>4. CASE Disconnect(p)
    <2>1. /\ up' = [up EXCEPT ![p] = FALSE]
          /\ outbox' = [outbox EXCEPT ![p] = <<>>] /\ inbox' = [inbox EXCEPT ![p] = <<>>]
          /\ UNCHANGED height /\ cuts < MaxCuts /\ cuts' = cuts + 1
      BY <1>4 DEF Disconnect
    <2>2. PeerTypeOK'
      <3>1. <<>> \in Seq(Message) /\ <<>> \in Seq(Answer)  OBVIOUS
      <3> QED  BY <1>1, <2>1, <3>1 DEF TypeInv, PeerTypeOK
    <2>3. Tallest(Connected \ {p}, 0) \subseteq Peers  BY DEF Tallest, Connected
    <2>4. bestPeer' \in Peers \cup {NoPeer} /\ (syncing' = FALSE \/ syncing' = syncing)
      BY <1>4, <2>3 DEF Disconnect, flags, TypeInv, LoopTypeOK
    <2>5. cuts' \in 0..MaxCuts
      <3>1. cuts \in 0..MaxCuts /\ MaxCuts \in Nat  BY SyncAssumption DEF TypeInv, LoopTypeOK
      <3> QED  BY <2>1, <3>1
    <2>6. LoopTypeOK'  BY <1>1, <2>4, <2>5 DEF TypeInv, LoopTypeOK
    <2> QED  BY <1>2, <2>2, <2>6 DEF TypeInv
  <1> QED  BY <1>3, <1>4

(* doSync.                                                                   *)
LEMMA LoopTypes ==
  ASSUME TypeInv, SyncTick \/ SyncDone \/ SyncFrom
  PROVE  TypeInv'
  <1>1. UNCHANGED <<store, height, up, todo, peerTip, inbox, cuts>>
    BY DEF SyncTick, SyncDone, SyncFrom, net
  <1>2. StoreTypeOK'  BY <1>1 DEF TypeInv, StoreTypeOK, store
  <1>3. Waiting \in [at : {"wait", "act"}, best : Peers \cup {NoPeer}, from : Nat, peers : SUBSET Peers]
    BY DEF Waiting
  <1>4. CASE SyncTick
    <2>1. outbox' = outbox /\ bestPeer' = bestPeer /\ (syncing' = FALSE \/ syncing' = syncing)
      BY <1>4 DEF SyncTick, net
    <2>2. PeerTypeOK'  BY <1>1, <2>1 DEF TypeInv, PeerTypeOK
    <2>3. loop' \in [at : {"wait", "act"}, best : Peers \cup {NoPeer}, from : Nat, peers : SUBSET Peers]
      <3>1. CASE loop' = loop  BY <3>1 DEF TypeInv, LoopTypeOK
      <3>2. CASE loop' # loop
        <4>1. PICK best \in Tallest(Connected, Height[tip]) \cup {NoPeer} :
                loop' = [at |-> "act", best |-> best, from |-> Height[tip], peers |-> Connected]
          BY <1>4, <3>2 DEF SyncTick
        <4>2. Connected \subseteq Peers /\ Tallest(Connected, Height[tip]) \subseteq Peers
          BY DEF Connected, Tallest
        <4>3. Height[tip] \in Nat  BY TreeAssumption DEF TypeInv, StoreTypeOK
        <4>4. best \in Peers \cup {NoPeer}  BY <4>2
        <4> QED  BY <4>1, <4>2, <4>3, <4>4
      <3> QED  BY <3>1, <3>2
    <2>4. LoopTypeOK'  BY <1>1, <2>1, <2>3 DEF TypeInv, LoopTypeOK
    <2> QED  BY <1>2, <2>2, <2>4 DEF TypeInv
  <1>5. CASE SyncDone
    <2>1. loop' = Waiting /\ outbox' = outbox /\ bestPeer' = bestPeer /\ syncing' \in BOOLEAN
      BY <1>5 DEF SyncDone, net
    <2>2. PeerTypeOK'  BY <1>1, <2>1 DEF TypeInv, PeerTypeOK
    <2>3. LoopTypeOK'  BY <1>1, <1>3, <2>1 DEF TypeInv, LoopTypeOK
    <2> QED  BY <1>2, <2>2, <2>3 DEF TypeInv
  <1>6. CASE SyncFrom
    <2>1. PICK best, m : best = loop.best /\ m = [type |-> "getblocks", from |-> loop.from]  OBVIOUS
    <2>2. /\ best # NoPeer /\ bestPeer' = best /\ syncing' = TRUE /\ loop' = Waiting
          /\ outbox' = IF up[best] THEN [outbox EXCEPT ![best] = Enqueue(@, m)] ELSE outbox
      BY <1>6, <2>1 DEF SyncFrom
    <2>3. best \in Peers /\ loop.from \in Nat  BY <2>1, <2>2 DEF TypeInv, LoopTypeOK
    <2>4. m \in Message  BY <2>1, <2>3, MessageTypes
    <2>5. outbox' \in [Peers -> Seq(Message)]  BY <2>2, <2>3, <2>4, OutboxType
    <2>6. PeerTypeOK'  BY <1>1, <2>5 DEF TypeInv, PeerTypeOK
    <2>7. syncing' \in BOOLEAN  BY <2>2
    <2>8. LoopTypeOK'  BY <1>1, <1>3, <2>2, <2>3, <2>7 DEF TypeInv, LoopTypeOK
    <2> QED  BY <1>2, <2>6, <2>8 DEF TypeInv
  <1> QED  BY <1>4, <1>5, <1>6

(* Time passes.                                                              *)
LEMMA TimeTypes ==
  ASSUME TypeInv,
         \/ CoolDown \/ \E old \in SUBSET pendingInv : Sweep(old) \/ \E b \in Blocks : EvictOrphan(b)
  PROVE  TypeInv'
  <1>1. UNCHANGED <<known, tip, flags, height, up, todo, loop, peerTip, net, cuts>>
    BY DEF CoolDown, Sweep, EvictOrphan
  <1>2. orphans' \subseteq orphans /\ pendingInv' \subseteq pendingInv
    BY DEF CoolDown, Sweep, EvictOrphan
  <1>3. recent' = FALSE \/ recent' = recent  BY DEF CoolDown, Sweep, EvictOrphan
  <1>4. StoreTypeOK'
    <2>1. PICK O, P : O = orphans /\ P = pendingInv  OBVIOUS
    <2>2. /\ O \subseteq Blocks /\ IsFiniteSet(O) /\ Cardinality(O) <= MaxOrphans
          /\ P \subseteq Blocks /\ IsFiniteSet(P) /\ Cardinality(P) <= MaxInv
          /\ MaxOrphans \in Nat /\ MaxInv \in Nat
      BY <2>1, SyncAssumption DEF TypeInv, StoreTypeOK
    <2>3. /\ IsFiniteSet(orphans') /\ Cardinality(orphans') <= MaxOrphans
          /\ IsFiniteSet(pendingInv') /\ Cardinality(pendingInv') <= MaxInv
      BY <1>2, <2>1, <2>2, SomeLess
    <2> QED  BY <1>1, <1>2, <1>3, <2>1, <2>2, <2>3 DEF TypeInv, StoreTypeOK
  <1>5. PeerTypeOK'  BY <1>1 DEF TypeInv, PeerTypeOK, net
  <1>6. LoopTypeOK'  BY <1>1 DEF TypeInv, LoopTypeOK, flags
  <1> QED  BY <1>4, <1>5, <1>6 DEF TypeInv

(* Every step keeps the types.                                               *)
LEMMA NextTypes == TypeInv /\ [Next]_vars => TypeInv'
  <1> SUFFICES ASSUME TypeInv, [Next]_vars PROVE TypeInv'
    OBVIOUS
  <1>1. ASSUME NEW p \in Peers, Read(p) PROVE TypeInv'
    <2>1. UNCHANGED <<store, flags, loop, cuts>>  BY <1>1 DEF Read
    <2>2. StoreTypeOK' /\ LoopTypeOK'
      BY <2>1 DEF TypeInv, StoreTypeOK, LoopTypeOK, store, flags
    <2> QED  BY <1>1, <2>2, ReadTypes DEF TypeInv
  <1>2. ASSUME NEW p \in Peers, Handle(p) PROVE TypeInv'
    BY <1>2, ItemTypes, ReceiveTypes, AddTypes, OrphanTypes, AddedTypes, FinishTypes,
       CompareTypes, PanicTypes, RelayTypes DEF Handle
  <1>3. ASSUME NEW p \in Peers, PeerServe(p) \/ PeerMine(p) \/ Handshake(p) \/ Disconnect(p)
        PROVE  TypeInv'
    BY <1>3, ServeTypes, PeerMineTypes, LinkTypes
  <1>4. CASE SyncTick \/ SyncDone \/ SyncFrom  BY <1>4, LoopTypes
  <1>5. CASE \/ CoolDown \/ \E old \in SUBSET pendingInv : Sweep(old)
             \/ \E b \in Blocks : EvictOrphan(b)
    BY <1>5, TimeTypes
  <1>6. CASE UNCHANGED vars
    BY <1>6 DEF vars, store, flags, net, TypeInv, StoreTypeOK, PeerTypeOK, LoopTypeOK
  <1> QED  BY <1>1, <1>2, <1>3, <1>4, <1>5, <1>6 DEF Next

(***************************************************************************)
(* Every reachable state of the sync manager is well typed, and the orphan *)
(* pool and the table of requests keep their caps, whatever the readers of *)
(* the peers and the sweeps do in between.                                 *)
(***************************************************************************)
THEOREM SyncTypesHold == Spec => []TypeOK
  <1>1. TypeInv => TypeOK
    <2> SUFFICES ASSUME TypeInv PROVE TypeOK
      OBVIOUS
    <2>1. Answer \subseteq Message  BY MessageTypes
    <2>2. \A p \in Peers : inbox[p] \in Seq(Message)
      <3> SUFFICES ASSUME NEW p \in Peers PROVE inbox[p] \in Seq(Message)
        OBVIOUS
      <3>1. PICK q : q = inbox[p]  OBVIOUS
      <3>2. q \in Seq(Answer)  BY <3>1 DEF TypeInv, PeerTypeOK
      <3>3. q \in Seq(Message)  BY <2>1, <3>2
      <3> QED  BY <3>1, <3>3
    <2> QED  BY <2>2 DEF TypeInv, StoreTypeOK, PeerTypeOK, LoopTypeOK, TypeOK
  <1> QED  BY InitTypes, NextTypes, <1>1, PTL DEF Spec

-----------------------------------------------------------------------------
(* What the node believes of its peers.  A peer serves blocks of its own     *)
(* chain only, and that chain grows.                                         *)

ChainAnswer(c) == {m \in Answer : m.type = "block" => m.block \in Ancestors[c]}

(* A call that came from the peer; genesis is stored, so it is never added.  *)
ChainTask(c) ==
  {t \in Task : /\ t.do # "item" /\ t.from # NoPeer => t.block \in Ancestors[c]
                /\ t.do = "add" => t.block # Genesis}

HonestPeer(p) ==
  /\ height[p] <= Height[peerTip[p]]
  /\ inbox[p] \in Seq(ChainAnswer(peerTip[p]))
  /\ todo[p] \in Seq(ChainTask(peerTip[p]))

HonestInv ==
  /\ Genesis \in known
  /\ \A p \in Peers : HonestPeer(p)

LEMMA InitHonest == Init => HonestInv
  <1> SUFFICES ASSUME Init PROVE HonestInv
    OBVIOUS
  <1>1. Genesis \in known
    <2>1. Start \in Blocks  BY SyncAssumption
    <2> QED  BY <2>1, AncestorsAreChains DEF Init, Linear
  <1>2. ASSUME NEW p \in Peers PROVE HonestPeer(p)
    <2>1. PICK c \in Blocks : c = peerTip[p]  BY SyncAssumption DEF Init
    <2>2. Height[c] \in Nat  BY TreeAssumption
    <2>3. height[p] = 0 /\ inbox[p] = <<>> /\ todo[p] = <<>>  BY DEF Init
    <2>4. <<>> \in Seq(ChainAnswer(c)) /\ <<>> \in Seq(ChainTask(c))  OBVIOUS
    <2> QED  BY <2>1, <2>2, <2>3, <2>4 DEF HonestPeer
  <1> QED  BY <1>1, <1>2 DEF HonestInv

(* A peer that a step does not concern.                                      *)
LEMMA HonestSame ==
  ASSUME NEW p \in Peers, HonestPeer(p), peerTip'[p] = peerTip[p],
         height'[p] = height[p], inbox'[p] = inbox[p], todo'[p] = todo[p]
  PROVE  HonestPeer(p)'
  BY DEF HonestPeer

(* The steps of one peer and of its reader.                                  *)
LEMMA OtherPeers ==
  ASSUME TypeInv, NEW p \in Peers, NEW q \in Peers, q # p, ~Panic(p),
         \/ Read(p) \/ Handle(p) \/ PeerServe(p) \/ PeerMine(p) \/ Handshake(p) \/ Disconnect(p)
  PROVE  /\ peerTip'[q] = peerTip[q] /\ height'[q] = height[q]
         /\ inbox'[q] = inbox[q] /\ todo'[q] = todo[q]
  <1> USE DEF TypeInv, PeerTypeOK, net
  <1>1. CASE Read(p)  BY <1>1 DEF Read
  <1>2. CASE Item(p) \/ AddOrphan(p)  BY <1>2 DEF Item, AddOrphan, Return
  <1>3. CASE Receive(p) \/ AddBlock(p)  BY <1>3 DEF Receive, AddBlock, Return, Become
  <1>4. CASE Added(p)  BY <1>4 DEF Added
  <1>5. CASE Finish(p) \/ Compare(p) \/ Relay(p)
    BY <1>5 DEF Finish, Compare, Relay, Return, Become
  <1>6. CASE PeerServe(p)  BY <1>6 DEF PeerServe
  <1>7. CASE PeerMine(p)  BY <1>7 DEF PeerMine
  <1>8. CASE Handshake(p) \/ Disconnect(p)  BY <1>8 DEF Handshake, Disconnect
  <1> QED  BY <1>1, <1>2, <1>3, <1>4, <1>5, <1>6, <1>7, <1>8 DEF Handle

(* A reader that is at something, and a call that returns or goes on.        *)
LEMMA AtChain ==
  ASSUME TypeInv, NEW p \in Peers, NEW c, c = peerTip[p], HonestPeer(p), NEW d, At(p, d)
  PROVE  /\ Head(todo[p]) \in ChainTask(c) /\ Tail(todo[p]) \in Seq(ChainTask(c))
         /\ Head(todo[p]).do = d
  <1>1. PICK s : s = todo[p]  OBVIOUS
  <1>2. s \in Seq(ChainTask(c)) /\ s # <<>>  BY <1>1 DEF HonestPeer, At
  <1>3. Head(s) \in ChainTask(c) /\ Tail(s) \in Seq(ChainTask(c))  BY <1>2
  <1> QED  BY <1>1, <1>3 DEF At

LEMMA ReturnChain ==
  ASSUME TypeInv, NEW p \in Peers, NEW c, c = peerTip[p], HonestPeer(p), NEW d, At(p, d),
         Return(p)
  PROVE  todo'[p] \in Seq(ChainTask(c))
  <1>1. PICK r : r = Tail(todo[p])  OBVIOUS
  <1>2. r \in Seq(ChainTask(c))  BY <1>1, AtChain
  <1> QED  BY <1>1, <1>2 DEF Return, TypeInv, PeerTypeOK

LEMMA BecomeChain ==
  ASSUME TypeInv, NEW p \in Peers, NEW c, c = peerTip[p], HonestPeer(p), NEW d, At(p, d),
         NEW t \in ChainTask(c), Become(p, t)
  PROVE  todo'[p] \in Seq(ChainTask(c))
  <1>1. PICK r, s : r = Tail(todo[p]) /\ s = <<t>> \o r  OBVIOUS
  <1>2. r \in Seq(ChainTask(c))  BY <1>1, AtChain
  <1>3. <<t>> \in Seq(ChainTask(c))  OBVIOUS
  <1>4. s \in Seq(ChainTask(c))  BY <1>1, <1>2, <1>3
  <1> QED  BY <1>1, <1>4 DEF Become, TypeInv, PeerTypeOK

(* A message is taken.                                                       *)
LEMMA ReadHonest ==
  ASSUME TypeInv, NEW p \in Peers, HonestPeer(p), Read(p)
  PROVE  HonestPeer(p)'
  <1>1. PICK c, q : c = peerTip[p] /\ q = inbox[p]  OBVIOUS
  <1>2. q \in Seq(ChainAnswer(c)) /\ q # <<>>  BY <1>1 DEF HonestPeer, Read
  <1>3. PICK m, r : m = Head(q) /\ r = Tail(q)  OBVIOUS
  <1>4. m \in ChainAnswer(c) /\ r \in Seq(ChainAnswer(c))  BY <1>2, <1>3
  <1>5. m \in Answer /\ (m.type = "block" => m.block \in Ancestors[c])  BY <1>4 DEF ChainAnswer
  <1>6. /\ inbox'[p] = r /\ height' = height /\ peerTip' = peerTip
        /\ todo'[p] = IF m.type = "inv"
                      THEN [i \in 1..Len(m.blocks) |-> Call("item", m.blocks[i], p)]
                      ELSE IF m.block \in known THEN <<>>
                      ELSE <<Call("receive", m.block, p), Call("relay", m.block, p)>>
    BY <1>1, <1>3 DEF Read, TypeInv, PeerTypeOK
  <1>7. PICK s : s = todo'[p]  OBVIOUS
  <1>8. s \in Seq(ChainTask(c))
    <2>1. CASE m.type = "inv"
      <3>1. PICK bs \in Seq(Blocks) : bs = m.blocks  BY <1>5, <2>1, MessageShapes
      <3>2. ASSUME NEW i \in 1..Len(bs) PROVE Call("item", bs[i], p) \in ChainTask(c)
        <4>1. bs[i] \in Blocks  OBVIOUS
        <4>2. Call("item", bs[i], p) \in Task  BY <4>1, TaskTypes DEF Doing
        <4> QED  BY <4>2 DEF ChainTask, Call
      <3>3. s = [i \in 1..Len(bs) |-> Call("item", bs[i], p)]  BY <1>6, <1>7, <2>1, <3>1
      <3>4. PICK n \in Nat : n = Len(bs)  OBVIOUS
      <3> QED  BY <3>2, <3>3, <3>4
    <2>2. CASE m.type # "inv"
      <3>1. m.type = "block" /\ m.block \in Blocks /\ m.block \in Ancestors[c]
        BY <1>5, <2>2, MessageShapes
      <3>2. PICK u, v : u = Call("receive", m.block, p) /\ v = Call("relay", m.block, p)
        OBVIOUS
      <3>3. u \in Task /\ v \in Task  BY <3>1, <3>2, TaskTypes DEF Doing
      <3>4. u \in ChainTask(c) /\ v \in ChainTask(c)
        BY <3>1, <3>2, <3>3 DEF ChainTask, Call
      <3>5. <<u, v>> \in Seq(ChainTask(c)) /\ <<>> \in Seq(ChainTask(c))  BY <3>4
      <3>6. s = <<>> \/ s = <<u, v>>  BY <1>6, <1>7, <2>2, <3>2
      <3> QED  BY <3>5, <3>6
    <2> QED  BY <2>1, <2>2
  <1> QED  BY <1>1, <1>4, <1>6, <1>7, <1>8 DEF HonestPeer

(* The calls that return, and those that go on as another.                   *)
LEMMA CallHonest ==
  ASSUME TypeInv, NEW p \in Peers, HonestPeer(p), Genesis \in known,
         \/ Item(p) \/ Receive(p) \/ AddBlock(p) \/ AddOrphan(p)
         \/ Finish(p) \/ Compare(p) \/ Relay(p)
  PROVE  HonestPeer(p)'
  <1>1. PICK c, t : c = peerTip[p] /\ t = Head(todo[p])  OBVIOUS
  <1>2. height' = height /\ peerTip' = peerTip /\ inbox' = inbox
    BY DEF Item, Receive, AddBlock, AddOrphan, Finish, Compare, Relay, net
  <1>3. ASSUME todo'[p] \in Seq(ChainTask(c)) PROVE HonestPeer(p)'
    BY <1>1, <1>2, <1>3 DEF HonestPeer
  <1>4. CASE Item(p)
    <2>1. At(p, "item") /\ Return(p)  BY <1>4 DEF Item
    <2> QED  BY <1>1, <1>3, <2>1, ReturnChain
  <1>5. CASE AddOrphan(p)
    <2>1. At(p, "orphan") /\ Return(p)  BY <1>5 DEF AddOrphan
    <2> QED  BY <1>1, <1>3, <2>1, ReturnChain
  <1>6. CASE Finish(p)
    <2>1. At(p, "finish")  BY <1>6 DEF Finish
    <2>2. t \in ChainTask(c) /\ t.do = "finish"  BY <1>1, <2>1, AtChain
    <2>3. CASE Return(p)  BY <1>1, <1>3, <2>1, <2>3, ReturnChain
    <2>4. CASE ~Return(p)
      <3>1. PICK u : u = [t EXCEPT !.do = "compare"]  OBVIOUS
      <3>2. Become(p, u)  BY <1>1, <1>6, <2>4, <3>1 DEF Finish
      <3>3. t \in Task  BY <2>2 DEF ChainTask
      <3>4. u \in Task /\ u.block = t.block /\ u.from = t.from /\ u.do = "compare"
        BY <3>1, <3>3 DEF Task
      <3>5. u \in ChainTask(c)  BY <2>2, <3>4 DEF ChainTask
      <3> QED  BY <1>1, <1>3, <2>1, <3>2, <3>5, BecomeChain
    <2> QED  BY <2>3, <2>4
  <1>7. CASE Receive(p)
    <2>1. At(p, "receive")  BY <1>7 DEF Receive
    <2>2. t \in ChainTask(c) /\ t.do = "receive"  BY <1>1, <2>1, AtChain
    <2>3. CASE Return(p)  BY <1>1, <1>3, <2>1, <2>3, ReturnChain
    <2>4. CASE ~Return(p)
      <3>1. WouldReorg(t.block) \in BOOLEAN  BY DEF WouldReorg
      <3>2. PICK r : r \in BOOLEAN /\ r = WouldReorg(t.block)  BY <3>1
      <3>3. t.block \notin known /\ Become(p, [t EXCEPT !.do = "add", !.reorg = WouldReorg(t.block)])
        BY <1>1, <1>7, <2>4 DEF Receive
      <3>4. PICK u : u = [t EXCEPT !.do = "add", !.reorg = r]  OBVIOUS
      <3>5. Become(p, u)  BY <3>2, <3>3, <3>4
      <3>6. t.block # Genesis  BY <3>3
      <3>7. t \in Task  BY <2>2 DEF ChainTask
      <3>8. u \in Task
        <4>1. CASE r = TRUE  BY <3>4, <3>7, <4>1 DEF Task
        <4>2. CASE r = FALSE  BY <3>4, <3>7, <4>2 DEF Task
        <4> QED  BY <3>2, <4>1, <4>2
      <3>9. u.block = t.block /\ u.from = t.from  BY <3>4, <3>7 DEF Task
      <3>10. u \in ChainTask(c)  BY <2>2, <3>6, <3>8, <3>9 DEF ChainTask
      <3> QED  BY <1>1, <1>3, <2>1, <3>5, <3>10, BecomeChain
    <2> QED  BY <2>3, <2>4
  <1>8. CASE AddBlock(p)
    <2>1. At(p, "add")  BY <1>8 DEF AddBlock
    <2>2. t \in ChainTask(c) /\ t.do = "add"  BY <1>1, <2>1, AtChain
    <2>3. PICK u, v : u = [t EXCEPT !.do = "added"] /\ v = [t EXCEPT !.do = "orphan"]  OBVIOUS
    <2>4. t \in Task  BY <2>2 DEF ChainTask
    <2>5. u \in Task /\ u.block = t.block /\ u.from = t.from /\ u.do = "added"
      BY <2>3, <2>4 DEF Task
    <2>6. v \in Task /\ v.block = t.block /\ v.from = t.from /\ v.do = "orphan"
      BY <2>3, <2>4 DEF Task
    <2>7. u \in ChainTask(c) /\ v \in ChainTask(c)  BY <2>2, <2>5, <2>6 DEF ChainTask
    <2>8. Become(p, u) \/ Become(p, v)  BY <1>1, <1>8, <2>3 DEF AddBlock
    <2> QED  BY <1>1, <1>3, <2>1, <2>7, <2>8, BecomeChain
  <1>9. CASE Compare(p)
    <2>1. At(p, "compare") /\ Return(p)  BY <1>9 DEF Compare
    <2> QED  BY <1>1, <1>3, <2>1, ReturnChain
  <1>10. CASE Relay(p)
    <2>1. At(p, "relay") /\ Return(p)  BY <1>10 DEF Relay
    <2> QED  BY <1>1, <1>3, <2>1, ReturnChain
  <1> QED  BY <1>4, <1>5, <1>6, <1>7, <1>8, <1>9, <1>10

(* A block that was stored raises the height of the peer that sent it: no    *)
(* higher than the chain it is on.  Orphans are nobody's.                    *)
LEMMA AddedHonest ==
  ASSUME TypeInv, NEW p \in Peers, HonestPeer(p), Added(p)
  PROVE  HonestPeer(p)'
  <1>1. PICK c, t, b, rest : /\ c = peerTip[p] /\ t = Head(todo[p])
                             /\ b = t.block /\ rest = Tail(todo[p])
    OBVIOUS
  <1>2. /\ At(p, "added") /\ peerTip' = peerTip /\ inbox' = inbox
        /\ height' = IF t.from # NoPeer /\ Height[b] > height[p]
                     THEN [height EXCEPT ![p] = Height[b]] ELSE height
    BY <1>1 DEF Added, net
  <1>3. t \in ChainTask(c) /\ t.do = "added" /\ rest \in Seq(ChainTask(c))
    BY <1>1, <1>2, AtChain
  <1>4. t \in Task /\ b \in Blocks /\ t.from \in Peers \cup {NoPeer}
    BY <1>1, <1>3, TaskTypes DEF ChainTask
  <1>5. c \in Blocks  BY <1>1 DEF TypeInv, PeerTypeOK
  <1>6. t.from # NoPeer => b \in Ancestors[c]  BY <1>1, <1>3 DEF ChainTask
  <1>7. height'[p] <= Height[c]
    <2>1. height[p] <= Height[c]  BY <1>1 DEF HonestPeer
    <2>2. t.from # NoPeer => Height[b] <= Height[c]
      BY <1>5, <1>6, AncestorsAreChains DEF Linear
    <2> QED  BY <1>2, <2>1, <2>2 DEF TypeInv, PeerTypeOK
  <1>8. todo'[p] \in Seq(ChainTask(c))
    <2>1. PICK order \in SetToSeqs(Ready(b)) :
            todo' = [todo EXCEPT
              ![p] = [i \in 1..Len(order) |-> Call("receive", order[i], NoPeer)]
                       \o <<Call("finish", b, t.from)>> \o Tail(@)]
      BY <1>1 DEF Added
    <2>2. PICK n : n \in Nat /\ n = Len(order) /\ \A i \in 1..n : order[i] \in Blocks
      BY <1>4, ReadyOrder
    <2>3. PICK u : u = [i \in 1..n |-> Call("receive", order[i], NoPeer)]  OBVIOUS
    <2>4. ASSUME NEW i \in 1..n PROVE Call("receive", order[i], NoPeer) \in ChainTask(c)
      <3>1. Call("receive", order[i], NoPeer) \in Task  BY <2>2, TaskTypes DEF Doing
      <3> QED  BY <3>1 DEF ChainTask, Call
    <2>5. u \in Seq(ChainTask(c))  BY <2>2, <2>3, <2>4
    <2>6. PICK v : v = Call("finish", b, t.from)  OBVIOUS
    <2>7. v \in Task /\ v.do = "finish" /\ v.block = b /\ v.from = t.from
      BY <1>4, <2>6, TaskTypes DEF Call, Doing
    <2>8. v \in ChainTask(c)  BY <1>6, <2>7 DEF ChainTask
    <2>9. u \o <<v>> \in Seq(ChainTask(c))  BY <2>5, <2>8
    <2>10. u \o <<v>> \o rest \in Seq(ChainTask(c))  BY <1>3, <2>9
    <2>11. todo'[p] = u \o <<v>> \o rest
      BY <1>1, <2>1, <2>2, <2>3, <2>6 DEF TypeInv, PeerTypeOK
    <2> QED  BY <2>10, <2>11
  <1> QED  BY <1>1, <1>2, <1>7, <1>8 DEF HonestPeer

(* Every other step of a peer.                                               *)
LEMMA PeerHonest ==
  ASSUME TypeInv, NEW p \in Peers, HonestPeer(p),
         PeerServe(p) \/ PeerMine(p) \/ Handshake(p) \/ Disconnect(p)
  PROVE  HonestPeer(p)'
  <1>1. PICK c, h : c = peerTip[p] /\ h = height[p]  OBVIOUS
  <1>2. /\ c \in Blocks /\ Height[c] \in Nat /\ h <= Height[c] /\ h \in Nat
        /\ inbox[p] \in Seq(ChainAnswer(c)) /\ todo[p] \in Seq(ChainTask(c))
    BY <1>1, TreeAssumption DEF HonestPeer, TypeInv, PeerTypeOK
  <1>3. todo' = todo
    BY DEF PeerServe, PeerMine, Handshake, Disconnect
  <1>4. CASE PeerServe(p)
    <2>1. height' = height /\ peerTip' = peerTip  BY <1>4 DEF PeerServe
    <2>2. PICK q, m : q = inbox[p] /\ m = Head(outbox[p])  OBVIOUS
    <2>3. inbox'[p] \in Seq(ChainAnswer(c))
      <3>1. CASE /\ m.type = "getblocks"
                 /\ inbox' = [inbox EXCEPT
                      ![p] = Enqueue(@, [type |-> "inv", blocks |-> Above(p, m.from)])]
        <4>1. m \in Message
          <5>1. PICK o : o = outbox[p]  OBVIOUS
          <5>2. o \in Seq(Message) /\ o # <<>>
            BY <1>4, <5>1 DEF PeerServe, TypeInv, PeerTypeOK
          <5>3. Head(o) \in Message  BY <5>2
          <5> QED  BY <2>2, <5>1, <5>3
        <4>2. PICK a : a = Above(p, m.from)  OBVIOUS
        <4>3. a \in Seq(Blocks)  BY <3>1, <4>1, <4>2, MessageShapes, AboveType
        <4>4. PICK n : n = [type |-> "inv", blocks |-> a]  OBVIOUS
        <4>5. n \in Answer /\ n.type = "inv"  BY <4>3, <4>4, MessageTypes
        <4>6. n \in ChainAnswer(c)  BY <4>5 DEF ChainAnswer
        <4>7. Enqueue(q, n) \in Seq(ChainAnswer(c))  BY <1>2, <2>2, <4>6, EnqueueType
        <4>8. inbox'[p] = Enqueue(q, n)
          BY <2>2, <3>1, <4>2, <4>4 DEF TypeInv, PeerTypeOK
        <4> QED  BY <4>7, <4>8
      <3>2. CASE /\ m.type = "getdata" /\ m.block \in Ancestors[peerTip[p]]
                 /\ inbox' = [inbox EXCEPT
                      ![p] = Enqueue(@, [type |-> "block", block |-> m.block])]
        <4>1. PICK b : b = m.block  OBVIOUS
        <4>2. b \in Ancestors[c] /\ b \in Blocks  BY <1>1, <1>2, <3>2, <4>1, OwnAncestry
        <4>3. PICK n : n = [type |-> "block", block |-> b]  OBVIOUS
        <4>4. n \in Answer /\ n.block = b  BY <4>2, <4>3, MessageTypes
        <4>5. n \in ChainAnswer(c)  BY <4>2, <4>4 DEF ChainAnswer
        <4>6. Enqueue(q, n) \in Seq(ChainAnswer(c))  BY <1>2, <2>2, <4>5, EnqueueType
        <4>7. inbox'[p] = Enqueue(q, n)
          BY <2>2, <3>2, <4>1, <4>3 DEF TypeInv, PeerTypeOK
        <4> QED  BY <4>6, <4>7
      <3>3. CASE UNCHANGED inbox  BY <1>2, <3>3
      <3> QED  BY <1>4, <2>2, <3>1, <3>2, <3>3 DEF PeerServe
    <2> QED  BY <1>1, <1>2, <1>3, <2>1, <2>3 DEF HonestPeer
  <1>5. CASE PeerMine(p)
    <2>1. PICK b \in Ancestors[PeerEnd[p]] :
            /\ b # Genesis /\ Parent[b] = c
            /\ peerTip' = [peerTip EXCEPT ![p] = b]
            /\ inbox' = IF up[p]
                        THEN [inbox EXCEPT ![p] = Enqueue(@, [type |-> "block", block |-> b])]
                        ELSE inbox
      BY <1>1, <1>5 DEF PeerMine
    <2>2. b \in Blocks
      <3>1. PeerEnd[p] \in Blocks  BY SyncAssumption
      <3> QED  BY <3>1, OwnAncestry
    <2>3. /\ Ancestors[b] = Ancestors[c] \cup {b}
          /\ Height[b] = Height[c] + 1
      BY <2>1, <2>2, TreeAssumption
    <2>4. peerTip'[p] = b /\ height' = height
      BY <1>5, <2>1 DEF PeerMine, TypeInv, PeerTypeOK
    <2>5. ChainAnswer(c) \subseteq ChainAnswer(b) /\ ChainTask(c) \subseteq ChainTask(b)
      BY <2>3 DEF ChainAnswer, ChainTask
    <2>6. PICK q, s : q = inbox[p] /\ s = todo[p]  OBVIOUS
    <2>7. q \in Seq(ChainAnswer(b)) /\ s \in Seq(ChainTask(b))
      <3>1. q \in Seq(ChainAnswer(c)) /\ s \in Seq(ChainTask(c))  BY <1>2, <2>6
      <3> QED  BY <2>5, <3>1
    <2>8. inbox'[p] \in Seq(ChainAnswer(b))
      <3>1. PICK n : n = [type |-> "block", block |-> b]  OBVIOUS
      <3>2. n \in Answer /\ n.block = b  BY <2>2, <3>1, MessageTypes
      <3>3. n \in ChainAnswer(b)  BY <2>3, <3>2 DEF ChainAnswer
      <3>4. Enqueue(q, n) \in Seq(ChainAnswer(b))  BY <2>7, <3>3, EnqueueType
      <3>5. inbox'[p] = Enqueue(q, n) \/ inbox'[p] = q
        BY <2>1, <2>6, <3>1 DEF TypeInv, PeerTypeOK
      <3> QED  BY <2>7, <3>4, <3>5
    <2>9. height[p] <= Height[b]  BY <1>1, <1>2, <2>3
    <2> QED  BY <1>3, <2>4, <2>6, <2>7, <2>8, <2>9 DEF HonestPeer
  <1>6. CASE Handshake(p)
    <2>1. height'[p] = Height[c] /\ peerTip' = peerTip /\ inbox' = inbox
      BY <1>1, <1>6 DEF Handshake, TypeInv, PeerTypeOK
    <2> QED  BY <1>1, <1>2, <1>3, <2>1 DEF HonestPeer
  <1>7. CASE Disconnect(p)
    <2>1. height' = height /\ peerTip' = peerTip /\ inbox'[p] = <<>>
      BY <1>7 DEF Disconnect, TypeInv, PeerTypeOK
    <2>2. <<>> \in Seq(ChainAnswer(c))  OBVIOUS
    <2> QED  BY <1>1, <1>2, <1>3, <2>1, <2>2 DEF HonestPeer
  <1> QED  BY <1>4, <1>5, <1>6, <1>7

LEMMA NextHonest == TypeInv /\ HonestInv /\ [Next]_vars => HonestInv'
  <1> SUFFICES ASSUME TypeInv, HonestInv, [Next]_vars PROVE HonestInv'
    OBVIOUS
  <1>1. Genesis \in known'
    <2>1. known \subseteq known'
      BY DEF Next, vars, store, Handle, Read, Item, Receive, AddBlock, AddOrphan, Added, Finish,
             Compare, Panic, Relay, PeerServe, PeerMine, Handshake, Disconnect, SyncTick, SyncDone, SyncFrom,
             CoolDown, Sweep, EvictOrphan
    <2> QED  BY <2>1 DEF HonestInv
  <1>2. ASSUME NEW q \in Peers PROVE HonestPeer(q)'
    <2>1. HonestPeer(q) /\ Genesis \in known  BY DEF HonestInv
    <2>2. ASSUME NEW p \in Peers,
                 \/ Read(p) \/ Handle(p) \/ PeerServe(p) \/ PeerMine(p)
                 \/ Handshake(p) \/ Disconnect(p)
          PROVE  HonestPeer(q)'
      <3>0. CASE Panic(p)
        <4>1. PICK c : c = peerTip[q]  OBVIOUS
        <4>2. height' = height /\ peerTip' = peerTip /\ inbox'[q] = <<>> /\ todo'[q] = <<>>
          BY <3>0 DEF Panic
        <4>3. <<>> \in Seq(ChainAnswer(c)) /\ <<>> \in Seq(ChainTask(c))  OBVIOUS
        <4> QED  BY <2>1, <4>1, <4>2, <4>3 DEF HonestPeer
      <3>1. CASE q = p /\ ~Panic(p)
        BY <2>1, <2>2, <3>1, ReadHonest, CallHonest, AddedHonest, PeerHonest DEF Handle
      <3>2. CASE q # p /\ ~Panic(p)  BY <2>1, <2>2, <3>2, OtherPeers, HonestSame
      <3> QED  BY <3>0, <3>1, <3>2
    <2>3. CASE \/ SyncTick \/ SyncDone \/ SyncFrom \/ CoolDown
               \/ \E old \in SUBSET pendingInv : Sweep(old)
               \/ \E b \in Blocks : EvictOrphan(b)
               \/ UNCHANGED vars
      <3>1. UNCHANGED <<peerTip, height, inbox, todo>>
        BY <2>3 DEF SyncTick, SyncDone, SyncFrom, CoolDown, Sweep, EvictOrphan, vars, net
      <3> QED  BY <2>1, <3>1, HonestSame
    <2> QED  BY <2>2, <2>3 DEF Next
  <1> QED  BY <1>1, <1>2 DEF HonestInv

LEMMA SyncTypeInvariant == Spec => []TypeInv
  BY InitTypes, NextTypes, PTL DEF Spec

(***************************************************************************)
(* The node never believes a peer to be higher than it is, though it       *)
(* learns of heights from the handshake and from blocks that take any time *)
(* through queues, the orphan pool and other readers: the height it is to  *)
(* catch up with (CatchesUp) exists.                                       *)
(***************************************************************************)
HeightsAreHonest == \A p \in Peers : height[p] <= Height[peerTip[p]]

THEOREM HeightsStayHonest == Spec => []HeightsAreHonest
  <1>1. HonestInv => HeightsAreHonest  BY DEF HonestInv, HonestPeer, HeightsAreHonest
  <1> QED  BY <1>1, InitHonest, NextHonest, SyncTypeInvariant, PTL DEF Spec

-----------------------------------------------------------------------------
(* The store and the tip.                                                    *)

(* A block is stored with the whole chain below it.                          *)
StoreIsConnected == \A b \in known : Ancestors[b] \subseteq known

(* No stored block that is as high as the tip is preferred to it.            *)
TipIsBestKnown == \A b \in known : ~(Height[b] >= Height[tip] /\ Better(b, tip))

(***************************************************************************)
(* Blocks come in any order, by several readers and out of the orphan      *)
(* pool; none is stored before its parent.                                 *)
(***************************************************************************)
THEOREM StoreStaysConnected == Spec => []StoreIsConnected
  <1>1. Init => StoreIsConnected
    <2> SUFFICES ASSUME Init PROVE StoreIsConnected
      OBVIOUS
    <2>1. Start \in Blocks /\ known = Ancestors[Start]  BY SyncAssumption DEF Init
    <2> QED  BY <2>1, AncestorsAreChains DEF StoreIsConnected, Linear
  <1>2. TypeInv /\ StoreIsConnected /\ [Next]_vars => StoreIsConnected'
    <2> SUFFICES ASSUME TypeInv, StoreIsConnected, [Next]_vars PROVE StoreIsConnected'
      OBVIOUS
    <2>1. ASSUME NEW p \in Peers, AddBlock(p) PROVE StoreIsConnected'
      <3>1. PICK b : b = Head(todo[p]).block  OBVIOUS
      <3>2. b \in Blocks
        <4>1. At(p, "add")  BY <2>1 DEF AddBlock
        <4> QED  BY <3>1, <4>1, AtType
      <3>3. CASE known' = known  BY <3>3 DEF StoreIsConnected
      <3>4. CASE known' # known
        <4>1. known' = known \cup {b} /\ Parent[b] \in known
          BY <2>1, <3>1, <3>4 DEF AddBlock
        <4>2. Ancestors[b] \subseteq Ancestors[Parent[b]] \cup {b}
          BY <3>2, TreeAssumption
        <4> QED  BY <4>1, <4>2 DEF StoreIsConnected
      <3> QED  BY <3>3, <3>4
    <2>2. ASSUME \A p \in Peers : ~AddBlock(p) PROVE StoreIsConnected'
      <3>1. known' = known
        BY <2>2 DEF Next, vars, store, Handle, Read, Item, Receive, AddOrphan, Added, Finish,
               Compare, Panic, Relay, PeerServe, PeerMine, Handshake, Disconnect, SyncTick, SyncDone, SyncFrom,
               CoolDown, Sweep, EvictOrphan
      <3> QED  BY <3>1 DEF StoreIsConnected
    <2> QED  BY <2>1, <2>2
  <1> QED  BY <1>1, <1>2, SyncTypeInvariant, PTL DEF Spec

(* The fork choice is an order, and a child comes before its parent.         *)
LEMMA BetterOrder ==
  /\ \A a \in Blocks : ~Better(a, a)
  /\ \A a, b, c \in Blocks : Better(a, b) /\ Better(b, c) => Better(a, c)
  /\ \A b \in Blocks \ {Genesis} : Better(b, Parent[b])
  BY TreeAssumption DEF Better

(* A block on a chain is not preferred to the top of the chain.              *)
LEMMA TopIsBest ==
  ASSUME NEW b \in Blocks, NEW a \in Ancestors[b]
  PROVE  ~Better(a, b)
  <1>1. a \in Blocks  BY OwnAncestry
  <1>2. CASE a = b  BY <1>2, BetterOrder
  <1>3. CASE a # b
    <2>1. Work[a] < Work[b]  BY <1>3, AncestorsAreChains DEF Linear
    <2>2. Work[a] \in Nat /\ Work[b] \in Nat  BY <1>1, TreeAssumption
    <2> QED  BY <2>1, <2>2 DEF Better
  <1> QED  BY <1>2, <1>3

(* A new tip is as high as the old one and preferred to it, and so there is  *)
(* nothing among what is stored that is better and as high.                  *)
LEMMA AddedTip ==
  ASSUME TypeInv, HonestInv, TipIsBestKnown, NEW p \in Peers, AddBlock(p)
  PROVE  TipIsBestKnown'
  <1>1. PICK b, t : b = Head(todo[p]).block /\ t = tip  OBVIOUS
  <1>2. At(p, "add")  BY DEF AddBlock
  <1>3. b \in Blocks  BY <1>1, <1>2, AtType
  <1>4. b # Genesis
    <2>1. PICK c : c = peerTip[p]  OBVIOUS
    <2>2. HonestPeer(p)  BY DEF HonestInv
    <2>3. Head(todo[p]) \in ChainTask(c) /\ Head(todo[p]).do = "add"
      BY <1>2, <2>1, <2>2, AtChain
    <2> QED  BY <1>1, <2>3 DEF ChainTask
  <1>5. t \in Blocks /\ t \in known /\ known \subseteq Blocks
    BY <1>1 DEF TypeInv, StoreTypeOK
  <1>6. \A k \in known : ~(Height[k] >= Height[t] /\ Better(k, t))
    BY <1>1 DEF TipIsBestKnown
  <1>7. CASE tip' = t
    <2>1. ASSUME known' = known \cup {b}, b \notin known
          PROVE  ~(Height[b] >= Height[t] /\ Better(b, t))
      BY <1>1, <1>5, <1>7, <2>1 DEF AddBlock, Preferred
    <2>2. known' = known \/ known' = known \cup {b}  BY <1>1 DEF AddBlock
    <2> QED  BY <1>6, <1>7, <2>1, <2>2 DEF TipIsBestKnown
  <1>8. CASE tip' # t
    <2>1. /\ tip' = b /\ known' = known \cup {b}
          /\ Parent[b] = t \/ (Height[b] >= Height[t] /\ Better(b, t))
      BY <1>1, <1>8 DEF AddBlock, Preferred
    <2>2. Better(b, t)  BY <1>3, <1>4, <2>1, BetterOrder
    <2>3. /\ Height[b] \in Nat /\ Height[t] \in Nat /\ Height[b] >= Height[t]
      BY <1>3, <1>4, <1>5, <2>1, TreeAssumption
    <2>4. ASSUME NEW k \in known PROVE ~(Height[k] >= Height[b] /\ Better(k, b))
      <3>1. k \in Blocks /\ ~(Height[k] >= Height[t] /\ Better(k, t))  BY <1>5, <1>6
      <3>2. Height[k] \in Nat  BY <3>1, TreeAssumption
      <3> QED  BY <1>3, <1>5, <2>2, <2>3, <3>1, <3>2, BetterOrder
    <2>5. ~Better(b, b)  BY <1>3, BetterOrder
    <2> QED  BY <2>1, <2>4, <2>5 DEF TipIsBestKnown
  <1> QED  BY <1>7, <1>8

(***************************************************************************)
(* Out of order, by several readers, with blocks dropped by the rate limit *)
(* or lost with the process: no stored block as high as the tip is one the *)
(* fork choice prefers to it.  A shorter chain with more work is left      *)
(* until it is as high (the condition of WouldReorg and of AddBlock).      *)
(***************************************************************************)
THEOREM TipStaysBest == Spec => []TipIsBestKnown
  <1>1. Init => TipIsBestKnown
    <2> SUFFICES ASSUME Init PROVE TipIsBestKnown
      OBVIOUS
    <2>1. Start \in Blocks /\ known = Ancestors[Start] /\ tip = Start
      BY SyncAssumption DEF Init
    <2> QED  BY <2>1, TopIsBest DEF TipIsBestKnown
  <1>2. TypeInv /\ HonestInv /\ TipIsBestKnown /\ [Next]_vars => TipIsBestKnown'
    <2> SUFFICES ASSUME TypeInv, HonestInv, TipIsBestKnown, [Next]_vars PROVE TipIsBestKnown'
      OBVIOUS
    <2>1. ASSUME NEW p \in Peers, AddBlock(p) PROVE TipIsBestKnown'  BY <2>1, AddedTip
    <2>2. ASSUME \A p \in Peers : ~AddBlock(p) PROVE TipIsBestKnown'
      <3>1. known' = known /\ tip' = tip
        BY <2>2 DEF Next, vars, store, Handle, Read, Item, Receive, AddOrphan, Added, Finish,
               Compare, Panic, Relay, PeerServe, PeerMine, Handshake, Disconnect, SyncTick, SyncDone, SyncFrom,
               CoolDown, Sweep, EvictOrphan
      <3> QED  BY <3>1 DEF TipIsBestKnown
    <2> QED  BY <2>1, <2>2
  <1>3. Spec => []HonestInv  BY InitHonest, NextHonest, SyncTypeInvariant, PTL DEF Spec
  <1> QED  BY <1>1, <1>2, <1>3, SyncTypeInvariant, PTL DEF Spec

=============================================================================
