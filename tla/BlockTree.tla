------------------------------ MODULE BlockTree ------------------------------
(***************************************************************************)
(* The blocks a node may ever be handed, as a tree of constants: a block   *)
(* fixes its parent (the header's PreviousHash), so a run of the node      *)
(* works on a fixed tree and discovers it piece by piece.                  *)
(*                                                                         *)
(* Only what the chain code compares is kept of a header: the height, the  *)
(* cumulative work and the order of the hashes.  Every block of the tree   *)
(* passes the stateless checks of AddBlock (height, difficulty, hash,      *)
(* coinbase structure, Merkle root, size, time floor): one that fails them *)
(* is refused before anything is written and leaves no trace.              *)
(***************************************************************************)
EXTENDS Integers

CONSTANTS
  Blocks,       \* every block that may reach the node
  Genesis,      \* NewGenesisBlock()
  Parent,       \* block -> the block its PreviousHash names
  Height,       \* block -> Header.Height
  Work,         \* block -> chainWork(b): the work from genesis through b
  Rank,         \* block -> place of its hash in lexicographic order
  Ancestors     \* block -> the blocks from genesis through it

(***************************************************************************)
(* chainWork adds a positive blockWork per block, and two blocks with one  *)
(* hash are one block.                                                     *)
(***************************************************************************)
ASSUME TreeAssumption ==
  /\ Genesis \in Blocks
  /\ Parent \in [Blocks -> Blocks]
  /\ Height \in [Blocks -> Nat]
  /\ Work \in [Blocks -> Nat]
  /\ Rank \in [Blocks -> Nat]
  /\ Ancestors \in [Blocks -> SUBSET Blocks]
  /\ Height[Genesis] = 0
  /\ Ancestors[Genesis] = {Genesis}
  /\ \A b \in Blocks \ {Genesis} :
       /\ Height[b] = Height[Parent[b]] + 1
       /\ Work[b] > Work[Parent[b]]
       /\ Ancestors[b] = Ancestors[Parent[b]] \cup {b}
       /\ Parent[b] # b
  /\ \A b, c \in Blocks : Rank[b] = Rank[c] => b = c

(***************************************************************************)
(* The fork choice: more cumulative work, and at equal work the lower      *)
(* hash, so that two nodes that see the same two tips agree.               *)
(***************************************************************************)
Better(b, c) ==
  \/ Work[b] > Work[c]
  \/ Work[b] = Work[c] /\ Rank[b] < Rank[c]

=============================================================================
