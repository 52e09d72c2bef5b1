----------------------------- MODULE BestChain -----------------------------
(***************************************************************************)
(* What the chain database promises whoever reads it: the blocks it holds  *)
(* are connected to genesis, and the tip it names only ever moves to a     *)
(* block it holds that the fork choice prefers.                            *)
(***************************************************************************)
EXTENDS BlockTree

CONSTANT NoBlock          \* the tip of an empty database

VARIABLES known, best

vars == <<known, best>>

Init == known = {} /\ best = NoBlock

Learn(b) ==
  /\ b = Genesis \/ Parent[b] \in known
  /\ known' = known \cup {b}
  /\ best' = best

Found ==
  /\ Genesis \in known
  /\ best = NoBlock
  /\ best' = Genesis
  /\ known' = known

Adopt(b) ==
  /\ best # NoBlock
  /\ b \in known
  /\ Better(b, best)
  /\ best' = b
  /\ known' = known

Next == Found \/ \E b \in Blocks : Learn(b) \/ Adopt(b)

Spec == Init /\ [][Next]_vars

=============================================================================
