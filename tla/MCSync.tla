------------------------------- MODULE MCSync -------------------------------
(***************************************************************************)
(* Instances of Sync: the node is on q1, one peer on the branch of a, one  *)
(* at genesis, which may find r1.                                          *)
(***************************************************************************)
EXTENDS Sync

MCHeight[b \in Blocks] == IF b = Genesis THEN 0 ELSE MCHeight[Parent[b]] + 1

MCAncestors[b \in Blocks] ==
  IF b = Genesis THEN {b} ELSE MCAncestors[Parent[b]] \cup {b}

EvenWork == [b \in Blocks |-> Height[b]]

(***************************************************************************)
(*           a1 - a2                                                       *)
(*         /                                                               *)
(*        g - q1                                                           *)
(*         \                                                               *)
(*           r1                                                            *)
(***************************************************************************)
ThreeBranches == {"g", "q1", "r1", "a1", "a2"}

ThreeParent == [b \in ThreeBranches |-> IF b = "a2" THEN "a1" ELSE "g"]

(* By their hashes r1 beats a1, and a1 beats q1.                             *)
ThreeRank ==
  [b \in ThreeBranches |->
     CASE b = "g" -> 0 [] b = "r1" -> 1 [] b = "a1" -> 2 [] b = "q1" -> 3 [] b = "a2" -> 4]

RivalStart == [p \in Peers |-> IF p = "p1" THEN "a2" ELSE "g"]
RivalEnd   == [p \in Peers |-> IF p = "p1" THEN "a2" ELSE "r1"]

=============================================================================
