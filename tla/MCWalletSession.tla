-------------------------- MODULE MCWalletSession --------------------------
(***************************************************************************)
(* Instance of WalletSession for TLC: bytes of two binary digits, base-3   *)
(* addresses, phrases of two words out of eight.                           *)
(***************************************************************************)
EXTENDS WalletSession

(* Checksums that tell neighbours apart; like the hash, not zero at zero.    *)
MCEntCs == [e \in Bytes(2) |-> (e[1] + 3 * e[2] + 1) % 4]
MCPkhCs == [p \in Bytes(2) |-> <<(2 * p[1] + p[2] + 1) % 4>>]

(* Key hashes with and without zero bytes at the front.                      *)
MCPkhOf == [e \in Bytes(2) |-> <<e[2], e[1]>>]

(* One wallet whose bytes start with zero, and one with a zero at the end.   *)
LowEnt  == <<0, 1>>
HighEnt == <<2, 0>>
MCDraws == {LowEnt, HighEnt}

(* At the restore screen: both phrases, the words of one swapped, a word     *)
(* that is in no list, and one word only.                                    *)
MCPhrases ==
  {entToMn(LowEnt), entToMn(HighEnt), Reverse(entToMn(HighEnt)), <<8, 1>>, <<1>>}

TabSymmetry == Permutations(Tabs)

=============================================================================
