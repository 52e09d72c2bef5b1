---------------------------- MODULE MCWalletPay ----------------------------
(***************************************************************************)
(* Instance of WalletPay for TLC: a payment of one takes the output of two *)
(* whole, or both outputs with change once the coinbase of one matures.    *)
(***************************************************************************)
EXTENDS WalletPay

CONSTANTS coinA, coinB

MCCoins == {[id |-> <<"coin", coinA>>, value |-> 2, mature |-> TRUE],
            [id |-> <<"coin", coinB>>, value |-> 1, mature |-> FALSE]}

(* One output, of which a payment leaves change.                             *)
OneCoin == {[id |-> <<"coin", coinA>>, value |-> 3, mature |-> TRUE]}

(* Nothing depends on the list of outputs that the page last fetched, nor on *)
(* the one it is fetching; without them the states of the safety run are a   *)
(* fifth.                                                                    *)
WithoutList ==
  <<node, tab, form, balance, contacts, sends, job, faults, lost,
    [l \in Loads |-> <<load[l].phase, load[l].value, load[l].list = Blank>>]>>

(* Slots of calls in flight are interchangeable.                             *)
SlotSymmetry == Permutations(Jobs) \cup Permutations(Loads)

=============================================================================
