--------------------------- MODULE ExplorerModal ---------------------------
(***************************************************************************)
(* Search and details of src/web/src/pages/Explorer.jsx.  One modal is     *)
(* shown at most.  React keeps it mounted when only its key changes, and   *)
(* then it fetches again while the earlier fetch may still be answered; a  *)
(* search by hash opens a modal of its own accord when it is answered.     *)
(***************************************************************************)
EXTENDS Naturals, FiniteSets

CONSTANTS
  Heights,     \* what is clicked or typed as a height
  Addresses,
  Stored,      \* the heights there is a block at
  MaxFetches,  \* fetches of modals, a bound
  MaxFaults,   \* fetches lost, a bound
  Null

ASSUME ModalAssumption ==
  /\ MaxFetches \in Nat
  /\ \A i, n \in 1..MaxFetches, type \in {"block", "address"}, key \in Heights \cup Addresses :
       Null # [no |-> n, inst |-> i, type |-> type, key |-> key]

VARIABLES
  modal,       \* [type, key]
  inst,        \* the number of the fetch that the modal shown was mounted with
  asked,       \* fetches of modals so far, which numbers them
  details,     \* the ones in flight
  data, err,   \* state of the modal shown: the fetch whose answer it holds
  search,      \* height of the block that the hash searched for belongs to
  overtaken,   \* auxiliary: after the answer of the modal's key came an older one
  faults

shown == <<modal, inst, asked, details, data, err, overtaken>>
vars  == <<shown, search, faults>>

NoModal == [type |-> "none", key |-> Null]

Open == modal # NoModal

Init ==
  /\ modal = NoModal /\ inst = 0 /\ asked = 0
  /\ details = {} /\ data = Null /\ err = Null
  /\ search = Null /\ overtaken = FALSE
  /\ faults = 0

-----------------------------------------------------------------------------
(* The effect of the modal: one more fetch, after which no answer is late.   *)
Fetch(i, type, key) ==
  /\ asked < MaxFetches
  /\ asked' = asked + 1
  /\ details' = details \cup {[no |-> asked + 1, inst |-> i, type |-> type, key |-> key]}
  /\ overtaken' = FALSE

(* A mutant: the fetch runs when the modal mounts, not when its key changes. *)
setModal_MountOnly(type, key) ==
  LET stays == modal.type = type
      i     == IF stays THEN inst ELSE asked + 1
  IN  /\ modal' = [type |-> type, key |-> key]
      /\ inst' = i
      /\ IF stays THEN UNCHANGED <<asked, details, overtaken>> ELSE Fetch(i, type, key)
      /\ data' = IF stays THEN data ELSE Null
      /\ err' = IF stays THEN err ELSE Null

(* A mutant: the modal is one component for all types.                       *)
setModal_Shared(type, key) ==
  LET i == IF Open THEN inst ELSE asked + 1
  IN  /\ modal' = [type |-> type, key |-> key]
      /\ inst' = i
      /\ IF modal.key = key THEN UNCHANGED <<asked, details, overtaken>> ELSE Fetch(i, type, key)
      /\ data' = IF Open THEN data ELSE Null
      /\ err' = IF Open THEN err ELSE Null

(* A modal of the same type stays mounted, with its data and its error, and  *)
(* fetches for a key that changed; another type mounts anew.                 *)
setModal(type, key) ==
  LET stays == modal.type = type
      i     == IF stays THEN inst ELSE asked + 1
  IN  /\ modal' = [type |-> type, key |-> key]
      /\ inst' = i
      /\ IF stays /\ modal.key = key THEN UNCHANGED <<asked, details, overtaken>>
         ELSE Fetch(i, type, key)
      /\ data' = IF stays THEN data ELSE Null
      /\ err' = IF stays THEN err ELSE Null

(* The row of a block is clicked, which the modal covers.                    *)
ClickRow(h) ==
  /\ ~Open
  /\ setModal("block", h)
  /\ UNCHANGED <<search, faults>>

(* doSearch for a height, an address, or a hash; the field keeps the         *)
(* keyboard also under a modal.                                              *)
SearchHeight(h) ==
  /\ setModal("block", h)
  /\ UNCHANGED <<search, faults>>

SearchAddress(a) ==
  /\ setModal("address", a)
  /\ UNCHANGED <<search, faults>>

SearchHash(h) ==
  /\ search = Null
  /\ search' = h
  /\ UNCHANGED <<shown, faults>>

(* The node knows every block it stores by its hash; the modal gets the      *)
(* height only.                                                              *)
BlockFound ==
  /\ search # Null
  /\ setModal("block", search)
  /\ search' = Null
  /\ UNCHANGED faults

BlockNotFound ==
  /\ search # Null
  /\ search' = Null
  /\ UNCHANGED <<shown, faults>>

Mine(d) == Open /\ d.inst = inst

Late(d) == Mine(d) /\ d.no # asked /\ \A e \in details : e.no # asked

(* A mutant: a failed fetch leaves no error.                                 *)
Answer_Silent(d, ok) ==
  /\ details' = details \ {d}
  /\ data' = IF Mine(d) /\ ok THEN d ELSE data
  /\ err' = err
  /\ overtaken' = (overtaken \/ Late(d))

(* setData and setErr of a modal that is no longer mounted do nothing; one   *)
(* that is takes the answers to its earlier keys as well.                    *)
Answer(d, ok) ==
  /\ details' = details \ {d}
  /\ data' = IF Mine(d) /\ ok THEN d ELSE data
  /\ err' = IF Mine(d) /\ ~ok THEN d ELSE err
  /\ overtaken' = (overtaken \/ Late(d))

AnswerDetail(d) ==
  /\ Answer(d, d.type = "block" => d.key \in Stored)
  /\ UNCHANGED <<modal, inst, asked, search, faults>>

LoseDetail(d) ==
  /\ faults < MaxFaults
  /\ faults' = faults + 1
  /\ Answer(d, FALSE)
  /\ UNCHANGED <<modal, inst, asked, search>>

(* The cross, the backdrop, or Escape.                                       *)
Close ==
  /\ Open
  /\ modal' = NoModal
  /\ data' = Null /\ err' = Null
  /\ UNCHANGED <<inst, asked, details, search, overtaken, faults>>

Next ==
  \/ \E h \in Heights : ClickRow(h) \/ SearchHeight(h) \/ SearchHash(h)
  \/ \E a \in Addresses : SearchAddress(a)
  \/ BlockFound \/ BlockNotFound
  \/ \E d \in details : AnswerDetail(d) \/ LoseDetail(d)
  \/ Close

(* Every fetch is answered or fails.                                         *)
Fairness == \A n \in 1..MaxFetches : WF_vars(\E d \in details : d.no = n /\ AnswerDetail(d))

Spec == Init /\ [][Next]_vars /\ Fairness

-----------------------------------------------------------------------------
(* The details and the error that a modal shows answer a fetch of its own:   *)
(* of its type, asked since it was mounted.  No answer to a modal closed     *)
(* before it, however late, reaches it: address and block modals read        *)
(* different fields of what they are given.  (The key may be an earlier one  *)
(* of the same modal.)                                                       *)
ShowsItsOwn ==
  \A d \in {data, err} \ {Null} : Mine(d) /\ d.type = modal.type /\ d.no >= inst

(* The fetch for the key that an open modal has now is under way, or the     *)
(* details or the error it shows are those of this key: a key that changed   *)
(* under earlier fetches is fetched, and what was shown before does not stay *)
(* (useEffect's dependencies), except that an answer to an earlier key that  *)
(* comes last is shown in its place.                                         *)
NothingForgotten ==
  Open =>
    \/ \E d \in details : Mine(d) /\ d.key = modal.key
    \/ \E d \in {data, err} \ {Null} : d.key = modal.key
    \/ overtaken

(* An open modal stops saying "Loading".                                     *)
Loads == Open ~> (data # Null \/ err # Null \/ ~Open)
=============================================================================
