------------------------ MODULE ExplorerModal_proofs ------------------------
(***************************************************************************)
(* What a modal of the explorer shows, for every number of fetches, blocks *)
(* and addresses, and every order of their answers.                        *)
(***************************************************************************)
EXTENDS ExplorerModal, TLAPS

Types == {"block", "address"}
Keys == Heights \cup Addresses

Fetches == [no : 1..MaxFetches, inst : 1..MaxFetches, type : Types, key : Keys]

(* A fetch is asked for by a modal that is mounted; a later modal has a      *)
(* higher number than every fetch before it.                                 *)
ModalShape ==
  /\ modal = NoModal \/ modal \in [type : Types, key : Keys]
  /\ asked \in 0..MaxFetches /\ inst \in 0..asked /\ (Open => inst # 0)
  /\ details \subseteq Fetches
  /\ \A d \in details : d.inst <= d.no /\ d.no <= asked
  /\ search \in Heights \cup {Null}

(* Whatever is still under way for the modal shown was asked by one of its   *)
(* type: another type mounts anew, and its number is new.                    *)
FetchesAreOwn == \A d \in details : Mine(d) => d.type = modal.type

(* The last fetch is that of the modal shown, for the key it has now.        *)
LastIsCurrent ==
  \A d \in details : Open /\ d.no = asked => d.inst = inst /\ d.key = modal.key

(* NothingForgotten, of the last fetch.                                      *)
LastIsServed ==
  Open =>
    \/ \E d \in details : Mine(d) /\ d.no = asked /\ d.key = modal.key
    \/ \E d \in {data, err} \ {Null} : d.key = modal.key
    \/ overtaken

ModalInv == ModalShape /\ FetchesAreOwn /\ LastIsCurrent /\ ShowsItsOwn /\ LastIsServed

-----------------------------------------------------------------------------
LEMMA InitModal == Init => ModalInv
  <1>1. Init => ~Open /\ modal = NoModal /\ err = Null /\ data = Null /\ details = {}
    BY DEF Init, Open
  <1>2. Init => asked \in 0..MaxFetches /\ inst \in 0..asked /\ search \in Heights \cup {Null}
    BY ModalAssumption DEF Init
  <1> QED
    BY <1>1, <1>2 DEF ModalInv, ModalShape, FetchesAreOwn, LastIsCurrent, ShowsItsOwn, LastIsServed

(* The same modal, the same key: nothing changes.  Otherwise there is one    *)
(* fetch more, for the modal shown before or for a new one.                  *)
LEMMA SetModalStep ==
  ASSUME ModalInv, NEW type \in Types, NEW key \in Keys, setModal(type, key),
         search' \in Heights \cup {Null}
  PROVE  ModalInv'
  <1> USE DEF ModalInv, ModalShape
  <1> DEFINE stays == modal.type = type
             i == IF stays THEN inst ELSE asked + 1
             fetch == [no |-> asked + 1, inst |-> i, type |-> type, key |-> key]
  <1>1. modal' = [type |-> type, key |-> key] /\ Open' /\ inst' = i
    BY DEF setModal, Open, NoModal, Types
  <1>2. stays => Open /\ data' = data /\ err' = err
    BY DEF setModal, Open, NoModal, Types
  <1>3. ~stays => data' = Null /\ err' = Null
    BY DEF setModal
  <1>4. CASE stays /\ modal.key = key
    <2>1. UNCHANGED <<asked, details, overtaken, inst, data, err>>
      BY <1>4 DEF setModal
    <2>2. modal' = modal
      BY <1>1, <1>2, <1>4 DEF Open
    <2> QED
      BY <2>1, <2>2 DEF FetchesAreOwn, LastIsCurrent, ShowsItsOwn, LastIsServed, Mine, Open
  <1>5. CASE ~(stays /\ modal.key = key)
    <2>1. /\ asked < MaxFetches /\ asked' = asked + 1
          /\ details' = details \cup {fetch}
      BY <1>5 DEF setModal, Fetch
    <2>2. asked \in Nat /\ inst \in Nat /\ MaxFetches \in Nat
      BY ModalAssumption
    <2>3. stays => inst # 0
      <3>1. ASSUME stays PROVE inst # 0
        BY <1>2, <3>1 DEF Open
      <3> QED
        BY <3>1
    <2>4. fetch \in Fetches /\ i \in 1..asked'
      BY <2>1, <2>2, <2>3 DEF Fetches
    <2>5. ModalShape'
      <3>1. asked' \in 0..MaxFetches /\ inst' \in 0..asked' /\ inst' # 0
        BY <1>1, <2>1, <2>2, <2>4
      <3>2. \A d \in details' : d \in Fetches
        BY <2>1, <2>4
      <3>3. \A d \in details' : d.inst <= d.no /\ d.no <= asked'
        <4>1. fetch.inst <= fetch.no /\ fetch.no <= asked'
          BY <2>1, <2>2, <2>4
        <4>2. ASSUME NEW d \in details PROVE d.inst <= d.no /\ d.no <= asked'
          <5>1. d \in Fetches /\ d.inst <= d.no /\ d.no <= asked
            OBVIOUS
          <5> QED
            BY <2>1, <2>2, <5>1 DEF Fetches
        <4> QED
          BY <2>1, <4>1, <4>2
      <3> QED
        BY <1>1, <3>1, <3>2, <3>3
    <2>6. ASSUME NEW d \in details PROVE d.no # asked' /\ (d.inst = i => stays)
      <3>1. d \in Fetches /\ d.inst <= d.no /\ d.no <= asked
        OBVIOUS
      <3>2. d.inst \in Nat /\ d.no \in Nat
        BY <2>2, <3>1 DEF Fetches
      <3>3. d.no # asked + 1 /\ d.inst # asked + 1
        BY <2>2, <3>1, <3>2
      <3> QED
        BY <2>1, <3>3
    <2>7. FetchesAreOwn' /\ LastIsCurrent'
      <3>1. ASSUME NEW d \in details, d.inst = i PROVE d.type = modal'.type
        BY <1>1, <1>2, <2>6, <3>1 DEF FetchesAreOwn, Mine
      <3>2. \A d \in details' : d = fetch \/ d \in details
        BY <2>1
      <3>3. FetchesAreOwn'
        BY <1>1, <3>1, <3>2 DEF FetchesAreOwn, Mine
      <3>4. LastIsCurrent'
        BY <1>1, <2>6, <3>2 DEF LastIsCurrent
      <3> QED
        BY <3>3, <3>4
    <2>8. ShowsItsOwn'
      BY <1>1, <1>2, <1>3 DEF ShowsItsOwn, Mine
    <2>9. LastIsServed'
      <3>1. fetch \in details' /\ fetch.no = asked' /\ fetch.inst = inst' /\ fetch.key = modal'.key
        BY <1>1, <2>1
      <3> QED
        BY <1>1, <3>1 DEF LastIsServed, Mine
    <2> QED
      BY <2>5, <2>7, <2>8, <2>9
  <1> QED
    BY <1>4, <1>5

LEMMA AnswerStep ==
  ASSUME ModalInv, NEW d \in details, NEW ok \in BOOLEAN, Answer(d, ok),
         UNCHANGED <<modal, inst, asked, search>>
  PROVE  ModalInv'
  <1> USE DEF ModalInv, ModalShape
  <1>1. details' = details \ {d} /\ Open' = Open /\ \A e : Mine(e)' = Mine(e)
    BY DEF Answer, Open, Mine
  <1>2. d # Null
    BY ModalAssumption DEF Fetches, Types, Keys
  <1>3. FetchesAreOwn' /\ LastIsCurrent'
    BY <1>1 DEF FetchesAreOwn, LastIsCurrent
  <1>4. ShowsItsOwn'
    <2>1. Mine(d) => d.type = modal.type /\ d.no >= inst
      BY DEF FetchesAreOwn, Mine, Fetches
    <2>2. data' \in {data, d} /\ err' \in {err, d} /\ (~Mine(d) => data' = data /\ err' = err)
      BY DEF Answer
    <2> QED
      BY <1>1, <2>1, <2>2 DEF ShowsItsOwn
  <1>5. LastIsServed'
    <2>1. CASE ~Mine(d)
      <3>1. data' = data /\ err' = err /\ (overtaken => overtaken')
        BY <2>1 DEF Answer
      <3> QED
        BY <1>1, <2>1, <3>1 DEF LastIsServed
    <2>2. CASE Mine(d) /\ d.no = asked
      <3>1. d.key = modal.key
        BY <2>2 DEF LastIsCurrent, Mine
      <3>2. d \in {data', err'}
        <4>1. CASE ok
          BY <2>2, <4>1 DEF Answer
        <4>2. CASE ~ok
          BY <2>2, <4>2 DEF Answer
        <4> QED
          BY <4>1, <4>2
      <3> QED
        BY <1>1, <1>2, <3>1, <3>2 DEF LastIsServed
    <2>3. CASE Mine(d) /\ d.no # asked
      <3>1. CASE \E e \in details : e.no = asked /\ Mine(e) /\ e.key = modal.key
        BY <1>1, <2>3, <3>1 DEF LastIsServed
      <3>2. ASSUME NEW e \in details, e.no = asked PROVE Mine(e) /\ e.key = modal.key
        BY <2>3, <3>2 DEF LastIsCurrent, Mine
      <3>3. CASE \A e \in details : e.no # asked
        BY <1>1, <2>3, <3>3 DEF LastIsServed, Answer, Late
      <3> QED
        BY <3>1, <3>2, <3>3
    <2> QED
      BY <2>1, <2>2, <2>3
  <1> QED
    BY <1>1, <1>3, <1>4, <1>5

LEMMA NextModal == ModalInv /\ [Next]_vars => ModalInv'
  <1> SUFFICES ASSUME ModalInv, [Next]_vars PROVE ModalInv'
    OBVIOUS
  <1> USE DEF ModalInv, ModalShape
  <1>1. ASSUME NEW h \in Heights, ClickRow(h) \/ SearchHeight(h) PROVE ModalInv'
    BY <1>1, SetModalStep DEF ClickRow, SearchHeight, Types, Keys
  <1>2. ASSUME NEW a \in Addresses, SearchAddress(a) PROVE ModalInv'
    BY <1>2, SetModalStep DEF SearchAddress, Types, Keys
  <1>3. CASE BlockFound
    BY <1>3, SetModalStep DEF BlockFound, Types, Keys
  <1>4. ASSUME (\E h \in Heights : SearchHash(h)) \/ BlockNotFound PROVE ModalInv'
    BY <1>4 DEF SearchHash, BlockNotFound, shown, Open, Mine, FetchesAreOwn, LastIsCurrent,
                ShowsItsOwn, LastIsServed
  <1>5. ASSUME NEW d \in details, AnswerDetail(d) \/ LoseDetail(d) PROVE ModalInv'
    BY <1>5, AnswerStep DEF AnswerDetail, LoseDetail
  <1>6. CASE Close
    BY <1>6 DEF Close, Open, Mine, FetchesAreOwn, LastIsCurrent, ShowsItsOwn, LastIsServed
  <1>7. CASE UNCHANGED vars
    BY <1>7 DEF vars, shown, Open, Mine, FetchesAreOwn, LastIsCurrent, ShowsItsOwn, LastIsServed
  <1> QED
    BY <1>1, <1>2, <1>3, <1>4, <1>5, <1>6, <1>7 DEF Next

LEMMA ModalInvariant == Spec => []ModalInv
  BY InitModal, NextModal, PTL DEF Spec

(***************************************************************************)
(* No order of late answers, lost answers and searches puts the details of *)
(* a block under an address, or details or an error of a modal closed      *)
(* before into a new one.                                                  *)
(***************************************************************************)
THEOREM ModalsShowTheirOwn == Spec => []ShowsItsOwn
  <1>1. ModalInv => ShowsItsOwn
    BY DEF ModalInv
  <1> QED
    BY <1>1, ModalInvariant, PTL

(***************************************************************************)
(* The key that an open modal has now is fetched, and shown or reported as *)
(* failed when it is answered, until an answer to an earlier key comes     *)
(* after it.                                                               *)
(***************************************************************************)
THEOREM ModalsAreServed == Spec => []NothingForgotten
  <1>1. ModalInv => NothingForgotten
    BY DEF ModalInv, LastIsServed, NothingForgotten
  <1> QED
    BY <1>1, ModalInvariant, PTL

=============================================================================
