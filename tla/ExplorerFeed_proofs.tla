------------------------ MODULE ExplorerFeed_proofs ------------------------
(***************************************************************************)
(* The explorer's feed, for every size of a page, every number of          *)
(* refreshes in flight and every chain the node may have meanwhile.        *)
(* Heights are listed once and never again.  What makes the feed newest    *)
(* first is that an answer is a whole window of the chain: a height below  *)
(* a known one that is not known itself is below the window, too.          *)
(***************************************************************************)
EXTENDS ExplorerFeed, FiniteSetTheorems, WellFoundedInduction, TLAPS

Block == [height : Nat, branch : Nat]

Descends(s) == \A i, j \in DOMAIN s : i < j => s[i].height > s[j].height

EachOnce(s) == \A i, j \in DOMAIN s : s[i].height = s[j].height => i = j

Heights(s) == {b.height : b \in ToSet(s)}

(* The heights of a page whose highest block is at the given one.            *)
Window(top) == {h \in Nat : h <= top /\ top < h + PAGE}

(* What the node answers: the highest blocks of a chain, highest first.      *)
Page(s) ==
  /\ s \in Seq(Block) /\ Len(s) >= 1
  /\ Descends(s)
  /\ Heights(s) = Window(s[1].height)

ChainInv ==
  /\ chain \in Seq(Block) /\ Len(chain) >= 1
  /\ \A i \in DOMAIN chain : chain[i].height = i - 1

CallInv ==
  /\ DOMAIN call = Calls
  /\ \A c \in Calls : /\ DOMAIN call[c] = {"phase", "info", "list"}
                      /\ call[c].list # Blank => Page(call[c].list)
                      /\ call[c].phase = "genesis" => Page(call[c].list)

(* The window under the highest known height is known.                       *)
KnownInv ==
  /\ known \subseteq Nat
  /\ \A h \in known : \E top \in known : h <= top /\ Window(top) \subseteq known
                                         /\ \A k \in known : k <= top

RowsInv ==
  /\ blocks \in Seq(Block) /\ Len(blocks) <= PAGE
  /\ EachOnce(blocks) /\ Heights(blocks) \subseteq known
  /\ overtaken \in BOOLEAN
  /\ ~overtaken => Descends(blocks)

FeedInv == ChainInv /\ CallInv /\ KnownInv /\ RowsInv

-----------------------------------------------------------------------------
(* There is no smallest counterexample: induction over the numbers.          *)
LEMMA LeastNatural ==
  ASSUME NEW T \in SUBSET Nat, T # {}
  PROVE  \E n \in T : \A m \in T : n <= m
  <1> DEFINE R == {p \in Nat \X Nat : p[1] < p[2]}
  <1>1. IsWellFoundedOn(R, Nat)  BY NatLessThanWellFounded DEF OpToRel
  <1>2. PICK n \in T : \A m \in T : <<m, n>> \notin R  BY <1>1, WFMin
  <1>3. ASSUME NEW m \in T PROVE n <= m
    <2>1. <<m, n>> \in Nat \X Nat /\ <<m, n>>[1] = m /\ <<m, n>>[2] = n  OBVIOUS
    <2> QED  BY <1>2, <2>1
  <1> QED  BY <1>3

(* What is not in K of the first n of a list.                                *)
Lot(s, K, n) == {b \in {s[i] : i \in 1..n} : b.height \notin K}

Sorted(S, s) == s \in SetToSeqs(S) /\ Descends(s)

(* One block more, below the others.                                         *)
LEMMA SortedAppend ==
  ASSUME NEW S, IsFiniteSet(S), S \subseteq Block, NEW b \in Block,
         \A x \in S : x.height > b.height, NEW s, Sorted(S, s)
  PROVE  IsFiniteSet(S \cup {b}) /\ \E t : Sorted(S \cup {b}, t)
  <1> DEFINE c == Cardinality(S)
             t == [i \in 1..(c + 1) |-> IF i <= c THEN s[i] ELSE b]
  <1>1. b \notin S  BY DEF Block
  <1>2. IsFiniteSet(S \cup {b}) /\ Cardinality(S \cup {b}) = c + 1 /\ c \in Nat
    BY <1>1, FS_AddElement, FS_CardinalityType
  <1>3. /\ s \in [1..c -> S] /\ Descends(s)
        /\ \A i, j \in 1..c : i # j => s[i] # s[j]
    BY DEF Sorted, SetToSeqs
  <1> HIDE DEF c
  <1>4. t \in [1..(c + 1) -> S \cup {b}]  BY <1>2, <1>3
  <1>5. \A i \in 1..(c + 1) : t[i] = IF i <= c THEN s[i] ELSE b  OBVIOUS
  <1>6. DOMAIN t = 1..(c + 1) /\ DOMAIN s = 1..c  BY <1>3
  <1> HIDE DEF t
  <1>7. ASSUME NEW i \in 1..(c + 1), NEW j \in 1..(c + 1), i < j
        PROVE  t[i].height > t[j].height
    <2>1. i \in 1..c /\ t[i] = s[i] /\ s[i] \in S  BY <1>2, <1>3, <1>5, <1>7
    <2>2. CASE j <= c
      <3>1. j \in 1..c /\ t[j] = s[j]  BY <1>2, <1>5, <2>2
      <3> QED  BY <1>3, <1>6, <1>7, <2>1, <3>1 DEF Descends
    <2>3. CASE ~(j <= c)  BY <1>5, <2>1, <2>3
    <2> QED  BY <2>2, <2>3
  <1>8. ASSUME NEW i \in 1..(c + 1), NEW j \in 1..(c + 1), i # j
        PROVE  t[i] # t[j]
    <2>1. t[i] \in Block /\ t[j] \in Block  BY <1>4
    <2>2. t[i].height \in Nat /\ t[j].height \in Nat  BY <2>1 DEF Block
    <2>3. i < j \/ j < i  BY <1>2, <1>8
    <2> QED  BY <1>7, <2>2, <2>3
  <1>9. Sorted(S \cup {b}, t)
    BY <1>2, <1>4, <1>6, <1>7, <1>8 DEF Sorted, SetToSeqs, Descends
  <1> QED  BY <1>2, <1>9

(* Any part of a list in order can be listed in order.                       *)
LEMMA LotsAreSorted ==
  ASSUME NEW l, l \in Seq(Block), Descends(l), NEW K, NEW n \in 0..Len(l)
  PROVE  IsFiniteSet(Lot(l, K, n)) /\ \E s : Sorted(Lot(l, K, n), s)
  <1> DEFINE P(m) == IsFiniteSet(Lot(l, K, m)) /\ \E s : Sorted(Lot(l, K, m), s)
             T == {m \in 0..Len(l) : ~P(m)}
  <1> SUFFICES ASSUME T # {} PROVE FALSE
    OBVIOUS
  <1>1. PICK m \in T : \A k \in T : m <= k
    <2> HIDE DEF T
    <2>1. T \in SUBSET Nat  BY DEF T
    <2> QED  BY <2>1, LeastNatural
  <1>2. m \in 0..Len(l) /\ Len(l) \in Nat /\ ~P(m)  OBVIOUS
  <1>3. CASE m = 0
    <2>1. Lot(l, K, m) = {}  BY <1>3 DEF Lot
    <2>2. IsFiniteSet({}) /\ Cardinality({}) = 0  BY FS_EmptySet
    <2>3. Sorted({}, [i \in 1..0 |-> 0])  BY <2>2 DEF Sorted, SetToSeqs, Descends
    <2> QED  BY <1>2, <2>1, <2>2, <2>3
  <1>4. CASE m # 0
    <2>1. m - 1 \in 0..Len(l) /\ m \in 1..Len(l) /\ m - 1 \notin T  BY <1>1, <1>2, <1>4
    <2>2. P(m - 1)  BY <2>1
    <2>3. l[m] \in Block /\ DOMAIN l = 1..Len(l)  BY <2>1
    <2>4. 1..m = 1..(m-1) \cup {m}  BY <2>1
    <2>5. CASE l[m].height \in K
      <3>1. Lot(l, K, m) = Lot(l, K, m - 1)  BY <2>4, <2>5 DEF Lot
      <3> QED  BY <1>2, <2>2, <3>1
    <2>6. CASE l[m].height \notin K
      <3>1. Lot(l, K, m) = Lot(l, K, m - 1) \cup {l[m]}  BY <2>4, <2>6 DEF Lot
      <3>2. Lot(l, K, m - 1) \subseteq Block  BY <2>1 DEF Lot
      <3>3. ASSUME NEW x \in Lot(l, K, m - 1) PROVE x.height > l[m].height
        <4>1. PICK i \in 1..(m - 1) : x = l[i]  BY DEF Lot
        <4> QED  BY <2>1, <2>3, <4>1 DEF Descends
      <3>4. PICK S : S = Lot(l, K, m - 1)  OBVIOUS
      <3>5. PICK s : Sorted(S, s)  BY <2>2, <3>4
      <3>6. IsFiniteSet(S) /\ S \subseteq Block /\ \A x \in S : x.height > l[m].height
        BY <2>2, <3>2, <3>3, <3>4
      <3>7. IsFiniteSet(S \cup {l[m]}) /\ \E t : Sorted(S \cup {l[m]}, t)
        BY <2>3, <3>5, <3>6, SortedAppend
      <3> QED  BY <1>2, <3>1, <3>4, <3>7
    <2> QED  BY <2>5, <2>6
  <1> QED  BY <1>3, <1>4

(* The blocks of a list whose height is not in K.                            *)
Fresh(l, K) == {b \in ToSet(l) : b.height \notin K}

(* The blocks of a page that are not known, the highest first.               *)
LEMMA NewestOfPage ==
  ASSUME NEW l, Page(l), NEW K
  PROVE  /\ Newest(Fresh(l, K)) \in Seq(Block) /\ Descends(Newest(Fresh(l, K)))
         /\ ToSet(Newest(Fresh(l, K))) \subseteq Fresh(l, K)
  <1> DEFINE new == Fresh(l, K)
  <1>1. l \in Seq(Block) /\ Descends(l) /\ Len(l) \in Nat /\ DOMAIN l = 1..Len(l)
    BY DEF Page
  <1>2. new = Lot(l, K, Len(l))  BY <1>1 DEF Lot, ToSet, Fresh
  <1> HIDE DEF new
  <1>3. IsFiniteSet(new) /\ \E s : Sorted(new, s)
    <2>1. Len(l) \in 0..Len(l)  BY <1>1
    <2> QED  BY <1>1, <1>2, <2>1, LotsAreSorted
  <1>4. Sorted(new, Newest(new))  BY <1>3 DEF Newest, Sorted, Descends
  <1>5. new \subseteq Block  BY <1>1 DEF ToSet, Fresh, new
  <1>6. Cardinality(new) \in Nat  BY <1>3, FS_CardinalityType
  <1>7. Newest(new) \in [1..Cardinality(new) -> new]  BY <1>4 DEF Sorted, SetToSeqs
  <1> HIDE DEF Newest
  <1>8. Newest(new) \in Seq(new)  BY <1>6, <1>7
  <1> QED  BY <1>4, <1>5, <1>7, <1>8 DEF Sorted, ToSet, new

-----------------------------------------------------------------------------
(* What the node answers is a page.                                          *)
LEMMA LatestIsPage ==
  ASSUME ChainInv
  PROVE  Page(Latest)
  <1> DEFINE n == Len(chain)
             m == IF n > PAGE THEN n - PAGE + 1 ELSE 1
             k == n - m + 1
             s == Latest
  <1>1. /\ n \in Nat /\ n >= 1 /\ PAGE \in Nat /\ PAGE >= 1
        /\ \A i \in 1..n : chain[i] \in Block /\ chain[i].height = i - 1
    BY FeedAssumption DEF ChainInv
  <1>2. m \in 1..n /\ k \in 1..n /\ k <= PAGE /\ (k = PAGE \/ k = n)  BY <1>1
  <1>3. s \in Seq(Block) /\ Len(s) = k /\ \A i \in 1..k : s[i] = chain[n + 1 - i]
    <2>1. PICK u : u = SubSeq(chain, m, n)  OBVIOUS
    <2>2. chain \in Seq(Block)  BY DEF ChainInv
    <2> HIDE DEF m
    <2>3. u \in Seq(Block) /\ Len(u) = k /\ \A i \in 1..k : u[i] = chain[m + i - 1]
      BY <1>2, <2>1, <2>2
    <2>4. s = Reverse(u)  BY <2>1 DEF Latest, m
    <2> HIDE DEF k, s
    <2>5. s = [i \in 1..k |-> u[(k - i) + 1]]  BY <2>3, <2>4 DEF Reverse
    <2>6. ASSUME NEW i \in 1..k PROVE s[i] = chain[n + 1 - i] /\ s[i] \in Block
      <3>1. k - i + 1 \in 1..k /\ m + (k - i + 1) - 1 = n + 1 - i /\ n + 1 - i \in 1..n
        BY <1>1, <1>2 DEF k
      <3> QED  BY <1>1, <2>3, <2>5, <3>1
    <2>7. k \in Nat /\ s \in [1..k -> Block]  BY <1>2, <2>5, <2>6
    <2> QED  BY <2>6, <2>7
  <1> HIDE DEF s, m, k
  <1>4. \A i \in 1..k : s[i].height = n - i
    <2>1. ASSUME NEW i \in 1..k PROVE s[i].height = n - i
      <3>1. n + 1 - i \in 1..n  BY <1>1, <1>2
      <3> QED  BY <1>1, <1>2, <1>3, <3>1
    <2> QED  BY <2>1
  <1>5. DOMAIN s = 1..k  BY <1>2, <1>3
  <1>6. Descends(s)
    <2>1. ASSUME NEW i \in 1..k, NEW j \in 1..k, i < j PROVE s[i].height > s[j].height
      BY <1>1, <1>2, <1>4, <2>1
    <2> QED  BY <1>5, <2>1 DEF Descends
  <1>7. s[1].height = n - 1  BY <1>2, <1>4
  <1>8. Heights(s) = Window(n - 1)
    <2>1. ASSUME NEW i \in 1..k PROVE s[i].height \in Window(n - 1)
      <3>1. s[i].height = n - i  BY <1>4
      <3> QED  BY <1>1, <1>2, <3>1 DEF Window
    <2>2. ASSUME NEW h \in Window(n - 1) PROVE \E i \in 1..k : s[i].height = h
      <3>1. n - h \in 1..k  BY <1>1, <1>2 DEF Window
      <3>2. s[n - h].height = n - (n - h)  BY <1>4, <3>1
      <3> QED  BY <1>1, <3>1, <3>2 DEF Window
    <2> QED  BY <1>5, <2>1, <2>2 DEF Heights, ToSet
  <1> QED  BY <1>2, <1>3, <1>6, <1>7, <1>8 DEF Page, s

(* Every height of a page is known once it is merged, and nothing else new.  *)
LEMMA MergedKnown ==
  ASSUME KnownInv, NEW l, Page(l), known' = known \cup Heights(l)
  PROVE  KnownInv'
  <1> DEFINE top == l[1].height
  <1>1. top \in Nat /\ Heights(l) = Window(top)
    <2>1. l[1] \in Block  BY DEF Page
    <2> QED  BY <2>1 DEF Page, Block
  <1> HIDE DEF top
  <1>2. top \in Window(top) /\ Window(top) \subseteq Nat /\ \A h \in Window(top) : h <= top
    BY <1>1, FeedAssumption DEF Window
  <1>3. known' = known \cup Window(top) /\ known' \subseteq Nat
    BY <1>1, <1>2 DEF KnownInv
  <1>4. ASSUME NEW h \in known'
        PROVE  \E t \in known' : h <= t /\ Window(t) \subseteq known' /\ \A k \in known' : k <= t
    <2>1. CASE \A k \in known : k <= top
      <3>1. \A k \in known' : k <= top  BY <1>2, <1>3, <2>1
      <3>2. top \in known' /\ Window(top) \subseteq known'  BY <1>2, <1>3
      <3> QED  BY <3>1, <3>2
    <2>2. CASE \E k \in known : ~(k <= top)
      <3>1. PICK k \in known : ~(k <= top)  BY <2>2
      <3>2. PICK t \in known : k <= t /\ Window(t) \subseteq known /\ \A j \in known : j <= t
        BY <3>1 DEF KnownInv
      <3>3. \A j \in Window(top) : j <= t
        <4>1. k \in Nat /\ t \in Nat  BY <3>1, <3>2 DEF KnownInv
        <4> QED  BY <1>1, <1>2, <3>1, <3>2, <4>1
      <3>4. t \in known' /\ Window(t) \subseteq known' /\ \A j \in known' : j <= t
        BY <1>3, <3>2, <3>3
      <3> QED  BY <3>4
    <2> QED  BY <2>1, <2>2
  <1> QED  BY <1>3, <1>4 DEF KnownInv

(* A height that a page adds is above all known ones, unless an answer was   *)
(* overtaken.                                                                *)
LEMMA NewIsAbove ==
  ASSUME KnownInv, NEW l, Page(l), \A h \in known : h <= l[1].height,
         NEW h \in Heights(l), h \notin known, NEW k \in known
  PROVE  h > k
  <1> DEFINE top == l[1].height
  <1>1. top \in Nat /\ Heights(l) = Window(top)
    <2>1. l[1] \in Block  BY DEF Page
    <2> QED  BY <2>1 DEF Page, Block
  <1>2. PICK t \in known : k <= t /\ Window(t) \subseteq known
    BY DEF KnownInv
  <1>3. t \in Nat /\ k \in Nat /\ t <= top  BY <1>2 DEF KnownInv
  <1> HIDE DEF top
  <1>4. h \in Nat /\ h <= top /\ top < h + PAGE /\ h \notin Window(t)
    BY <1>1, <1>2 DEF Window
  <1>5. h > t
    <2>1. PAGE \in Nat  BY FeedAssumption
    <2>2. CASE h <= t
      <3>1. t < h + PAGE  BY <1>1, <1>3, <1>4, <2>1
      <3> QED  BY <1>4, <2>2, <3>1 DEF Window
    <2> QED  BY <1>3, <1>4, <2>2
  <1> QED  BY <1>2, <1>3, <1>4, <1>5

(* A page is merged into the feed.                                           *)
LEMMA MergedRows ==
  ASSUME KnownInv, RowsInv, NEW l, Page(l), blocks' = Merged(l),
         known' = known \cup Heights(l),
         overtaken' = (overtaken \/ \E h \in known : h > l[1].height)
  PROVE  RowsInv'
  <1> DEFINE newB == {b \in ToSet(l) : b.height \notin known}
             s    == Newest(newB)
             all  == s \o blocks
             n    == IF Len(all) < PAGE THEN Len(all) ELSE PAGE
             r    == SubSeq(all, 1, n)
  <1>1. PICK new : new = newB  OBVIOUS
  <1>2. s \in Seq(Block) /\ Descends(s) /\ ToSet(s) \subseteq new
    <2>1. PICK K : K = known  OBVIOUS
    <2>2. new = Fresh(l, K)  BY <1>1, <2>1 DEF Fresh
    <2>3. /\ Newest(new) \in Seq(Block) /\ Descends(Newest(new))
          /\ ToSet(Newest(new)) \subseteq new
      BY ONLY <2>2, Page(l), NewestOfPage
    <2> QED  BY <1>1, <2>3
  <1>3. \A b \in new : b.height \in Heights(l) /\ b.height \notin known
    BY <1>1 DEF Heights
  <1>4. blocks \in Seq(Block) /\ EachOnce(blocks)
        /\ \A i \in 1..Len(blocks) : blocks[i].height \in known
    BY DEF RowsInv, Heights, ToSet
  <1>5. PICK u : u = s  OBVIOUS
  <1>6. /\ u \in Seq(Block) /\ Len(u) \in Nat /\ DOMAIN u = 1..Len(u)
        /\ \A i, j \in 1..Len(u) : i < j => u[i].height > u[j].height
        /\ \A i \in 1..Len(u) : u[i].height \in Heights(l) /\ u[i].height \notin known
    <2>1. u \in Seq(Block) /\ Descends(u) /\ ToSet(u) \subseteq new  BY <1>2, <1>5
    <2>2. Len(u) \in Nat /\ DOMAIN u = 1..Len(u)  BY <2>1
    <2>3. ASSUME NEW i \in 1..Len(u) PROVE u[i] \in new  BY <2>1, <2>2, <2>3 DEF ToSet
    <2>4. \A i \in 1..Len(u) : u[i].height \in Heights(l) /\ u[i].height \notin known
      BY <1>3, <2>3
    <2> QED  BY <2>1, <2>2, <2>4 DEF Descends
  <1>7. blocks' = r  BY DEF Merged
  <1>8. all = u \o blocks  BY <1>5
  <1> HIDE DEF newB, s, all
  <1>9. /\ all \in Seq(Block) /\ Len(all) = Len(u) + Len(blocks)
        /\ \A i \in 1..Len(all) : all[i] = IF i <= Len(u) THEN u[i] ELSE blocks[i - Len(u)]
    BY <1>4, <1>6, <1>8
  <1>10. n \in 0..Len(all) /\ n <= PAGE /\ PAGE \in Nat  BY <1>9, FeedAssumption
  <1> HIDE DEF n
  <1>11. r \in Seq(Block) /\ Len(r) = n /\ DOMAIN r = 1..n /\ \A i \in 1..n : r[i] = all[i]
    BY <1>9, <1>10
  <1> HIDE DEF r
  <1>12. ASSUME NEW i \in 1..n
         PROVE  /\ r[i].height \in Nat
                /\ i <= Len(u) => /\ i \in 1..Len(u) /\ r[i] = u[i]
                                  /\ r[i].height \in Heights(l) /\ r[i].height \notin known
                /\ i > Len(u) => /\ i - Len(u) \in 1..Len(blocks)
                                 /\ r[i] = blocks[i - Len(u)] /\ r[i].height \in known
    <2>1. i \in 1..Len(all) /\ r[i] = all[i]  BY <1>9, <1>10, <1>11
    <2>2. r[i].height \in Nat
      <3>1. r[i] \in Block  BY <1>11
      <3> QED  BY <3>1 DEF Block
    <2>3. CASE i <= Len(u)  BY <1>6, <1>9, <2>1, <2>2, <2>3
    <2>4. CASE i > Len(u)
      <3>1. i - Len(u) \in 1..Len(blocks)  BY <1>4, <1>6, <1>9, <2>1, <2>4
      <3>2. r[i] = blocks[i - Len(u)]  BY <1>6, <1>9, <2>1, <2>4
      <3> QED  BY <1>4, <2>2, <2>4, <3>1, <3>2, <1>6
    <2> QED  BY <1>6, <2>3, <2>4
  <1>13. ASSUME NEW i \in 1..n, NEW j \in 1..n, i < j PROVE r[i].height # r[j].height
    <2>1. CASE j <= Len(u)
      <3>1. r[i].height > r[j].height  BY <1>6, <1>10, <1>12, <1>13, <2>1
      <3> QED  BY <1>12, <3>1
    <2>2. CASE i <= Len(u) /\ j > Len(u)  BY <1>12, <2>2
    <2>3. CASE i > Len(u) /\ j > Len(u)
      <3>1. i - Len(u) # j - Len(u)  BY <1>6, <1>10, <1>13
      <3>2. DOMAIN blocks = 1..Len(blocks)  BY <1>4
      <3> QED  BY <1>4, <1>12, <2>3, <3>1, <3>2 DEF EachOnce
    <2> QED  BY <1>6, <1>10, <1>13, <2>1, <2>2, <2>3
  <1>14. EachOnce(r)
    <2>1. \A i, j \in 1..n : i < j \/ j < i \/ i = j  BY <1>10
    <2> QED  BY <1>11, <1>13, <2>1 DEF EachOnce
  <1>15. Heights(r) \subseteq known'
    <2>1. \A i \in 1..n : r[i].height \in known \cup Heights(l)
      <3>1. ASSUME NEW i \in 1..n PROVE i <= Len(u) \/ i > Len(u)  BY <1>6, <1>10
      <3> QED  BY <1>12, <3>1
    <2> QED  BY <1>11, <2>1 DEF Heights, ToSet
  <1>16. ASSUME ~overtaken', NEW i \in 1..n, NEW j \in 1..n, i < j
         PROVE  r[i].height > r[j].height
    <2>1. Descends(blocks) /\ \A h \in known : ~(h > l[1].height)
      BY <1>16 DEF RowsInv
    <2>2. \A h \in known : h <= l[1].height
      <3>1. l[1] \in Block  BY DEF Page
      <3> QED  BY <2>1, <3>1 DEF Block, KnownInv
    <2>3. CASE j <= Len(u)  BY <1>6, <1>10, <1>12, <1>16, <2>3
    <2>4. CASE i <= Len(u) /\ j > Len(u)
      BY <1>12, <2>2, <2>4, NewIsAbove
    <2>5. CASE i > Len(u) /\ j > Len(u)
      <3>1. i - Len(u) < j - Len(u)  BY <1>6, <1>10, <1>16
      <3>2. DOMAIN blocks = 1..Len(blocks)  BY <1>4
      <3> QED  BY <1>12, <2>1, <2>5, <3>1, <3>2 DEF Descends
    <2> QED  BY <1>6, <1>10, <1>16, <2>3, <2>4, <2>5
  <1>17. ~overtaken' => Descends(r)  BY <1>11, <1>16 DEF Descends
  <1>18. overtaken' \in BOOLEAN  OBVIOUS
  <1> QED  BY <1>7, <1>10, <1>11, <1>14, <1>15, <1>17, <1>18 DEF RowsInv

-----------------------------------------------------------------------------
(* One call changes: it never holds a list that is not a page.               *)
LEMMA CallKept ==
  ASSUME CallInv, NEW c \in Calls, NEW r, DOMAIN r = {"phase", "info", "list"},
         r.list # Blank => Page(r.list), r.phase = "genesis" => Page(r.list),
         call' = [call EXCEPT ![c] = r]
  PROVE  CallInv'
  <1>1. DOMAIN call' = Calls  BY DEF CallInv
  <1>2. ASSUME NEW d \in Calls PROVE call'[d] = IF d = c THEN r ELSE call[d]
    BY DEF CallInv
  <1>3. ASSUME NEW d \in Calls
        PROVE  /\ DOMAIN call'[d] = {"phase", "info", "list"}
               /\ call'[d].list # Blank => Page(call'[d].list)
               /\ call'[d].phase = "genesis" => Page(call'[d].list)
    <2>1. CASE d = c
      <3>1. call'[d] = r  BY <1>2, <2>1
      <3> QED  BY <3>1
    <2>2. CASE d # c
      <3>1. call'[d] = call[d]  BY <1>2, <2>2
      <3> QED  BY <3>1 DEF CallInv
    <2> QED  BY <2>1, <2>2
  <1> QED  BY <1>1, <1>3 DEF CallInv

(* One field of a call changes, and the list is a page where it matters.     *)
LEMMA CallAnswered ==
  ASSUME CallInv, NEW c \in Calls, NEW f \in {"phase", "info", "list"}, NEW v,
         f = "list" => Page(v), f = "phase" => (v # "genesis" \/ Page(call[c].list)),
         call' = [call EXCEPT ![c][f] = v]
  PROVE  CallInv'
  <1> DEFINE r == [call[c] EXCEPT ![f] = v]
  <1>1. call' = [call EXCEPT ![c] = r]  OBVIOUS
  <1>2. /\ DOMAIN call[c] = {"phase", "info", "list"}
        /\ call[c].list # Blank => Page(call[c].list)
        /\ call[c].phase = "genesis" => Page(call[c].list)
    BY DEF CallInv
  <1>3. DOMAIN r = {"phase", "info", "list"}  BY <1>2
  <1>4. /\ r.list = IF f = "list" THEN v ELSE call[c].list
        /\ r.phase = IF f = "phase" THEN v ELSE call[c].phase
    BY <1>2
  <1> HIDE DEF r
  <1>5. r.list # Blank => Page(r.list)  BY <1>2, <1>4
  <1>6. r.phase = "genesis" => Page(r.list)  BY <1>2, <1>4
  <1> QED  BY <1>1, <1>3, <1>5, <1>6, CallKept

(* A call that ends.                                                         *)
LEMMA CallEnds ==
  ASSUME CallInv, NEW c \in Calls, call' = [call EXCEPT ![c] = NoCall]
  PROVE  CallInv'
  <1>1. /\ DOMAIN NoCall = {"phase", "info", "list"}
        /\ NoCall.list = Blank /\ NoCall.phase # "genesis"
    BY DEF NoCall
  <1>2. PICK r : r = NoCall  OBVIOUS
  <1> QED  BY <1>1, <1>2, CallKept

(* Nothing of the list changes.                                              *)
LEMMA RowsStay ==
  ASSUME KnownInv, RowsInv, UNCHANGED <<blocks, known, overtaken>>
  PROVE  KnownInv' /\ RowsInv'
  BY DEF KnownInv, RowsInv

(* The end of a call: its page is merged, and the heights are remembered.    *)
LEMMA MergeKeeps ==
  ASSUME FeedInv, NEW c \in Calls, Page(call[c].list), Merge(c), UNCHANGED chain
  PROVE  FeedInv'
  <1>1. PICK l : l = call[c].list  OBVIOUS
  <1>2. Page(l) /\ blocks' = Merged(l) /\ known' = known \cup Heights(l)
        /\ overtaken' = (overtaken \/ \E h \in known : h > l[1].height)
    BY <1>1 DEF Merge, Heights
  <1>3. KnownInv /\ RowsInv /\ ChainInv /\ CallInv  BY DEF FeedInv
  <1>4. KnownInv'  BY <1>2, <1>3, MergedKnown
  <1>5. RowsInv'  BY <1>2, <1>3, MergedRows
  <1>6. CallInv'  BY <1>3, CallEnds DEF Merge
  <1>7. ChainInv'  BY <1>3 DEF ChainInv
  <1> QED  BY <1>4, <1>5, <1>6, <1>7 DEF FeedInv

(* One list behind another.                                                  *)
LEMMA Concatenated ==
  ASSUME NEW S, NEW u \in Seq(S), NEW w \in Seq(S)
  PROVE  u \o w \in Seq(S) /\ Len(u \o w) = Len(u) + Len(w)
  OBVIOUS

(* The node's chain counts its heights, however it is reorganised.           *)
LEMMA ChainCounts ==
  ASSUME ChainInv, Extend \/ Reorganize
  PROVE  ChainInv'
  <1> DEFINE n == Len(chain)
  <1>1. n \in Nat /\ n >= 1 /\ \A i \in 1..n : chain[i] \in Block /\ chain[i].height = i - 1
    BY DEF ChainInv
  <1>2. PICK b \in Nat : Last(chain).branch = b
    <2>1. chain[n] \in Block  BY <1>1
    <2> QED  BY <2>1 DEF Last, Block
  <1>3. CASE Extend
    <2>1. PICK x : x = [height |-> n, branch |-> b]  OBVIOUS
    <2>2. x \in Block /\ x.height = n  BY <1>1, <2>1 DEF Block
    <2>3. chain' = Append(chain, x)
      <3>1. chain' = Append(chain, [height |-> Height + 1, branch |-> Last(chain).branch])
        BY <1>3 DEF Extend
      <3>2. Height + 1 = n  BY <1>1 DEF Height
      <3> QED  BY <1>2, <2>1, <3>1, <3>2
    <2>4. chain \in Seq(Block)  BY DEF ChainInv
    <2>5. /\ chain' \in Seq(Block) /\ Len(chain') = n + 1
          /\ \A i \in 1..(n + 1) : chain'[i] = IF i = n + 1 THEN x ELSE chain[i]
      BY <2>2, <2>3, <2>4
    <2>6. ASSUME NEW i \in 1..(n + 1) PROVE chain'[i].height = i - 1
      <3>1. CASE i = n + 1  BY <1>1, <2>2, <2>5, <3>1
      <3>2. CASE i # n + 1
        <4>1. i \in 1..n /\ chain'[i] = chain[i]  BY <1>1, <2>5, <3>2
        <4> QED  BY <1>1, <4>1
      <3> QED  BY <3>1, <3>2
    <2>7. DOMAIN chain' = 1..(n + 1)  BY <2>5
    <2> QED  BY <1>1, <2>5, <2>6, <2>7 DEF ChainInv
  <1>4. CASE Reorganize
    <2>1. PICK fork \in 0..(Height - 1) :
            chain' = SubSeq(chain, 1, fork + 1) \o
                     [i \in 1..(Height - fork + 1) |->
                        [height |-> fork + i, branch |-> Last(chain).branch + 1]]
      BY <1>4 DEF Reorganize
    <2>2. PICK k : k = Height - fork + 1  OBVIOUS
    <2>3. fork \in Nat /\ fork + 1 \in 1..n /\ k \in Nat
      BY <1>1, <2>1, <2>2 DEF Height
    <2>4. PICK u : u = SubSeq(chain, 1, fork + 1)  OBVIOUS
    <2>5. u \in Seq(Block) /\ Len(u) = fork + 1 /\ \A i \in 1..(fork + 1) : u[i] = chain[i]
      <3>1. chain \in Seq(Block)  BY DEF ChainInv
      <3> QED  BY <1>1, <2>3, <2>4, <3>1
    <2>6. PICK w : w = [i \in 1..k |-> [height |-> fork + i, branch |-> b + 1]]  OBVIOUS
    <2>7. ASSUME NEW i \in 1..k PROVE w[i] \in Block /\ w[i].height = fork + i
      <3>1. fork + i \in Nat /\ b + 1 \in Nat  BY <1>2, <2>3
      <3> QED  BY <2>6, <3>1 DEF Block
    <2>8. w \in Seq(Block) /\ Len(w) = k
      <3>1. w \in [1..k -> Block]  BY <2>6, <2>7
      <3> QED  BY <2>3, <3>1
    <2>9. chain' = u \o w  BY <1>2, <2>1, <2>2, <2>4, <2>6
    <2>10. /\ chain' \in Seq(Block) /\ Len(chain') = fork + 1 + k
           /\ \A i \in 1..(fork + 1 + k) :
                chain'[i] = IF i <= fork + 1 THEN u[i] ELSE w[i - (fork + 1)]
      <3>1. PICK v : v = u \o w  OBVIOUS
      <3>2. v \in Seq(Block)  BY <2>5, <2>8, <3>1
      <3>3. Len(v) = fork + 1 + k
        <4>1. Len(v) = Len(u) + Len(w)  BY <2>5, <2>8, <3>1, Concatenated, Zenon
        <4> QED  BY <2>3, <2>5, <2>8, <4>1
      <3>4. ASSUME NEW i \in 1..(fork + 1 + k)
            PROVE  v[i] = IF i <= fork + 1 THEN u[i] ELSE w[i - (fork + 1)]
        BY <2>3, <2>5, <2>8, <3>1
      <3> QED  BY <2>9, <3>1, <3>2, <3>3, <3>4
    <2>11. ASSUME NEW i \in 1..(fork + 1 + k) PROVE chain'[i].height = i - 1
      <3>1. CASE i <= fork + 1
        <4>1. i \in 1..(fork + 1) /\ i \in 1..n  BY <1>1, <2>3, <3>1
        <4> QED  BY <1>1, <2>5, <2>10, <3>1, <4>1
      <3>2. CASE ~(i <= fork + 1)
        <4>1. i - (fork + 1) \in 1..k /\ chain'[i] = w[i - (fork + 1)]
          BY <2>3, <2>10, <3>2
        <4>2. chain'[i].height = fork + (i - (fork + 1))  BY <2>7, <4>1
        <4> QED  BY <2>3, <4>2
      <3> QED  BY <3>1, <3>2
    <2>12. DOMAIN chain' = 1..(fork + 1 + k)  BY <2>10
    <2> QED  BY <2>3, <2>10, <2>11, <2>12 DEF ChainInv
  <1> QED  BY <1>3, <1>4

(* The page opens with an empty feed.                                        *)
LEMMA FeedOpens == Init => FeedInv
  <1> SUFFICES ASSUME Init PROVE FeedInv
    OBVIOUS
  <1>1. ChainInv
    <2>1. Start + 1 \in Nat /\ Start + 1 >= 1  BY FeedAssumption
    <2>2. chain = [i \in 1..(Start + 1) |-> [height |-> i - 1, branch |-> 0]]  BY DEF Init
    <2>3. \A i \in 1..(Start + 1) : chain[i] \in Block /\ chain[i].height = i - 1
      BY <2>1, <2>2 DEF Block
    <2>4. chain \in [1..(Start + 1) -> Block]  BY <2>2, <2>3
    <2>5. chain \in Seq(Block) /\ Len(chain) = Start + 1 /\ DOMAIN chain = 1..(Start + 1)
      BY <2>1, <2>4
    <2> QED  BY <2>1, <2>3, <2>5 DEF ChainInv
  <1>2. CallInv
    <2>1. call = [c \in Calls |-> NoCall]  BY DEF Init
    <2>2. /\ DOMAIN NoCall = {"phase", "info", "list"}
          /\ NoCall.list = Blank /\ NoCall.phase # "genesis"
      BY DEF NoCall
    <2> QED  BY <2>1, <2>2 DEF CallInv
  <1>3. KnownInv  BY DEF Init, KnownInv
  <1>4. RowsInv
    <2>1. blocks = <<>> /\ overtaken = FALSE  BY DEF Init
    <2>2. blocks \in Seq(Block) /\ Len(blocks) = 0 /\ DOMAIN blocks = {}  BY <2>1
    <2>3. EachOnce(blocks) /\ Descends(blocks)  BY <2>2 DEF EachOnce, Descends
    <2>4. Heights(blocks) = {}  BY <2>2 DEF Heights, ToSet
    <2>5. Len(blocks) <= PAGE  BY <2>2, FeedAssumption
    <2> QED  BY <2>1, <2>2, <2>3, <2>4, <2>5 DEF RowsInv
  <1> QED  BY <1>1, <1>2, <1>3, <1>4 DEF FeedInv

(* Every step of the page, of a fetch and of the node keeps the invariant.   *)
LEMMA FeedGoesOn == FeedInv /\ [Next]_vars => FeedInv'
  <1> SUFFICES ASSUME FeedInv, [Next]_vars PROVE FeedInv'
    OBVIOUS
  <1>1. ChainInv /\ CallInv /\ KnownInv /\ RowsInv  BY DEF FeedInv
  <1>2. ASSUME NEW c \in Calls, refresh(c) PROVE FeedInv'
    <2>1. call' = [call EXCEPT ![c]["phase"] = "asked"]  BY <1>2 DEF refresh
    <2>2. CallInv'  BY <1>1, <2>1, CallAnswered
    <2>3. KnownInv' /\ RowsInv'  BY <1>1, <1>2, RowsStay DEF refresh, feed
    <2>4. ChainInv'  BY <1>1, <1>2 DEF refresh, ChainInv
    <2> QED  BY <2>2, <2>3, <2>4 DEF FeedInv
  <1>3. ASSUME NEW c \in Calls, AnswerInfo(c) PROVE FeedInv'
    <2>1. call' = [call EXCEPT ![c]["info"] = Height]  BY <1>3 DEF AnswerInfo
    <2>2. CallInv'  BY <1>1, <2>1, CallAnswered
    <2>3. KnownInv' /\ RowsInv'  BY <1>1, <1>3, RowsStay DEF AnswerInfo, feed
    <2>4. ChainInv'  BY <1>1, <1>3 DEF AnswerInfo, ChainInv
    <2> QED  BY <2>2, <2>3, <2>4 DEF FeedInv
  <1>4. ASSUME NEW c \in Calls, AnswerLatest(c) PROVE FeedInv'
    <2>1. call' = [call EXCEPT ![c]["list"] = Latest]  BY <1>4 DEF AnswerLatest
    <2>2. PICK l : l = Latest  OBVIOUS
    <2>3. Page(l)  BY <1>1, <2>2, LatestIsPage
    <2>4. CallInv'  BY <1>1, <2>1, <2>2, <2>3, CallAnswered
    <2>5. KnownInv' /\ RowsInv'  BY <1>1, <1>4, RowsStay DEF AnswerLatest, feed
    <2>6. ChainInv'  BY <1>1, <1>4 DEF AnswerLatest, ChainInv
    <2> QED  BY <2>4, <2>5, <2>6 DEF FeedInv
  <1>5. ASSUME NEW c \in Calls, FailRefresh(c) PROVE FeedInv'
    <2>1. CallInv'  BY <1>1, <1>5, CallEnds DEF FailRefresh
    <2>2. KnownInv' /\ RowsInv'  BY <1>1, <1>5, RowsStay DEF FailRefresh
    <2>3. ChainInv'  BY <1>1, <1>5 DEF FailRefresh, ChainInv
    <2> QED  BY <2>1, <2>2, <2>3 DEF FeedInv
  <1>6. ASSUME NEW c \in Calls, Resume(c) PROVE FeedInv'
    <2>1. Page(call[c].list)  BY <1>1, <1>6 DEF CallInv, Resume
    <2>2. CASE genesis = Blank
      <3>1. call' = [call EXCEPT ![c]["phase"] = "genesis"] /\ UNCHANGED <<blocks, known, overtaken>>
        BY <1>6, <2>2 DEF Resume
      <3>2. CallInv'  BY <1>1, <2>1, <3>1, CallAnswered
      <3>3. KnownInv' /\ RowsInv'  BY <1>1, <3>1, RowsStay
      <3>4. ChainInv'  BY <1>1, <1>6 DEF Resume, ChainInv
      <3> QED  BY <3>2, <3>3, <3>4 DEF FeedInv
    <2>3. CASE genesis # Blank
      <3>1. Merge(c) /\ UNCHANGED chain  BY <1>6, <2>3 DEF Resume
      <3> QED  BY <2>1, <3>1, MergeKeeps
    <2> QED  BY <2>2, <2>3
  <1>7. ASSUME NEW c \in Calls, AnswerGenesis(c) \/ FailGenesis(c) PROVE FeedInv'
    <2>1. call[c].phase = "genesis" /\ Merge(c) /\ UNCHANGED chain
      BY <1>7 DEF AnswerGenesis, FailGenesis
    <2>2. Page(call[c].list)  BY <1>1, <2>1 DEF CallInv
    <2> QED  BY <2>1, <2>2, MergeKeeps
  <1>8. CASE Extend \/ Reorganize
    <2>1. ChainInv'  BY <1>1, <1>8, ChainCounts
    <2>2. UNCHANGED <<feed, call>>  BY <1>8 DEF Extend, Reorganize
    <2>3. KnownInv' /\ RowsInv'  BY <1>1, <2>2, RowsStay DEF feed
    <2>4. CallInv'  BY <1>1, <2>2 DEF CallInv
    <2> QED  BY <2>1, <2>3, <2>4 DEF FeedInv
  <1>9. CASE UNCHANGED vars
    <2>1. UNCHANGED <<chain, call, blocks, known, overtaken>>  BY <1>9 DEF vars, feed
    <2>2. KnownInv' /\ RowsInv'  BY <1>1, <2>1, RowsStay
    <2>3. ChainInv' /\ CallInv'  BY <1>1, <2>1 DEF ChainInv, CallInv
    <2> QED  BY <2>2, <2>3 DEF FeedInv
  <1> QED  BY <1>2, <1>3, <1>4, <1>5, <1>6, <1>7, <1>8, <1>9 DEF Next

(* The invariant holds of every run.                                         *)
LEMMA FeedHolds == Spec => []FeedInv
  BY FeedOpens, FeedGoesOn, PTL DEF Spec

(* The feed of the explorer has a page of rows at most and no two of one     *)
(* height, which are the rows' React keys, whichever refreshes overlap, fail *)
(* or wait for the genesis hash and whatever the node reorganises between    *)
(* its answers (newB, the sort and the slice of refresh, Explorer.jsx).      *)
THEOREM RowsHold == Spec => []RowsAreDistinct
  <1>1. FeedInv => RowsAreDistinct
    BY DEF FeedInv, RowsInv, EachOnce, RowsAreDistinct
  <1> QED  BY <1>1, FeedHolds, PTL

(* The feed is newest first for as long as no answer is taken after a newer  *)
(* one: new heights go on top of what is listed (refresh, Explorer.jsx),     *)
(* and an answer, being a whole window of the chain, has no new height       *)
(* below a listed one, blocks dropped off the page included.                 *)
THEOREM FeedIsNewestFirst == Spec => []NewestFirst
  <1>1. FeedInv => NewestFirst
    BY DEF FeedInv, RowsInv, Descends, NewestFirst
  <1> QED  BY <1>1, FeedHolds, PTL


=============================================================================
