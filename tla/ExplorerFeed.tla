---------------------------- MODULE ExplorerFeed ----------------------------
(***************************************************************************)
(* The feed of src/web/src/pages/Explorer.jsx: every refresh puts the      *)
(* blocks it has not seen on top of a list.  Refreshes overlap when the    *)
(* node is slow; each fetch is answered at some moment and taken at a      *)
(* later one.  A block is its height and the branch it is on.              *)
(***************************************************************************)
EXTENDS Integers, SequencesExt

CONSTANTS
  PAGE,        \* blocks fetched, and kept in the feed, 20
  Start,       \* the height of the chain when the page opens
  MaxHeight, MaxBranch, MaxFaults, \* bounds
  Calls,       \* refreshes in flight, a bound
  Blank        \* null

ASSUME FeedAssumption == PAGE \in Nat \ {0} /\ Start \in Nat

VARIABLES
  chain,       \* the node's main chain, chain[h + 1] at height h
  online, info, genesis,
  blocks,      \* the feed
  known,       \* heights ever listed
  call,        \* [Calls -> a call of refresh]
  overtaken,   \* auxiliary: an older answer was taken after a newer one
  buried,      \* auxiliary: since the newest answer, one a page older was taken
  faults

feed  == <<online, info, genesis, blocks, known, overtaken, buried>>
vars  == <<chain, feed, call, faults>>

NoCall == [phase |-> "idle", info |-> Blank, list |-> Blank]

Height == Len(chain) - 1

(* Blocks of different heights, the highest first.                           *)
Newest(bs) ==
  CHOOSE s \in SetToSeqs(bs) : \A i, j \in DOMAIN s : i < j => s[i].height > s[j].height

Latest == Reverse(SubSeq(chain, IF Len(chain) > PAGE THEN Len(chain) - PAGE + 1 ELSE 1, Len(chain)))

Init ==
  /\ chain = [i \in 1..(Start + 1) |-> [height |-> i - 1, branch |-> 0]]
  /\ online = FALSE /\ info = Blank /\ genesis = Blank
  /\ blocks = <<>> /\ known = {}
  /\ call = [c \in Calls |-> NoCall]
  /\ overtaken = FALSE /\ buried = FALSE /\ faults = 0

-----------------------------------------------------------------------------
(* As the page mounts and by a 5-second timer.                               *)
refresh(c) ==
  /\ call[c] = NoCall
  /\ call' = [call EXCEPT ![c].phase = "asked"]
  /\ UNCHANGED <<chain, feed, faults>>

AnswerInfo(c) ==
  /\ call[c].phase = "asked" /\ call[c].info = Blank
  /\ call' = [call EXCEPT ![c].info = Height]
  /\ UNCHANGED <<chain, feed, faults>>

AnswerLatest(c) ==
  /\ call[c].phase = "asked" /\ call[c].list = Blank
  /\ call' = [call EXCEPT ![c].list = Latest]
  /\ UNCHANGED <<chain, feed, faults>>

(* Either request fails.                                                     *)
FailRefresh(c) ==
  /\ call[c].phase = "asked" /\ faults < MaxFaults
  /\ faults' = faults + 1
  /\ online' = FALSE
  /\ call' = [call EXCEPT ![c] = NoCall]
  /\ UNCHANGED <<chain, info, genesis, blocks, known, overtaken, buried>>

(* A mutant: the feed is cut at its new end.                                 *)
Merged_Oldest(list) ==
  LET newB == {b \in ToSet(list) : b.height \notin known}
      all  == Newest(newB) \o blocks
  IN  SubSeq(all, IF Len(all) < PAGE THEN 1 ELSE Len(all) - PAGE + 1, Len(all))

(* A mutant: a block is told from the listed ones by its hash.               *)
Merged_ByBlock(list) ==
  LET newB == {b \in ToSet(list) : b \notin ToSet(blocks)}
      all  == Newest(newB) \o blocks
  IN  SubSeq(all, 1, IF Len(all) < PAGE THEN Len(all) ELSE PAGE)

(* A mutant: the sort of the new blocks the other way round.                *)
Merged_Ascending(list) ==
  LET newB == {b \in ToSet(list) : b.height \notin known}
      all  == Reverse(Newest(newB)) \o blocks
  IN  SubSeq(all, 1, IF Len(all) < PAGE THEN Len(all) ELSE PAGE)

(* Heights not listed before go on top of the feed.                          *)
Merged(list) ==
  LET newB == {b \in ToSet(list) : b.height \notin known}
      all  == Newest(newB) \o blocks
  IN  SubSeq(all, 1, IF Len(all) < PAGE THEN Len(all) ELSE PAGE)

Merge(c) ==
  LET list   == call[c].list
      newest == list[1].height
  IN
  /\ blocks' = Merged(list)
  /\ known' = known \cup {b.height : b \in ToSet(list)}
  /\ overtaken' = (overtaken \/ \E h \in known : h > newest)
  /\ buried' = IF \A h \in known : h < newest THEN FALSE
               ELSE buried \/ \E h \in known : h >= newest + PAGE
  /\ call' = [call EXCEPT ![c] = NoCall]

(* Both answers are there.  Without the genesis hash the call waits once     *)
(* more before it looks at the blocks.                                       *)
Resume(c) ==
  /\ call[c].phase = "asked" /\ call[c].info # Blank /\ call[c].list # Blank
  /\ online' = TRUE
  /\ info' = call[c].info
  /\ IF genesis = Blank
     THEN /\ call' = [call EXCEPT ![c].phase = "genesis"]
          /\ UNCHANGED <<blocks, known, overtaken, buried>>
     ELSE Merge(c)
  /\ UNCHANGED <<chain, genesis, faults>>

AnswerGenesis(c) ==
  /\ call[c].phase = "genesis"
  /\ genesis' = chain[1]
  /\ Merge(c)
  /\ UNCHANGED <<chain, online, info, faults>>

(* Only the hash is left out.                                                *)
FailGenesis(c) ==
  /\ call[c].phase = "genesis" /\ faults < MaxFaults
  /\ faults' = faults + 1
  /\ Merge(c)
  /\ UNCHANGED <<chain, online, info, genesis>>

-----------------------------------------------------------------------------
(* The node's chain grows, or is reorganised onto a longer branch.           *)
Extend ==
  /\ Height < MaxHeight
  /\ chain' = Append(chain, [height |-> Height + 1, branch |-> Last(chain).branch])
  /\ UNCHANGED <<feed, call, faults>>

Reorganize ==
  /\ Height < MaxHeight /\ Last(chain).branch < MaxBranch
  /\ \E fork \in 0..(Height - 1) :
       chain' = SubSeq(chain, 1, fork + 1) \o
                [i \in 1..(Height - fork + 1) |->
                   [height |-> fork + i, branch |-> Last(chain).branch + 1]]
  /\ UNCHANGED <<feed, call, faults>>

Next ==
  \/ \E c \in Calls : \/ refresh(c) \/ AnswerInfo(c) \/ AnswerLatest(c) \/ FailRefresh(c)
                      \/ Resume(c) \/ AnswerGenesis(c) \/ FailGenesis(c)
  \/ Extend \/ Reorganize

(* The timer goes on and every fetch ends; answers that fail are bounded by  *)
(* MaxFaults.                                                                *)
Fairness ==
  \A c \in Calls : /\ WF_vars(refresh(c)) /\ WF_vars(AnswerInfo(c)) /\ WF_vars(AnswerLatest(c))
                   /\ WF_vars(Resume(c)) /\ WF_vars(AnswerGenesis(c))

Spec == Init /\ [][Next]_vars /\ Fairness

-----------------------------------------------------------------------------
(* The feed has a page of rows at most and lists no height twice, as the     *)
(* rows' keys require, whichever refreshes overlapped and whatever was       *)
(* reorganised between them (newB and slice in refresh).                     *)
RowsAreDistinct ==
  /\ Len(blocks) <= PAGE
  /\ \A i, j \in DOMAIN blocks : blocks[i].height = blocks[j].height => i = j

(* The feed is newest first, unless an answer overtook an older one.         *)
NewestFirst ==
  ~overtaken => \A i, j \in DOMAIN blocks : i < j => blocks[i].height > blocks[j].height

(* The rows under the height of the last answer.                             *)
Rows == {b.height : b \in ToSet(blocks)}

(* The feed ends up listing a block at the height of the tip, and the page   *)
(* its height, although refreshes fail, overlap and wait for the genesis     *)
(* hash (refresh and its timer); except that an answer that comes a page or  *)
(* more behind the newest one may fill the feed with older rows, and they    *)
(* stay until the chain grows: heights listed once are not listed again.     *)
TipIsListed == <>[](online /\ info = Height /\ (Height \in Rows \/ buried))
=============================================================================
