-------------------------- MODULE WalletPay_proofs --------------------------
(***************************************************************************)
(* The open wallet for every number of payments under way, every set of    *)
(* outputs and every order of the node's answers: its send button, its     *)
(* history, its cash and its types.                                        *)
(***************************************************************************)
EXTENDS WalletPay, FiniteSetTheorems, WellFoundedInduction, TLAPS

Mounted(j) == job[j].home = "mounted"

JobShape ==
  /\ DOMAIN job = Jobs
  /\ \A j \in Jobs : DOMAIN job[j] = {"phase", "to", "cash", "tx", "home"}
  /\ sending \in BOOLEAN

(* A send of the pay tab shown is the reason, and the only one, why its      *)
(* button is disabled.                                                       *)
OneSend ==
  /\ sending <=> \E j \in Jobs : Mounted(j)
  /\ \A i, j \in Jobs : Mounted(i) /\ Mounted(j) => i = j

ButtonInv == JobShape /\ OneSend

-----------------------------------------------------------------------------
(* When each of the handlers is there to be called.                          *)
LEMMA Offering ==
  /\ "initSend" \in Offered <=> tab = "pay" /\ asked = Blank /\ ~sending
  /\ "onLock" \in Offered <=> tab # "locked" /\ asked = Blank
  /\ "setTab" \in Offered <=> tab # "locked" /\ asked = Blank
  /\ "deleteContact" \in Offered <=> tab # "locked" /\ asked = Blank
  /\ "onSave" \in Offered <=> asked # Blank
  /\ "onSkip" \in Offered <=> asked # Blank
  BY DEF Offered, WalletApp, SettingsModal, SaveContactModal, HomeTab, PayTab

-----------------------------------------------------------------------------
(* At the start nothing is sent.                                            *)
LEMMA InitButton == Init => ButtonInv
  <1> SUFFICES ASSUME Init PROVE ButtonInv
    OBVIOUS
  <1>1. job = [j \in Jobs |-> NoJob] /\ sending = FALSE
    BY DEF Init
  <1>2. DOMAIN NoJob = {"phase", "to", "cash", "tx", "home"} /\ NoJob.home # "mounted"
    BY DEF NoJob
  <1> QED
    BY <1>1, <1>2 DEF ButtonInv, JobShape, OneSend, Mounted

(* No send of the tab is left, and the form is empty.                        *)
LEMMA NothingMounted ==
  ASSUME JobShape', sending' = FALSE, \A j \in Jobs : job'[j].home # "mounted"
  PROVE  ButtonInv'
  BY DEF ButtonInv, OneSend, Mounted

(* The sends of the tab are those of before.                                 *)
LEMMA SameMounted ==
  ASSUME ButtonInv, JobShape', sending' = sending,
         \A j \in Jobs : job'[j].home = "mounted" <=> job[j].home = "mounted"
  PROVE  ButtonInv'
  BY DEF ButtonInv, OneSend, Mounted

(* onSuccess goes home, which unmounts the pay tab.                          *)
LEMMA SuccessStep ==
  ASSUME NEW js, DOMAIN js = Jobs,
         \A j \in Jobs : DOMAIN js[j] = {"phase", "to", "cash", "tx", "home"},
         onSuccess(js)
  PROVE  ButtonInv'
  <1>1. sending' = FALSE /\ job' = Unmounted(js)
    BY DEF onSuccess, ClearForm
  <1>2. \A j \in Jobs : /\ job'[j].home # "mounted"
                        /\ DOMAIN job'[j] = {"phase", "to", "cash", "tx", "home"}
    BY <1>1 DEF Unmounted
  <1>3. JobShape'
    BY <1>1, <1>2 DEF JobShape, Unmounted
  <1> QED
    BY <1>1, <1>2, <1>3, NothingMounted

(* The tab is left, locked or reloaded.                                      *)
LEMMA LeaveStep ==
  ASSUME ButtonInv, Lock \/ Reload \/ LeavePay
  PROVE  ButtonInv'
  <1>1. sending' = FALSE
    BY DEF Lock, Reload, LeavePay, ClearForm
  <1>2. job' = [j \in Jobs |-> [job[j] EXCEPT !.home = "gone"]] \/ job' = Unmounted(job)
        \/ job' = [j \in Jobs |-> NoJob]
    BY DEF Lock, Reload, LeavePay
  <1>3. DOMAIN job' = Jobs
    BY <1>2 DEF Unmounted
  <1>4. \A j \in Jobs : /\ job'[j].home # "mounted"
                        /\ DOMAIN job'[j] = {"phase", "to", "cash", "tx", "home"}
    BY <1>2 DEF Unmounted, NoJob, ButtonInv, JobShape
  <1>5. JobShape'
    BY <1>1, <1>3, <1>4 DEF JobShape
  <1> QED
    BY <1>1, <1>4, <1>5, NothingMounted

(* A send starts only where the button is free.                              *)
LEMMA StartStep ==
  ASSUME ButtonInv, NEW j \in Jobs, NEW to, NEW cash, initSend(j, to, cash)
  PROVE  ButtonInv'
  <1>1. sending' = TRUE /\ \A i \in Jobs : ~Mounted(i)
    BY Offering DEF initSend, ButtonInv, OneSend
  <1>2. /\ DOMAIN job' = Jobs /\ job'[j].home = "mounted"
        /\ DOMAIN job'[j] = {"phase", "to", "cash", "tx", "home"}
        /\ \A i \in Jobs \ {j} : job'[i] = job[i]
    BY DEF initSend, ButtonInv, JobShape
  <1> QED
    BY <1>1, <1>2 DEF ButtonInv, JobShape, OneSend, Mounted

(* A send under way keeps the home it has.                                   *)
LEMMA FetchStep ==
  ASSUME ButtonInv, NEW j \in Jobs, AnswerUTXOs(j) \/ Post(j) \/ LoseRequest(j)
  PROVE  ButtonInv'
  <1>1. sending' = sending
    BY DEF AnswerUTXOs, Post, LoseRequest, form
  <1>2. DOMAIN job' = Jobs /\ \A i \in Jobs \ {j} : job'[i] = job[i]
    BY DEF AnswerUTXOs, Post, LoseRequest, ButtonInv, JobShape
  <1>3. job'[j].home = job[j].home /\ DOMAIN job'[j] = DOMAIN job[j]
    <2> USE DEF ButtonInv, JobShape
    <2>1. CASE AnswerUTXOs(j)
      <3>1. PICK tx, phase : job' = [job EXCEPT ![j].tx = tx, ![j].phase = phase]
        BY <2>1 DEF AnswerUTXOs
      <3>2. job'[j] = [job[j] EXCEPT !.tx = tx, !.phase = phase]
        BY <3>1
      <3> QED
        BY <3>2
    <2>2. CASE Post(j) \/ LoseRequest(j)
      <3>1. PICK phase : job' = [job EXCEPT ![j].phase = phase]
        BY <2>2 DEF Post, LoseRequest
      <3> QED
        BY <3>1
    <2> QED
      BY <2>1, <2>2
  <1> QED
    BY <1>1, <1>2, <1>3, SameMounted DEF ButtonInv, JobShape

(* A send that ends frees the button if it is this tab's.                    *)
LEMMA EndStep ==
  ASSUME ButtonInv, NEW j \in Jobs, job' = [job EXCEPT ![j] = NoJob],
         sending' = IF job[j].home = "mounted" THEN FALSE ELSE sending
  PROVE  ButtonInv'
  <1>1. /\ DOMAIN job' = Jobs /\ job'[j].home = "gone"
        /\ DOMAIN job'[j] = {"phase", "to", "cash", "tx", "home"}
        /\ \A i \in Jobs \ {j} : job'[i] = job[i]
    BY DEF NoJob, ButtonInv, JobShape
  <1>2. JobShape'
    BY <1>1 DEF ButtonInv, JobShape
  <1>3. CASE Mounted(j)
    BY <1>1, <1>2, <1>3, NothingMounted DEF ButtonInv, OneSend, Mounted
  <1>4. CASE ~Mounted(j)
    BY <1>1, <1>2, <1>4, SameMounted DEF Mounted
  <1> QED
    BY <1>3, <1>4

(* A send that succeeds ends so, or goes home.                              *)
LEMMA FinishStep ==
  ASSUME ButtonInv, NEW j \in Jobs, FinishSend(j)
  PROVE  ButtonInv'
  <1> DEFINE js == [job EXCEPT ![j] = NoJob]
  <1>1. CASE onSuccess(js)
    <2>1. /\ DOMAIN js = Jobs
          /\ \A i \in Jobs : DOMAIN js[i] = {"phase", "to", "cash", "tx", "home"}
      BY DEF NoJob, ButtonInv, JobShape
    <2> HIDE DEF js
    <2> QED
      BY <1>1, <2>1, SuccessStep
  <1>2. CASE ~onSuccess(js)
    <2>1. job' = js
      BY <1>2 DEF FinishSend
    <2>2. sending' = IF job[j].home = "mounted" THEN FALSE ELSE sending
      BY <1>2 DEF FinishSend, form
    <2> QED
      BY <2>1, <2>2, EndStep
  <1> QED
    BY <1>1, <1>2

(* Every step keeps the button in step.                                     *)
LEMMA NextButton == ButtonInv /\ [Next]_vars => ButtonInv'
  <1> SUFFICES ASSUME ButtonInv, [Next]_vars PROVE ButtonInv'
    OBVIOUS
  <1>1. CASE UNCHANGED <<job, sending>>
    BY <1>1, SameMounted DEF ButtonInv, JobShape
  <1>2. CASE Lock \/ Reload \/ LeavePay
    BY <1>2, LeaveStep
  <1>3. ASSUME NEW j \in Jobs, NEW to, NEW cash, initSend(j, to, cash) PROVE ButtonInv'
    BY <1>3, StartStep
  <1>4. ASSUME NEW j \in Jobs, AnswerUTXOs(j) \/ Post(j) \/ LoseRequest(j) PROVE ButtonInv'
    BY <1>4, FetchStep
  <1>5. ASSUME NEW j \in Jobs, FinishSend(j) PROVE ButtonInv'
    BY <1>5, FinishStep
  <1>6. ASSUME NEW j \in Jobs, FailSend(j) PROVE ButtonInv'
    BY <1>6, EndStep DEF FailSend
  <1>7. CASE saveContact \/ SkipContact
    BY <1>7, SuccessStep DEF saveContact, SkipContact, ButtonInv, JobShape
  <1>8. ASSUME Unlock \/ refresh \/ OpenPay \/ PayAgain \/ \E a \in contacts : deleteContact(a)
        PROVE  UNCHANGED <<job, sending>>
    BY <1>8 DEF Unlock, refresh, OpenPay, PayAgain, deleteContact, form
  <1>9. ASSUME NEW l \in Loads,
               AnswerBalance(l) \/ AnswerOutputs(l) \/ Refuse(l) \/ setBalance(l) \/ FailRefresh(l)
        PROVE  UNCHANGED <<job, sending>>
    BY <1>9 DEF AnswerBalance, AnswerOutputs, Refuse, setBalance, FailRefresh, form
  <1>10. ASSUME (\E tx \in taken : Confirm(tx)) \/ (\E o \in outs : Mature(o))
         PROVE  UNCHANGED <<job, sending>>
    BY <1>10 DEF Confirm, Mature, form
  <1>11. UNCHANGED vars => UNCHANGED <<job, sending>>
    BY DEF vars, form
  <1> QED
    BY <1>1, <1>2, <1>3, <1>4, <1>5, <1>6, <1>7, <1>8, <1>9, <1>10, <1>11 DEF Next

(***************************************************************************)
(* The button is disabled exactly while a send of the pay tab shown runs;  *)
(* sends of tabs left earlier, and their late answers, do not touch it.    *)
(***************************************************************************)
THEOREM ButtonIsBusy == SafetySpec => []BusyWhileSending
  <1>1. ButtonInv => BusyWhileSending
    BY DEF ButtonInv, JobShape, OneSend, Mounted, BusyWhileSending, NoJob
  <1> QED
    BY InitButton, NextButton, <1>1, PTL DEF SafetySpec

-----------------------------------------------------------------------------
(***************************************************************************)
(* Sums over a finite set.  An induction over its subsets is a proof that  *)
(* no smallest counterexample exists.                                      *)
(***************************************************************************)
LEMMA SmallestSet ==
  ASSUME NEW S, IsFiniteSet(S), NEW T \in SUBSET (SUBSET S), T # {}
  PROVE  \E x \in T : \A y \in SUBSET x : y # x => y \notin T
  <1>1. IsWellFoundedOn(StrictSubsetOrdering(S), SUBSET S)
    BY FS_StrictSubsetOrderingWellFounded, FS_FiniteSubsetsOfFinite
  <1>2. PICK x \in T : \A y \in T : <<y, x>> \notin StrictSubsetOrdering(S)
    BY <1>1, WFMin
  <1> QED
    BY <1>2 DEF StrictSubsetOrdering

(* The same for numbers.                                                     *)
LEMMA LeastNatural ==
  ASSUME NEW T \in SUBSET Nat, T # {}
  PROVE  \E n \in T : \A m \in T : n <= m
  <1> DEFINE R == {p \in Nat \X Nat : p[1] < p[2]}
  <1>1. IsWellFoundedOn(R, Nat)  BY NatLessThanWellFounded DEF OpToRel
  <1>2. PICK n \in T : \A m \in T : <<m, n>> \notin R  BY <1>1, WFMin
  <1>3. ASSUME NEW m \in T PROVE n <= m
    <2>1. <<m, n>> \in Nat \X Nat /\ <<m, n>>[1] = m /\ <<m, n>>[2] = n  OBVIOUS
    <2> QED  BY <1>2, <2>1
  <1> QED  BY <1>3

Pick(s) == CHOOSE x \in s : TRUE
Rest(s) == s \ {Pick(s)}

(* What is picked is there, and less is left.                               *)
LEMMA PickIsIn == ASSUME NEW s, s # {} PROVE Pick(s) \in s /\ Rest(s) \in SUBSET s /\ Rest(s) # s
  BY DEF Pick, Rest

(* The function that SumFunctionOnSet computes along the way.                *)
Adds(iter, f, S) ==
  iter = [s \in SUBSET S |-> IF s = {} THEN 0 ELSE f[Pick(s)] + iter[s \ {Pick(s)}]]

(* The sum is its value on the whole set.                                   *)
LEMMA SumIsAdds ==
  ASSUME NEW f, NEW S
  PROVE  SumFunctionOnSet(f, S) = (CHOOSE iter : Adds(iter, f, S))[S]
  BY DEF SumFunctionOnSet, FoldFunctionOnSet, MapThenFoldSet, Adds, Pick

(* Its value on a set, one element at a time.                               *)
LEMMA AddsEquation ==
  ASSUME NEW f, NEW S, NEW g, Adds(g, f, S), NEW s \in SUBSET S
  PROVE  /\ s = {} => g[s] = 0
         /\ s # {} => g[s] = f[Pick(s)] + g[Rest(s)]
  BY DEF Adds, Rest

(* Two such functions agree, whatever sets they are computed on.            *)
LEMMA AddsIsUnique ==
  ASSUME NEW f, NEW S, NEW R \in SUBSET S, IsFiniteSet(R),
         NEW g, Adds(g, f, S), NEW h, Adds(h, f, R)
  PROVE  g[R] = h[R]
  <1> DEFINE T == {s \in SUBSET R : g[s] # h[s]}
  <1> SUFFICES ASSUME T # {} PROVE FALSE
    OBVIOUS
  <1>1. PICK x \in T : \A y \in SUBSET x : y # x => y \notin T
    <2> HIDE DEF T
    <2>1. T \in SUBSET (SUBSET R)  BY DEF T
    <2> QED  BY <2>1, SmallestSet
  <1>2. x \in SUBSET S /\ x \in SUBSET R
    OBVIOUS
  <1>3. CASE x = {}
    BY <1>2, <1>3, AddsEquation
  <1>4. CASE x # {}
    <2>1. g[x] = f[Pick(x)] + g[Rest(x)] /\ h[x] = f[Pick(x)] + h[Rest(x)]
      BY <1>2, <1>4, AddsEquation
    <2>2. g[Rest(x)] = h[Rest(x)]
      BY <1>1, <1>2, <1>4, PickIsIn
    <2> QED
      BY <2>1, <2>2
  <1> QED
    BY <1>3, <1>4

(* There is one, for every finite set.                                      *)
LEMMA AddsExists ==
  ASSUME NEW f, NEW S, IsFiniteSet(S)
  PROVE  \E g : Adds(g, f, S)
  <1> DEFINE T == {s \in SUBSET S : ~\E g : Adds(g, f, s)}
  <1> SUFFICES ASSUME T # {} PROVE FALSE
    OBVIOUS
  <1>1. PICK x \in T : \A y \in SUBSET x : y # x => y \notin T
    <2> HIDE DEF T
    <2>1. T \in SUBSET (SUBSET S)  BY DEF T
    <2> QED  BY <2>1, SmallestSet
  <1> DEFINE h(s) == CHOOSE g : Adds(g, f, s)
             G == [s \in SUBSET x |-> IF s = {} THEN 0 ELSE f[Pick(s)] + h(Rest(s))[Rest(s)]]
  <1>2. ASSUME NEW y \in SUBSET x, y # x PROVE Adds(h(y), f, y)
    <2>1. \E g : Adds(g, f, y)  BY <1>1, <1>2
    <2> QED  BY <2>1
  <1> HIDE DEF h
  <1>3. ASSUME NEW s \in SUBSET x, s # x PROVE G[s] = h(s)[s]
    <2>1. Adds(h(s), f, s) /\ s \in SUBSET s  BY <1>2, <1>3
    <2>2. CASE s = {}  BY <2>1, <2>2, AddsEquation
    <2>3. CASE s # {}
      <3>1. h(s)[s] = f[Pick(s)] + h(s)[Rest(s)]
        BY <2>1, <2>3, AddsEquation
      <3>2. Rest(s) \in SUBSET s /\ Rest(s) \in SUBSET x /\ Rest(s) # x
        BY <1>3, <2>3, PickIsIn
      <3>3. Adds(h(Rest(s)), f, Rest(s))  BY <1>2, <3>2
      <3>4. IsFiniteSet(Rest(s))  BY <3>2, FS_Subset
      <3>5. h(s)[Rest(s)] = h(Rest(s))[Rest(s)]
        BY <2>1, <3>2, <3>3, <3>4, AddsIsUnique
      <3> QED  BY <2>3, <3>1, <3>5
    <2> QED  BY <2>2, <2>3
  <1>4. Adds(G, f, x)
    <2>1. ASSUME NEW s \in SUBSET x
          PROVE  G[s] = IF s = {} THEN 0 ELSE f[Pick(s)] + G[s \ {Pick(s)}]
      <3>1. CASE s = {}  BY <3>1
      <3>2. CASE s # {}
        <4>1. Rest(s) \in SUBSET x /\ Rest(s) # x
          BY <3>2, PickIsIn
        <4>2. G[Rest(s)] = h(Rest(s))[Rest(s)]  BY <1>3, <4>1
        <4> QED  BY <3>2, <4>2 DEF Rest
      <3> QED  BY <3>1, <3>2
    <2> QED  BY <2>1 DEF Adds
  <1> QED
    BY <1>1, <1>4

(* A sum is its picked element and the sum of the rest.                     *)
LEMMA SumEquation ==
  ASSUME NEW f, NEW S, IsFiniteSet(S)
  PROVE  /\ S = {} => SumFunctionOnSet(f, S) = 0
         /\ S # {} => SumFunctionOnSet(f, S) = f[Pick(S)] + SumFunctionOnSet(f, Rest(S))
  <1> DEFINE h(s) == CHOOSE g : Adds(g, f, s)
  <1>1. ASSUME NEW s \in SUBSET S PROVE Adds(h(s), f, s) /\ SumFunctionOnSet(f, s) = h(s)[s]
    <2>1. \E g : Adds(g, f, s)  BY AddsExists, FS_Subset
    <2> QED  BY <2>1, SumIsAdds
  <1> HIDE DEF h
  <1>2. CASE S = {}
    <2>1. Adds(h(S), f, S) /\ SumFunctionOnSet(f, S) = h(S)[S]  BY <1>1
    <2>2. h(S)[S] = 0  BY <1>2, <2>1, AddsEquation
    <2> QED  BY <1>2, <2>1, <2>2
  <1>3. CASE S # {}
    <2>1. h(S)[S] = f[Pick(S)] + h(S)[Rest(S)]  BY <1>1, <1>3, AddsEquation
    <2>2. Rest(S) \in SUBSET S  BY <1>3, PickIsIn
    <2>3. IsFiniteSet(Rest(S))  BY <2>2, FS_Subset
    <2>4. h(S)[Rest(S)] = h(Rest(S))[Rest(S)]  BY <1>1, <2>2, <2>3, AddsIsUnique
    <2> QED  BY <1>1, <1>3, <2>1, <2>2, <2>4
  <1> QED  BY <1>2, <1>3

(* A sum of numbers is a number.                                            *)
LEMMA SumType ==
  ASSUME NEW S, IsFiniteSet(S), NEW f, \A x \in S : f[x] \in Nat
  PROVE  SumFunctionOnSet(f, S) \in Nat
  <1> DEFINE T == {s \in SUBSET S : SumFunctionOnSet(f, s) \notin Nat}
  <1> SUFFICES ASSUME T # {} PROVE FALSE
    OBVIOUS
  <1>1. PICK x \in T : \A y \in SUBSET x : y # x => y \notin T
    <2> HIDE DEF T
    <2>1. T \in SUBSET (SUBSET S)  BY DEF T
    <2> QED  BY <2>1, SmallestSet
  <1>2. x \in SUBSET S /\ IsFiniteSet(x)  BY FS_Subset
  <1>3. CASE x = {}
    <2>1. SumFunctionOnSet(f, x) = 0  BY <1>2, <1>3, SumEquation
    <2> QED  BY <2>1
  <1>4. CASE x # {}
    <2>1. Pick(x) \in S /\ Rest(x) \in SUBSET S /\ Rest(x) \notin T
      BY <1>1, <1>2, <1>4, PickIsIn
    <2>2. f[Pick(x)] \in Nat /\ SumFunctionOnSet(f, Rest(x)) \in Nat  BY <2>1
    <2> QED  BY <1>2, <1>4, <2>2, SumEquation
  <1> QED  BY <1>3, <1>4

(* It does not matter which element is added last.                           *)
LEMMA SumRemove ==
  ASSUME NEW S, IsFiniteSet(S), NEW f, \A x \in S : f[x] \in Nat, NEW e \in S
  PROVE  SumFunctionOnSet(f, S) = f[e] + SumFunctionOnSet(f, S \ {e})
  <1> DEFINE Sum(s) == SumFunctionOnSet(f, s)
             T == {s \in SUBSET S : \E y \in s : Sum(s) # f[y] + Sum(s \ {y})}
  <1> SUFFICES ASSUME T # {} PROVE FALSE
    OBVIOUS
  <1>1. PICK x \in T : \A y \in SUBSET x : y # x => y \notin T
    <2> HIDE DEF T
    <2>1. T \in SUBSET (SUBSET S)  BY DEF T
    <2> QED  BY <2>1, SmallestSet
  <1>2. PICK y \in x : Sum(x) # f[y] + Sum(x \ {y})
    OBVIOUS
  <1>3. x \in SUBSET S /\ IsFiniteSet(x) /\ x # {}  BY FS_Subset
  <1> DEFINE c == Pick(x)
  <1>4. c \in x /\ Sum(x) = f[c] + Sum(x \ {c})
    BY <1>3, SumEquation, PickIsIn DEF Rest
  <1>5. c # y  BY <1>2, <1>4
  <1>6. x \ {c} \notin T /\ x \ {y} \notin T  BY <1>1, <1>4
  <1>7. Sum(x \ {c}) = f[y] + Sum((x \ {c}) \ {y})
    BY <1>3, <1>5, <1>6
  <1>8. Sum(x \ {y}) = f[c] + Sum((x \ {y}) \ {c})
    BY <1>3, <1>4, <1>5, <1>6
  <1>9. (x \ {c}) \ {y} = (x \ {y}) \ {c}  OBVIOUS
  <1>10. Sum((x \ {c}) \ {y}) \in Nat
    <2>1. IsFiniteSet((x \ {c}) \ {y})  BY <1>3, FS_Subset
    <2> QED  BY <1>3, <2>1, SumType
  <1>11. f[c] \in Nat /\ f[y] \in Nat  BY <1>3, <1>4
  <1> HIDE DEF Sum, c
  <1> QED  BY <1>2, <1>4, <1>7, <1>8, <1>9, <1>10, <1>11

(* Nor which is added first.                                                *)
LEMMA SumAdd ==
  ASSUME NEW S, IsFiniteSet(S), NEW f, NEW e, e \notin S, \A x \in S \cup {e} : f[x] \in Nat
  PROVE  /\ IsFiniteSet(S \cup {e})
         /\ SumFunctionOnSet(f, S \cup {e}) = f[e] + SumFunctionOnSet(f, S)
  <1>1. IsFiniteSet(S \cup {e})  BY FS_AddElement
  <1>2. (S \cup {e}) \ {e} = S  OBVIOUS
  <1>3. e \in S \cup {e}  OBVIOUS
  <1>4. SumFunctionOnSet(f, S \cup {e}) = f[e] + SumFunctionOnSet(f, (S \cup {e}) \ {e})
    BY <1>1, <1>3, SumRemove
  <1> QED  BY <1>1, <1>2, <1>4

(* A sum depends on what the function says of the set only.                 *)
LEMMA SumSame ==
  ASSUME NEW S, IsFiniteSet(S), NEW f, NEW g, \A x \in S : f[x] = g[x]
  PROVE  SumFunctionOnSet(f, S) = SumFunctionOnSet(g, S)
  <1> DEFINE T == {s \in SUBSET S : SumFunctionOnSet(f, s) # SumFunctionOnSet(g, s)}
  <1> SUFFICES ASSUME T # {} PROVE FALSE
    OBVIOUS
  <1>1. PICK x \in T : \A y \in SUBSET x : y # x => y \notin T
    <2> HIDE DEF T
    <2>1. T \in SUBSET (SUBSET S)  BY DEF T
    <2> QED  BY <2>1, SmallestSet
  <1>2. x \in SUBSET S /\ IsFiniteSet(x)  BY FS_Subset
  <1>3. CASE x = {}  BY <1>2, <1>3, SumEquation
  <1>4. CASE x # {}
    <2>1. Pick(x) \in S /\ Rest(x) \in SUBSET S /\ Rest(x) \notin T
      BY <1>1, <1>2, <1>4, PickIsIn
    <2>2. SumFunctionOnSet(f, Rest(x)) = SumFunctionOnSet(g, Rest(x))  BY <2>1
    <2> QED  BY <1>2, <1>4, <2>1, <2>2, SumEquation
  <1> QED  BY <1>3, <1>4

(* Two parts add up to the whole.                                           *)
LEMMA SumSplit ==
  ASSUME NEW A, IsFiniteSet(A), NEW B, IsFiniteSet(B), A \cap B = {},
         NEW f, \A x \in A \cup B : f[x] \in Nat
  PROVE  SumFunctionOnSet(f, A \cup B) = SumFunctionOnSet(f, A) + SumFunctionOnSet(f, B)
  <1> DEFINE Sum(s) == SumFunctionOnSet(f, s)
             T == {s \in SUBSET B : Sum(A \cup s) # Sum(A) + Sum(s)}
  <1> SUFFICES ASSUME T # {} PROVE FALSE
    OBVIOUS
  <1>1. PICK x \in T : \A y \in SUBSET x : y # x => y \notin T
    <2> HIDE DEF T
    <2>1. T \in SUBSET (SUBSET B)  BY DEF T
    <2> QED  BY <2>1, SmallestSet
  <1>2. x \in SUBSET B /\ IsFiniteSet(x) /\ Sum(A) \in Nat
    BY FS_Subset, SumType
  <1>3. CASE x = {}
    <2>1. A \cup x = A /\ Sum(x) = 0  BY <1>2, <1>3, SumEquation
    <2> QED  BY <1>2, <2>1
  <1>4. CASE x # {}
    <2> DEFINE c == Pick(x)
               r == Rest(x)
    <2>1. /\ c \in x /\ c \notin A /\ r \in SUBSET x /\ r # x /\ x = r \cup {c} /\ c \notin r
      BY <1>2, <1>4, PickIsIn DEF Rest
    <2>2. r \notin T /\ r \in SUBSET B /\ IsFiniteSet(r)  BY <1>1, <1>2, <2>1, FS_Subset
    <2>3. Sum(A \cup r) = Sum(A) + Sum(r)  BY <2>2
    <2>4. IsFiniteSet(A \cup r) /\ c \notin A \cup r  BY <2>1, <2>2, FS_Union
    <2>5. \A z \in (A \cup r) \cup {c} : f[z] \in Nat  BY <1>2, <2>1
    <2>6. Sum((A \cup r) \cup {c}) = f[c] + Sum(A \cup r)  BY <2>4, <2>5, SumAdd
    <2>7. Sum(x) = f[c] + Sum(r)  BY <2>1, <2>2, <2>5, SumAdd
    <2>8. (A \cup r) \cup {c} = A \cup x  BY <2>1
    <2>9. Sum(r) \in Nat /\ f[c] \in Nat  BY <2>2, <2>5, SumType
    <2> HIDE DEF c, r, Sum
    <2> QED  BY <1>2, <2>3, <2>6, <2>7, <2>8, <2>9
  <1> QED  BY <1>3, <1>4

-----------------------------------------------------------------------------
(* What each step does to the payments under way.                            *)

Kept(i) == /\ job'[i].phase = job[i].phase /\ job'[i].tx = job[i].tx
           /\ job'[i].to = job[i].to /\ job'[i].cash = job[i].cash

(* The steps that only move them to another home, or do nothing to them.     *)
Elsewhere ==
  \/ Unlock \/ Lock \/ refresh \/ OpenPay \/ PayAgain \/ LeavePay
  \/ \E l \in Loads : \/ AnswerBalance(l) \/ AnswerOutputs(l) \/ Refuse(l)
                      \/ setBalance(l) \/ FailRefresh(l)
  \/ saveContact \/ SkipContact \/ \E a \in contacts : deleteContact(a)
  \/ \E tx \in taken : Confirm(tx)
  \/ \E o \in outs : Mature(o)

(* They leave every payment as it is.                                       *)
LEMMA ElsewhereKeeps ==
  ASSUME JobShape, Elsewhere
  PROVE  \A i \in Jobs : Kept(i)
  <1>1. CASE Lock
    <2>1. job' = [j \in Jobs |-> [job[j] EXCEPT !.home = "gone"]]  BY <1>1 DEF Lock
    <2>2. \A i \in Jobs : job'[i] = [job[i] EXCEPT !.home = "gone"]  BY <2>1
    <2> QED  BY <2>2 DEF Kept, JobShape
  <1>2. CASE LeavePay \/ saveContact \/ SkipContact
    <2>1. job' = Unmounted(job)  BY <1>2 DEF LeavePay, saveContact, SkipContact, onSuccess
    <2>2. \A i \in Jobs : job'[i] = job[i] \/ job'[i] = [job[i] EXCEPT !.home = "left"]
      BY <2>1 DEF Unmounted
    <2> QED  BY <2>2 DEF Kept, JobShape
  <1>3. CASE ~(Lock \/ LeavePay \/ saveContact \/ SkipContact)
    <2>1. job' = job
      BY <1>3
      DEF Elsewhere, Unlock, refresh, OpenPay, PayAgain, AnswerBalance, AnswerOutputs, Refuse,
          setBalance, FailRefresh, deleteContact, Confirm, Mature
    <2> QED  BY <2>1 DEF Kept
  <1> QED  BY <1>1, <1>2, <1>3

(* A send starts from a free slot.                                          *)
LEMMA InitSendMoves ==
  ASSUME JobShape, NEW j \in Jobs, NEW to, NEW cash, initSend(j, to, cash)
  PROVE  /\ job[j].phase = "idle"
         /\ job'[j].phase = "utxos" /\ job'[j].to = to /\ job'[j].cash = cash
         /\ \A i \in Jobs \ {j} : Kept(i)
  BY DEF initSend, NoJob, Kept, JobShape

(* The outputs arrive: the payment is built, or there is not enough.        *)
LEMMA AnswerUTXOsMoves ==
  ASSUME JobShape, NEW j \in Jobs, AnswerUTXOs(j)
  PROVE  /\ job[j].phase = "utxos" /\ job'[j].phase \in {"post", "error"}
         /\ job'[j].to = job[j].to /\ job'[j].cash = job[j].cash
         /\ \E listed \in SetToSeqs(outs), stamp \in Stamps :
              /\ job'[j].tx = buildSignTx(listed, job[j].to, job[j].cash, stamp)
              /\ job'[j].phase = "post" => job'[j].tx # Fail
         /\ \A i \in Jobs \ {j} : Kept(i)
  <1>1. PICK listed \in SetToSeqs(outs), stamp \in Stamps :
          LET tx == buildSignTx(listed, job[j].to, job[j].cash, stamp) IN
          job' = [job EXCEPT ![j].tx = tx, ![j].phase = IF tx = Fail THEN "error" ELSE "post"]
    BY DEF AnswerUTXOs
  <1> DEFINE tx == buildSignTx(listed, job[j].to, job[j].cash, stamp)
             phase == IF tx = Fail THEN "error" ELSE "post"
  <1>2. job' = [job EXCEPT ![j].tx = tx, ![j].phase = phase]  BY <1>1
  <1>3. phase \in {"post", "error"} /\ (phase = "post" => tx # Fail)  OBVIOUS
  <1> HIDE DEF tx, phase
  <1>4. job'[j] = [job[j] EXCEPT !.tx = tx, !.phase = phase]  BY <1>2 DEF JobShape
  <1>5. job'[j].tx = tx /\ job'[j].phase = phase /\ job'[j].to = job[j].to
        /\ job'[j].cash = job[j].cash
    BY <1>4 DEF JobShape
  <1>6. \A i \in Jobs \ {j} : job'[i] = job[i]  BY <1>2 DEF JobShape
  <1>7. job'[j].tx = buildSignTx(listed, job[j].to, job[j].cash, stamp)  BY <1>5 DEF tx
  <1> QED  BY <1>3, <1>5, <1>6, <1>7 DEF Kept, AnswerUTXOs

(* The node takes the payment or refuses it.                                *)
LEMMA PostMoves ==
  ASSUME JobShape, NEW j \in Jobs, Post(j)
  PROVE  /\ job[j].phase = "post"
         /\ job'[j].tx = job[j].tx /\ job'[j].to = job[j].to /\ job'[j].cash = job[j].cash
         /\ \/ Acceptable(job[j].tx) /\ job'[j].phase = "reply" /\ taken' = taken \cup {job[j].tx}
            \/ job'[j].phase = "error" /\ taken' = taken
         /\ \A i \in Jobs \ {j} : Kept(i)
  <1>1. PICK phase : /\ job' = [job EXCEPT ![j].phase = phase]
                     /\ \/ Acceptable(job[j].tx) /\ phase = "reply"
                           /\ taken' = taken \cup {job[j].tx}
                        \/ phase = "error" /\ taken' = taken
    BY DEF Post
  <1>2. job'[j] = [job[j] EXCEPT !.phase = phase] /\ \A i \in Jobs \ {j} : job'[i] = job[i]
    BY <1>1 DEF JobShape
  <1>3. job'[j].phase = phase /\ job'[j].tx = job[j].tx /\ job'[j].to = job[j].to
        /\ job'[j].cash = job[j].cash
    BY <1>2 DEF JobShape
  <1> QED  BY <1>1, <1>2, <1>3 DEF Kept, Post

(* A request or an answer is lost.                                          *)
LEMMA LoseRequestMoves ==
  ASSUME JobShape, NEW j \in Jobs, LoseRequest(j)
  PROVE  /\ job'[j].phase = "error" /\ job'[j].tx = job[j].tx
         /\ job'[j].to = job[j].to /\ job'[j].cash = job[j].cash
         /\ \A i \in Jobs \ {j} : Kept(i)
  <1>1. job' = [job EXCEPT ![j].phase = "error"]  BY DEF LoseRequest
  <1>2. job'[j] = [job[j] EXCEPT !.phase = "error"] /\ \A i \in Jobs \ {j} : job'[i] = job[i]
    BY <1>1 DEF JobShape
  <1> QED  BY <1>2 DEF Kept, JobShape

(* A send ends, with or without the tab that started it.                     *)
LEMMA EndMoves ==
  ASSUME JobShape, NEW j \in Jobs, FinishSend(j) \/ FailSend(j)
  PROVE  /\ job'[j].phase = "idle" /\ job'[j].to = Blank /\ job'[j].cash = 0
         /\ \A i \in Jobs \ {j} : Kept(i)
  <1> DEFINE js == [job EXCEPT ![j] = NoJob]
  <1>1. job' = js \/ job' = Unmounted(js)  BY DEF FinishSend, FailSend, onSuccess
  <1>2. js[j] = NoJob /\ \A i \in Jobs \ {j} : js[i] = job[i]  BY DEF JobShape
  <1> HIDE DEF js
  <1>3. \A i \in Jobs : job'[i] = js[i] \/ job'[i] = [js[i] EXCEPT !.home = "left"]
    BY <1>1 DEF Unmounted
  <1>4. job'[j].phase = "idle" /\ job'[j].to = Blank /\ job'[j].cash = 0
    <2>1. job'[j] = NoJob \/ job'[j] = [NoJob EXCEPT !.home = "left"]  BY <1>2, <1>3
    <2> QED  BY <2>1 DEF NoJob
  <1>5. \A i \in Jobs \ {j} : job'[i] = job[i] \/ job'[i] = [job[i] EXCEPT !.home = "left"]
    BY <1>2, <1>3
  <1> QED  BY <1>4, <1>5 DEF Kept, JobShape

-----------------------------------------------------------------------------
(* The history of payments.                                                  *)

Replies(j) == job[j].phase = "reply"

Answering == {job[j].tx : j \in {i \in Jobs : Replies(i)}}

EachOnce(s) == \A i, k \in DOMAIN s : s[i] = s[k] => i = k

(* A payment whose answer is under way was taken and is not listed yet, and  *)
(* no two sends wait for the answer to the same one.                         *)
HistoryInv ==
  /\ sends \in Seq(taken) /\ Len(sends) <= SendsCap
  /\ EachOnce(sends)
  /\ \A j \in Jobs : Replies(j) => job[j].tx \in taken /\ job[j].tx \notin ToSet(sends)
  /\ \A i, j \in Jobs : Replies(i) /\ Replies(j) /\ job[i].tx = job[j].tx => i = j
  /\ Len(sends) < SendsCap => taken \subseteq ToSet(sends) \cup Answering \cup lost

Listing(e, s, n) == SubSeq(Cons(e, s), 1, IF Len(s) < n THEN Len(s) + 1 ELSE n)

(* The history after trackSend.                                              *)
LEMMA Tracked ==
  ASSUME NEW S, NEW s \in Seq(S), NEW e \in S, NEW n \in Nat, Len(s) <= n,
         NEW r, r = Listing(e, s, n)
  PROVE  /\ r \in Seq(S) /\ Len(r) <= n
         /\ Len(r) = Len(s) + 1 \/ Len(r) = n
         /\ Len(r) < n => {e} \cup ToSet(s) \subseteq ToSet(r)
         /\ ToSet(r) \subseteq {e} \cup ToSet(s)
         /\ e \notin ToSet(s) /\ EachOnce(s) => EachOnce(r)
  <1> DEFINE m == IF Len(s) < n THEN Len(s) + 1 ELSE n
             c == Cons(e, s)
  <1>1. /\ c \in Seq(S) /\ Len(c) = Len(s) + 1
        /\ \A i \in 1..Len(c) : c[i] = IF i = 1 THEN e ELSE s[i-1]
    BY DEF Cons
  <1>2. Len(s) \in Nat /\ m \in 0..Len(c)  BY <1>1
  <1> HIDE DEF c
  <1>3. /\ r \in Seq(S) /\ Len(r) = m /\ \A i \in 1..m : r[i] = c[i]
    <2>1. r = SubSeq(c, 1, m)  BY DEF c, Listing
    <2> HIDE DEF m
    <2> QED  BY <1>1, <1>2, <2>1
  <1>4. DOMAIN r = 1..m /\ DOMAIN s = 1..Len(s)  BY <1>3
  <1>5. \A i \in 1..m : r[i] = IF i = 1 THEN e ELSE s[i-1]  BY <1>1, <1>2, <1>3
  <1>6. ToSet(r) \subseteq {e} \cup ToSet(s)
    <2>1. ASSUME NEW i \in 1..m PROVE r[i] \in {e} \cup ToSet(s)
      <3>1. CASE i = 1  BY <1>5, <3>1
      <3>2. CASE i # 1
        <4>1. i - 1 \in 1..Len(s)  BY <1>1, <1>2, <3>2
        <4> QED  BY <1>4, <1>5, <3>2, <4>1 DEF ToSet
      <3> QED  BY <3>1, <3>2
    <2> QED  BY <1>4, <2>1 DEF ToSet
  <1>7. ASSUME Len(r) < n PROVE {e} \cup ToSet(s) \subseteq ToSet(r)
    <2>1. m = Len(s) + 1  BY <1>2, <1>3, <1>7
    <2>2. e \in ToSet(r)
      <3>1. 1 \in 1..m /\ r[1] = e  BY <1>2, <1>5, <2>1
      <3> QED  BY <1>4, <3>1 DEF ToSet
    <2>3. ASSUME NEW i \in 1..Len(s) PROVE s[i] \in ToSet(r)
      <3>1. i + 1 \in 1..m /\ r[i+1] = s[i]  BY <1>2, <1>5, <2>1
      <3> QED  BY <1>4, <3>1 DEF ToSet
    <2> QED  BY <1>4, <2>2, <2>3 DEF ToSet
  <1>8. ASSUME e \notin ToSet(s), EachOnce(s),
               NEW i \in 1..m, NEW k \in 1..m, r[i] = r[k]
        PROVE  i = k
    <2>1. ASSUME NEW x \in 1..m, x # 1
          PROVE  x - 1 \in DOMAIN s /\ r[x] = s[x-1] /\ s[x-1] # e
      <3>1. x - 1 \in 1..Len(s) /\ r[x] = s[x-1]  BY <1>1, <1>2, <1>5, <2>1
      <3>2. s[x-1] \in ToSet(s)  BY <1>4, <3>1 DEF ToSet
      <3> QED  BY <1>4, <1>8, <3>1, <3>2
    <2>2. r[1] = e  BY <1>5
    <2>3. i # 1 /\ k # 1 => i - 1 = k - 1  BY <1>8, <2>1 DEF EachOnce
    <2> QED  BY <1>8, <2>1, <2>2, <2>3
  <1>9. e \notin ToSet(s) /\ EachOnce(s) => EachOnce(r)  BY <1>4, <1>8 DEF EachOnce
  <1> QED  BY <1>2, <1>3, <1>6, <1>7, <1>9


(* Nothing that concerns the history moves.                                  *)
LEMMA SameHistory ==
  ASSUME HistoryInv, sends' = sends, taken' = taken, lost' = lost,
         \A i \in Jobs : /\ Replies(i)' <=> Replies(i)
                         /\ Replies(i) => job'[i].tx = job[i].tx
  PROVE  HistoryInv'
  <1>1. Answering' = Answering  BY DEF Answering
  <1> QED  BY <1>1 DEF HistoryInv

(* A payment taken is one nobody else waits for.                            *)
LEMMA PostHistory ==
  ASSUME JobShape, HistoryInv, NEW j \in Jobs, Post(j)
  PROVE  HistoryInv'
  <1> DEFINE tx == job[j].tx
  <1>1. /\ job[j].phase = "post" /\ job'[j].tx = tx /\ \A i \in Jobs \ {j} : Kept(i)
        /\ sends' = sends /\ lost' = lost
    BY PostMoves DEF Post
  <1>2. CASE job'[j].phase = "error" /\ taken' = taken
    BY <1>1, <1>2, SameHistory DEF Kept, Replies
  <1>3. CASE Acceptable(tx) /\ job'[j].phase = "reply" /\ taken' = taken \cup {tx}
    <2>1. tx \notin taken  BY <1>3 DEF Acceptable
    <2>2. sends \in Seq(taken')  BY <1>3 DEF HistoryInv
    <2>3. ToSet(sends) \subseteq taken  BY DEF HistoryInv, ToSet
    <2>4. \A i \in Jobs \ {j} : /\ Replies(i)' <=> Replies(i)
                                /\ job'[i].tx = job[i].tx
      BY <1>1 DEF Kept, Replies
    <2>5. Replies(j)' /\ job'[j].tx = tx /\ ~Replies(j)  BY <1>1, <1>3 DEF Replies
    <2>6. \A i \in Jobs : Replies(i)' => /\ job'[i].tx \in taken'
                                         /\ job'[i].tx \notin ToSet(sends)
      BY <1>3, <2>1, <2>3, <2>4, <2>5 DEF HistoryInv
    <2>7. \A i, k \in Jobs : Replies(i)' /\ Replies(k)' /\ job'[i].tx = job'[k].tx => i = k
      BY <2>1, <2>4, <2>5 DEF HistoryInv
    <2>8. Answering \cup {tx} \subseteq Answering'
      BY <2>4, <2>5 DEF Answering
    <2>9. Len(sends) < SendsCap => taken' \subseteq ToSet(sends) \cup Answering' \cup lost
      BY <1>3, <2>8 DEF HistoryInv
    <2> HIDE DEF tx
    <2> QED  BY <1>1, <2>2, <2>6, <2>7, <2>9 DEF HistoryInv
  <1> QED  BY <1>2, <1>3, PostMoves

(* An answer that is lost takes its payment with it.                        *)
LEMMA LoseHistory ==
  ASSUME JobShape, HistoryInv, NEW j \in Jobs, LoseRequest(j)
  PROVE  HistoryInv'
  <1>1. /\ job'[j].phase = "error" /\ \A i \in Jobs \ {j} : Kept(i)
        /\ sends' = sends /\ taken' = taken
        /\ lost' = IF Replies(j) THEN lost \cup {job[j].tx} ELSE lost
    BY LoseRequestMoves DEF LoseRequest, node, Replies
  <1>2. \A i \in Jobs \ {j} : /\ Replies(i)' <=> Replies(i)
                              /\ job'[i].tx = job[i].tx
    BY <1>1 DEF Kept, Replies
  <1>3. ~Replies(j)'  BY <1>1 DEF Replies
  <1>4. Answering \cup lost \subseteq Answering' \cup lost'
    BY <1>1, <1>2 DEF Answering
  <1> QED  BY <1>1, <1>2, <1>3, <1>4 DEF HistoryInv

(* The answer arrives and the payment is listed.                            *)
LEMMA FinishHistory ==
  ASSUME JobShape, HistoryInv, NEW j \in Jobs, FinishSend(j)
  PROVE  HistoryInv'
  <1> DEFINE tx == job[j].tx
  <1>1. /\ Replies(j) /\ job'[j].phase = "idle" /\ \A i \in Jobs \ {j} : Kept(i)
        /\ taken' = taken /\ lost' = lost
        /\ sends' = Listing(tx, sends, SendsCap)
    BY EndMoves DEF FinishSend, node, Replies, trackSend, Listing
  <1>2. tx \in taken /\ tx \notin ToSet(sends)  BY <1>1 DEF HistoryInv
  <1>3. \A i \in Jobs \ {j} : /\ Replies(i)' <=> Replies(i)
                              /\ job'[i].tx = job[i].tx
    BY <1>1 DEF Kept, Replies
  <1>4. ~Replies(j)'  BY <1>1 DEF Replies
  <1>5. Answering \subseteq Answering' \cup {tx}  BY <1>3 DEF Answering
  <1> HIDE DEF tx
  <1>6. /\ sends' \in Seq(taken) /\ Len(sends') <= SendsCap
        /\ Len(sends') = Len(sends) + 1 \/ Len(sends') = SendsCap
        /\ Len(sends') < SendsCap => {tx} \cup ToSet(sends) \subseteq ToSet(sends')
        /\ ToSet(sends') \subseteq {tx} \cup ToSet(sends)
        /\ EachOnce(sends')
    <2>1. /\ sends \in Seq(taken) /\ Len(sends) <= SendsCap /\ SendsCap \in Nat
          /\ EachOnce(sends)
      BY WalletAssumption DEF HistoryInv
    <2> QED  BY <1>1, <1>2, <2>1, Tracked
  <1>7. Len(sends') < SendsCap => taken \subseteq ToSet(sends') \cup Answering' \cup lost
    <2>1. Len(sends) \in Nat /\ SendsCap \in Nat  BY WalletAssumption DEF HistoryInv
    <2>2. Len(sends') < SendsCap => Len(sends) < SendsCap  BY <1>6, <2>1
    <2> QED  BY <1>5, <1>6, <2>2 DEF HistoryInv
  <1>8. \A i \in Jobs : Replies(i)' => job'[i].tx # tx
    <2>1. \A i \in Jobs \ {j} : Replies(i) => job[i].tx # job[j].tx
      BY <1>1 DEF HistoryInv
    <2> QED  BY <1>3, <1>4, <2>1 DEF tx
  <1>9. \A i \in Jobs : Replies(i)' => job'[i].tx \in taken /\ job'[i].tx \notin ToSet(sends')
    BY <1>3, <1>4, <1>6, <1>8 DEF HistoryInv
  <1>10. \A i, k \in Jobs : Replies(i)' /\ Replies(k)' /\ job'[i].tx = job'[k].tx => i = k
    BY <1>3, <1>4 DEF HistoryInv
  <1> QED  BY <1>1, <1>6, <1>7, <1>9, <1>10 DEF HistoryInv

(* A reload loses every answer.                                             *)
LEMMA ReloadHistory ==
  ASSUME JobShape, HistoryInv, Reload
  PROVE  HistoryInv'
  <1>1. job' = [j \in Jobs |-> NoJob] /\ sends' = sends  BY DEF Reload
  <1>2. PICK arrived : taken' = taken \cup arrived /\ lost' = lost \cup arrived \cup Answering
    BY DEF Reload, Answering, Replies
  <1>3. \A i \in Jobs : ~Replies(i)'  BY <1>1 DEF Replies, NoJob
  <1>4. sends \in Seq(taken')  BY <1>2 DEF HistoryInv
  <1>5. Len(sends) < SendsCap => taken' \subseteq ToSet(sends) \cup lost'
    BY <1>2 DEF HistoryInv
  <1> QED  BY <1>1, <1>3, <1>4, <1>5 DEF HistoryInv

(* Every step keeps the history honest.                                     *)
LEMMA NextHistory == JobShape /\ HistoryInv /\ [Next]_vars => HistoryInv'
  <1> SUFFICES ASSUME JobShape, HistoryInv, [Next]_vars PROVE HistoryInv'
    OBVIOUS
  <1>1. CASE Elsewhere
    <2>1. sends' = sends /\ taken' = taken /\ lost' = lost
      BY <1>1
      DEF Elsewhere, Unlock, Lock, refresh, OpenPay, PayAgain, LeavePay, AnswerBalance,
          AnswerOutputs, Refuse, setBalance, FailRefresh, saveContact, SkipContact,
          deleteContact, Confirm, Mature, node
    <2> QED  BY <1>1, <2>1, ElsewhereKeeps, SameHistory DEF Kept, Replies
  <1>2. ASSUME NEW j \in Jobs, NEW to, NEW cash, initSend(j, to, cash) PROVE HistoryInv'
    <2>1. sends' = sends /\ taken' = taken /\ lost' = lost  BY <1>2 DEF initSend, node
    <2> QED  BY <1>2, <2>1, InitSendMoves, SameHistory DEF Kept, Replies
  <1>3. ASSUME NEW j \in Jobs, AnswerUTXOs(j) PROVE HistoryInv'
    <2>1. sends' = sends /\ taken' = taken /\ lost' = lost  BY <1>3 DEF AnswerUTXOs, node
    <2> QED  BY <1>3, <2>1, AnswerUTXOsMoves, SameHistory DEF Kept, Replies
  <1>4. ASSUME NEW j \in Jobs, FailSend(j) PROVE HistoryInv'
    <2>1. sends' = sends /\ taken' = taken /\ lost' = lost /\ job[j].phase = "error"
      BY <1>4 DEF FailSend, node
    <2> QED  BY <1>4, <2>1, EndMoves, SameHistory DEF Kept, Replies
  <1>5. CASE UNCHANGED vars
    BY <1>5, SameHistory DEF vars, node, Replies
  <1> QED
    BY <1>1, <1>2, <1>3, <1>4, <1>5, PostHistory, LoseHistory, FinishHistory, ReloadHistory
    DEF Next, Elsewhere

(***************************************************************************)
(* The history holds payments the node took, each once, and lacks one only *)
(* while its answer is under way, when the page could not take the answer, *)
(* or when newer ones filled the list: for every number of sends at once,  *)
(* every lost answer and every reload (execSend, trackSend).               *)
(***************************************************************************)
THEOREM HistoryHolds == SafetySpec => []HistoryIsHonest
  <1>1. Init => HistoryInv
    BY WalletAssumption DEF Init, HistoryInv, Replies, NoJob, ToSet, EachOnce
  <1>2. ButtonInv => JobShape  BY DEF ButtonInv
  <1>3. HistoryInv => HistoryIsHonest
    BY DEF HistoryInv, HistoryIsHonest, Answering, Replies, ToSet, EachOnce
  <1> QED
    BY InitButton, NextButton, <1>1, <1>2, <1>3, NextHistory, PTL DEF SafetySpec

-----------------------------------------------------------------------------
(* What outputs are worth.                                                   *)

Priced(os) == \A o \in os : o.value \in Nat

(* It is a number.                                                          *)
LEMMA WorthType ==
  ASSUME NEW os, IsFiniteSet(os), Priced(os)
  PROVE  Worth(os) \in Nat
  <1> DEFINE f == [o \in os |-> o.value]
  <1>1. \A o \in os : f[o] \in Nat  BY DEF Priced
  <1> HIDE DEF f
  <1>2. SumFunctionOnSet(f, os) \in Nat  BY <1>1, SumType
  <1> QED  BY <1>2 DEF Worth, f

(* Two lots are worth what each is.                                         *)
LEMMA WorthSplit ==
  ASSUME NEW A, IsFiniteSet(A), NEW B, IsFiniteSet(B), A \cap B = {}, Priced(A \cup B)
  PROVE  Worth(A \cup B) = Worth(A) + Worth(B)
  <1> DEFINE f == [o \in A \cup B |-> o.value]
             a == [o \in A |-> o.value]
             b == [o \in B |-> o.value]
  <1>1. /\ \A o \in A \cup B : f[o] \in Nat
        /\ \A o \in A : f[o] = a[o]
        /\ \A o \in B : f[o] = b[o]
    BY DEF Priced
  <1>2. /\ Worth(A \cup B) = SumFunctionOnSet(f, A \cup B)
        /\ Worth(A) = SumFunctionOnSet(a, A) /\ Worth(B) = SumFunctionOnSet(b, B)
    BY DEF Worth
  <1> HIDE DEF f, a, b
  <1>3. SumFunctionOnSet(f, A \cup B) = SumFunctionOnSet(f, A) + SumFunctionOnSet(f, B)
    BY <1>1, SumSplit
  <1>4. SumFunctionOnSet(f, A) = SumFunctionOnSet(a, A)  BY <1>1, SumSame
  <1>5. SumFunctionOnSet(f, B) = SumFunctionOnSet(b, B)  BY <1>1, SumSame
  <1> QED  BY <1>2, <1>3, <1>4, <1>5

(* One output is worth its value.                                           *)
LEMMA WorthOne ==
  ASSUME NEW o, o.value \in Nat
  PROVE  Worth({o}) = o.value /\ IsFiniteSet({o})
  <1> DEFINE f == [q \in {o} |-> q.value]
  <1>1. f[o] = o.value /\ Worth({o}) = SumFunctionOnSet(f, {o})  BY DEF Worth
  <1> HIDE DEF f
  <1>2. IsFiniteSet({}) /\ SumFunctionOnSet(f, {}) = 0  BY FS_EmptySet, SumEquation
  <1>3. {} \cup {o} = {o} /\ o \notin {} /\ \A x \in {} \cup {o} : f[x] \in Nat  BY <1>1
  <1>4. /\ IsFiniteSet({} \cup {o})
        /\ SumFunctionOnSet(f, {} \cup {o}) = f[o] + SumFunctionOnSet(f, {})
    BY <1>2, <1>3, SumAdd
  <1> QED  BY <1>1, <1>2, <1>3, <1>4

(* And so one more.                                                         *)
LEMMA WorthAdd ==
  ASSUME NEW os, IsFiniteSet(os), Priced(os), NEW o, o \notin os, o.value \in Nat
  PROVE  /\ IsFiniteSet(os \cup {o})
         /\ Worth(os \cup {o}) = Worth(os) + o.value
  <1>1. Priced(os \cup {o}) /\ os \cap {o} = {}  BY DEF Priced
  <1>2. Worth({o}) = o.value /\ IsFiniteSet({o})  BY WorthOne
  <1>3. Worth(os \cup {o}) = Worth(os) + Worth({o})  BY <1>1, <1>2, WorthSplit
  <1> QED  BY <1>2, <1>3, FS_AddElement

(* What payments took.                                                       *)
Paid(txs) == SumFunctionOnSet([tx \in txs |-> tx.cash + FEE], txs)

(* One payment more took its amount and a fee.                              *)
LEMMA PaidAdd ==
  ASSUME NEW txs, IsFiniteSet(txs), NEW tx, tx \notin txs,
         \A t \in txs \cup {tx} : t.cash \in Nat
  PROVE  /\ Paid(txs \cup {tx}) = Paid(txs) + tx.cash + FEE
         /\ Paid(txs) \in Nat
  <1> DEFINE f == [t \in txs \cup {tx} |-> t.cash + FEE]
             g == [t \in txs |-> t.cash + FEE]
  <1>1. /\ f[tx] = tx.cash + FEE
        /\ \A t \in txs : f[t] = g[t]
        /\ \A t \in txs \cup {tx} : f[t] \in Nat
        /\ Paid(txs \cup {tx}) = SumFunctionOnSet(f, txs \cup {tx})
        /\ Paid(txs) = SumFunctionOnSet(g, txs)
    BY WalletAssumption DEF Paid
  <1> HIDE DEF f, g
  <1>2. SumFunctionOnSet(f, txs \cup {tx}) = f[tx] + SumFunctionOnSet(f, txs)
    BY <1>1, SumAdd
  <1>3. SumFunctionOnSet(f, txs) = SumFunctionOnSet(g, txs)  BY <1>1, SumSame
  <1>4. SumFunctionOnSet(f, txs) \in Nat  BY <1>1, SumType
  <1>5. tx.cash \in Nat /\ FEE \in Nat  BY WalletAssumption
  <1> QED  BY <1>1, <1>2, <1>3, <1>4, <1>5

-----------------------------------------------------------------------------
(* Where the cash is.                                                        *)

(* An id says once and for all what its output is worth.                     *)
ValueOf(id) == IF id[1] = "change" THEN id[2].change ELSE (CHOOSE c \in Coins : c.id = id).value

Out(id, mature) == [id |-> id, value |-> ValueOf(id), mature |-> mature]

(* What a payment takes is what it gives.                                    *)
Balanced(tx) ==
  /\ tx.cash \in Nat /\ tx.change \in Nat
  /\ Worth({Out(id, TRUE) : id \in tx.ins}) = tx.cash + FEE + tx.change

(* The outputs are coins of the start and change of confirmed payments, each *)
(* there once, and every payment the node took is balanced.                  *)
Accounts ==
  /\ IsFiniteSet(outs) /\ IsFiniteSet(confirmed) /\ confirmed \subseteq taken
  /\ \A o \in outs : /\ o = Out(o.id, o.mature) /\ o.mature \in BOOLEAN /\ o.value \in Nat
                     /\ \/ \E c \in Coins : o.id = c.id
                        \/ \E tx \in confirmed : o.id = <<"change", tx>>
  /\ \A o, q \in outs : o.id = q.id => o = q
  /\ \A tx \in taken : Balanced(tx)
  /\ Worth(outs) + Paid(confirmed) = Worth(Coins)

(* At the start the coins are all there is.                                 *)
LEMMA InitAccounts == Init => Accounts
  <1> SUFFICES ASSUME Init PROVE Accounts
    OBVIOUS
  <1>1. outs = Coins /\ taken = {} /\ confirmed = {}  BY DEF Init
  <1>2. \A c \in Coins : ValueOf(c.id) = c.value
    BY WalletAssumption DEF ValueOf
  <1>3. \A c \in Coins : c = Out(c.id, c.mature) /\ c.mature \in BOOLEAN /\ c.value \in Nat
    BY <1>2, WalletAssumption DEF Out
  <1>4. Paid({}) = 0 /\ IsFiniteSet({})  BY FS_EmptySet, SumEquation DEF Paid
  <1>5. Worth(Coins) \in Nat  BY <1>3, WalletAssumption, WorthType DEF Priced
  <1> QED  BY <1>1, <1>3, <1>4, <1>5, WalletAssumption DEF Accounts

(* buildSignTx's payment takes outputs that the node listed, and gives them  *)
(* to the payee, the fee and the change.                                     *)
LEMMA BuiltIsBalanced ==
  ASSUME Accounts, NEW listed \in SetToSeqs(outs), NEW to, NEW cash \in Nat, NEW stamp,
         buildSignTx(listed, to, cash, stamp) # Fail
  PROVE  Balanced(buildSignTx(listed, to, cash, stamp))
  <1> DEFINE enough == Enough(listed, cash + FEE)
             n == Min(enough)
             sel == Selected(listed, n)
             tx == buildSignTx(listed, to, cash, stamp)
  <1>1. Cardinality(outs) \in Nat  BY FS_CardinalityType DEF Accounts
  <1>2. Len(listed) \in Nat /\ \A i \in 1..Len(listed) : listed[i] \in outs
    BY <1>1 DEF SetToSeqs
  <1>3. enough # {}  BY DEF buildSignTx
  <1>4. n \in 0..Len(listed) /\ Worth(sel) >= cash + FEE
    <2>1. enough \in SUBSET Nat  BY <1>2 DEF Enough
    <2> HIDE DEF enough
    <2>2. \E x \in enough : \A y \in enough : x <= y  BY <1>3, <2>1, LeastNatural
    <2>3. n \in enough  BY <2>2 DEF Min
    <2> HIDE DEF n
    <2> QED  BY <2>3 DEF enough, Enough
  <1> HIDE DEF n
  <1>5. sel \subseteq outs /\ \A o \in sel : o.mature
    BY <1>2, <1>4 DEF Selected
  <1>6. tx = [ins |-> {u.id : u \in sel}, to |-> to, cash |-> cash,
              change |-> Worth(sel) - cash - FEE, at |-> stamp]
    BY <1>3 DEF buildSignTx, n
  <1> HIDE DEF sel, tx, enough
  <1>7. Worth(sel) \in Nat
    BY <1>5, FS_Subset, WorthType DEF Accounts, Priced
  <1>8. /\ tx.ins = {u.id : u \in sel} /\ tx.cash = cash
        /\ tx.change = Worth(sel) - cash - FEE
    BY <1>6
  <1>9. \A o \in sel : o = Out(o.id, TRUE)  BY <1>5 DEF Accounts
  <1>10. {Out(id, TRUE) : id \in tx.ins} = sel
    <2>1. ASSUME NEW id \in tx.ins PROVE Out(id, TRUE) \in sel
      <3>1. PICK u \in sel : id = u.id  BY <1>8
      <3> QED  BY <1>9, <3>1
    <2>2. ASSUME NEW u \in sel PROVE \E id \in tx.ins : u = Out(id, TRUE)
      <3>1. u.id \in tx.ins /\ u = Out(u.id, TRUE)  BY <1>8, <1>9
      <3> QED  BY <3>1
    <2> QED  BY <2>1, <2>2
  <1>11. tx.change \in Nat /\ Worth(sel) = tx.cash + FEE + tx.change
    BY <1>4, <1>7, <1>8, WalletAssumption
  <1>12. Balanced(tx)  BY <1>8, <1>10, <1>11 DEF Balanced
  <1> QED  BY <1>12 DEF tx


(* A payment confirms: its inputs go, its change comes.                      *)
LEMMA ConfirmAccounts ==
  ASSUME Accounts, NEW tx \in taken, Confirm(tx)
  PROVE  Accounts'
  <1> DEFINE spent == {o \in outs : o.id \in tx.ins}
             left  == {o \in outs : o.id \notin tx.ins}
             new   == changeOf(tx)
  <1>1. /\ tx \notin confirmed /\ confirmed' = confirmed \cup {tx} /\ taken' = taken
        /\ tx.ins \subseteq {o.id : o \in Spendable}
        /\ outs' = left \cup IF tx.change > 0 THEN {new} ELSE {}
    BY DEF Confirm
  <1>2. Balanced(tx)  BY DEF Accounts
  <1>3. spent = {Out(id, TRUE) : id \in tx.ins}
    <2>1. ASSUME NEW id \in tx.ins PROVE Out(id, TRUE) \in spent
      <3>1. PICK o \in outs : o.mature /\ o.id = id  BY <1>1 DEF Spendable
      <3>2. o = Out(id, TRUE)  BY <3>1 DEF Accounts
      <3> QED  BY <3>1, <3>2
    <2>2. ASSUME NEW o \in spent PROVE \E id \in tx.ins : o = Out(id, TRUE)
      <3>1. PICK q \in outs : q.mature /\ q.id = o.id  BY <1>1 DEF Spendable
      <3>2. q = o  BY <3>1 DEF Accounts
      <3>3. o = Out(o.id, TRUE) /\ o.id \in tx.ins  BY <3>1, <3>2 DEF Accounts
      <3> QED  BY <3>3
    <2> QED  BY <2>1, <2>2
  <1>4. /\ IsFiniteSet(spent) /\ IsFiniteSet(left)
        /\ spent \cap left = {} /\ outs = spent \cup left
        /\ Priced(outs) /\ Priced(spent) /\ Priced(left)
    BY FS_Subset DEF Accounts, Priced
  <1>5. new = Out(<<"change", tx>>, TRUE) /\ new.id = <<"change", tx>>
        /\ new.value = tx.change /\ new.mature = TRUE /\ new.id[1] = "change"
    BY DEF changeOf, Out, ValueOf
  <1>6. \A o \in outs : o.id # new.id
    <2>1. ASSUME NEW o \in outs PROVE o.id # new.id
      <3>1. ASSUME NEW c \in Coins, o.id = c.id  PROVE o.id # new.id
        <4>1. o.id[1] = "coin"  BY <3>1, WalletAssumption
        <4> HIDE DEF new
        <4> QED  BY <1>5, <4>1
      <3>2. ASSUME NEW t \in confirmed, o.id = <<"change", t>>  PROVE o.id # new.id
        <4>1. t # tx  BY <1>1
        <4>2. <<"change", t>> # <<"change", tx>>  BY <4>1
        <4> HIDE DEF new
        <4> QED  BY <1>5, <3>2, <4>2
      <3> QED  BY <3>1, <3>2 DEF Accounts
    <2> QED  BY <2>1
  <1>7. new \notin left  BY <1>6
  <1> HIDE DEF spent, left, new
  <1>8. Worth(outs) = Worth(spent) + Worth(left) /\ Worth(left) \in Nat /\ Worth(spent) \in Nat
    BY <1>4, WorthSplit, WorthType
  <1>9. Worth(spent) = tx.cash + FEE + tx.change /\ tx.cash \in Nat /\ tx.change \in Nat
    BY <1>2, <1>3 DEF Balanced
  <1>10. IsFiniteSet(outs') /\ Worth(outs') = Worth(left) + tx.change
    <2>1. CASE tx.change > 0
      <3>1. outs' = left \cup {new} /\ new.value \in Nat  BY <1>1, <1>5, <1>9, <2>1
      <3>2. IsFiniteSet(left \cup {new}) /\ Worth(left \cup {new}) = Worth(left) + new.value
        BY <1>4, <1>7, <3>1, WorthAdd
      <3> QED  BY <1>5, <3>1, <3>2
    <2>2. CASE ~(tx.change > 0)
      <3>1. outs' = left /\ tx.change = 0  BY <1>1, <1>9, <2>2
      <3> QED  BY <1>4, <1>8, <3>1
    <2> QED  BY <2>1, <2>2
  <1>11. /\ Paid(confirmed') = Paid(confirmed) + tx.cash + FEE
         /\ Paid(confirmed) \in Nat /\ IsFiniteSet(confirmed')
    <2>1. \A t \in confirmed \cup {tx} : t.cash \in Nat
      BY <1>9 DEF Accounts, Balanced
    <2>2. IsFiniteSet(confirmed)  BY DEF Accounts
    <2> QED  BY <1>1, <2>1, <2>2, PaidAdd, FS_AddElement
  <1>12. Worth(outs') + Paid(confirmed') = Worth(Coins)
    <2>1. Worth(outs) + Paid(confirmed) = Worth(Coins)  BY DEF Accounts
    <2>2. FEE \in Nat  BY WalletAssumption
    <2> QED  BY <1>8, <1>9, <1>10, <1>11, <2>1, <2>2
  <1>13. outs' \subseteq outs \cup {new}  BY <1>1, <1>4
  <1>14. ASSUME NEW o \in outs'
         PROVE  /\ o = Out(o.id, o.mature) /\ o.mature \in BOOLEAN /\ o.value \in Nat
                /\ \/ \E c \in Coins : o.id = c.id
                   \/ \E t \in confirmed' : o.id = <<"change", t>>
    <2>1. CASE o \in outs  BY <1>1, <2>1 DEF Accounts
    <2>2. CASE o = new  BY <1>1, <1>5, <1>9, <2>2
    <2> QED  BY <1>13, <2>1, <2>2
  <1>15. \A o, q \in outs' : o.id = q.id => o = q
    BY <1>6, <1>13 DEF Accounts
  <1>16. confirmed' \subseteq taken' /\ \A t \in taken' : Balanced(t)
    BY <1>1 DEF Accounts
  <1>17. Worth(outs)' + Paid(confirmed)' = Worth(Coins)  BY <1>12
  <1> QED  BY <1>10, <1>11, <1>12, <1>14, <1>15, <1>16 DEF Accounts

(* An output matures and is worth the same.                                  *)
LEMMA MatureAccounts ==
  ASSUME Accounts, NEW o \in outs, Mature(o)
  PROVE  Accounts'
  <1> DEFINE new  == [o EXCEPT !.mature = TRUE]
             left == outs \ {o}
  <1>1. outs' = left \cup {new} /\ confirmed' = confirmed /\ taken' = taken
    BY DEF Mature
  <1>2. o = Out(o.id, o.mature) /\ o.value \in Nat  BY DEF Accounts
  <1>3. /\ new = Out(o.id, TRUE) /\ new.id = o.id /\ new.value = o.value /\ new.mature = TRUE
    <2>1. PICK i, v, m : o = [id |-> i, value |-> v, mature |-> m]
      BY <1>2 DEF Out
    <2>2. new = [[id |-> i, value |-> v, mature |-> m] EXCEPT !.mature = TRUE]
      BY <2>1, Zenon
    <2>3. v = ValueOf(i)  BY <1>2, <2>1 DEF Out
    <2> HIDE DEF new
    <2>4. new = [id |-> i, value |-> v, mature |-> TRUE]
      BY <2>2
    <2>5. new.id = o.id /\ new.value = o.value /\ new.mature = TRUE /\ o.id = i
      BY <2>1, <2>4
    <2> QED  BY <2>3, <2>4, <2>5 DEF Out
  <1>4. \A q \in left : q.id # o.id  BY DEF Accounts
  <1>5. new \notin left  BY <1>3, <1>4
  <1>6. IsFiniteSet(left) /\ Priced(left) /\ outs = left \cup {o} /\ o \notin left
    BY FS_Subset DEF Accounts, Priced
  <1> HIDE DEF new, left
  <1>7. Worth(outs) = Worth(left) + o.value  BY <1>2, <1>6, WorthAdd
  <1>8. IsFiniteSet(outs') /\ Worth(outs') = Worth(left) + new.value
    BY <1>1, <1>2, <1>3, <1>5, <1>6, WorthAdd
  <1>9. outs' \subseteq outs \cup {new}  BY <1>1, <1>6
  <1>10. ASSUME NEW q \in outs'
         PROVE  /\ q = Out(q.id, q.mature) /\ q.mature \in BOOLEAN /\ q.value \in Nat
                /\ \/ \E c \in Coins : q.id = c.id
                   \/ \E t \in confirmed : q.id = <<"change", t>>
    <2>1. CASE q \in outs  BY <2>1 DEF Accounts
    <2>2. CASE q = new
      <3>1. \/ \E c \in Coins : o.id = c.id
            \/ \E t \in confirmed : o.id = <<"change", t>>
        BY DEF Accounts
      <3> QED  BY <1>2, <1>3, <2>2, <3>1
    <2> QED  BY <1>9, <2>1, <2>2
  <1>11. \A p, q \in left : p.id = q.id => p = q  BY <1>6 DEF Accounts
  <1>12. \A p, q \in outs' : p.id = q.id => p = q
    <2>1. ASSUME NEW p \in left \cup {new}, NEW q \in left \cup {new}, p.id = q.id  PROVE p = q
      <3>1. CASE p \in left /\ q \in left  BY <1>11, <2>1, <3>1
      <3>2. CASE p = new \/ q = new  BY <1>3, <1>4, <2>1, <3>2
      <3> QED  BY <3>1, <3>2
    <2> QED  BY <1>1, <2>1
  <1>13. Worth(outs)' + Paid(confirmed)' = Worth(Coins)
    BY <1>1, <1>3, <1>7, <1>8 DEF Accounts
  <1>14. \A t \in taken' : Balanced(t)  BY <1>1 DEF Accounts
  <1>15. IsFiniteSet(confirmed') /\ confirmed' \subseteq taken'  BY <1>1 DEF Accounts
  <1> QED  BY <1>1, <1>8, <1>10, <1>12, <1>13, <1>14, <1>15 DEF Accounts

(* The node takes payments.                                                  *)
LEMMA TakenAccounts ==
  ASSUME Accounts, outs' = outs, confirmed' = confirmed,
         \A tx \in taken' : tx \in taken \/ Balanced(tx), taken \subseteq taken'
  PROVE  Accounts'
  BY DEF Accounts

-----------------------------------------------------------------------------
(* What the page is told, and the payments it makes of it.                   *)

Figure(v) == v \in {Blank, Undefined} \/ v \in Nat

Fetches ==
  /\ DOMAIN load = Loads /\ Figure(balance)
  /\ \A l \in Loads : DOMAIN load[l] = {"phase", "value", "list"} /\ Figure(load[l].value)

(* A fetch starts, in a free slot if there is one.                          *)
LEMMA StartedFetches ==
  ASSUME Fetches, load' = Started(load), balance' \in {balance, Blank}
  PROVE  Fetches'
  <1>1. CASE load' = load  BY <1>1 DEF Fetches, Figure
  <1>2. ASSUME NEW l \in Loads, load' = [load EXCEPT ![l] = [NoLoad EXCEPT !.phase = "asked"]]
        PROVE  Fetches'
    <2>1. DOMAIN load' = Loads /\ load'[l] = [NoLoad EXCEPT !.phase = "asked"]
          /\ \A k \in Loads \ {l} : load'[k] = load[k]
      BY <1>2 DEF Fetches
    <2>2. load'[l].value = Blank /\ DOMAIN load'[l] = {"phase", "value", "list"}
      BY <2>1 DEF NoLoad
    <2> QED  BY <2>1, <2>2 DEF Fetches, Figure
  <1> QED  BY <1>1, <1>2 DEF Started

(* An answer, half of one, or the end of a fetch.                           *)
LEMMA FieldFetches ==
  ASSUME Fetches, balance' = balance, NEW l \in Loads, NEW v,
         \/ load' = [load EXCEPT ![l].value = v] /\ Figure(v)
         \/ load' = [load EXCEPT ![l].list = v]
         \/ load' = [load EXCEPT ![l] = NoLoad]
  PROVE  Fetches'
  <1>1. DOMAIN load' = Loads /\ \A k \in Loads \ {l} : load'[k] = load[k]
    BY DEF Fetches
  <1>2. /\ DOMAIN load'[l] = {"phase", "value", "list"}
        /\ load'[l].value \in {v, load[l].value, Blank}
        /\ load'[l].value = v => Figure(v) \/ v \in {load[l].value, Blank}
    <2>1. CASE load' = [load EXCEPT ![l].value = v] /\ Figure(v)
      <3>1. load'[l] = [load[l] EXCEPT !.value = v]  BY <2>1 DEF Fetches
      <3> QED  BY <2>1, <3>1 DEF Fetches
    <2>2. CASE load' = [load EXCEPT ![l].list = v]
      <3>1. load'[l] = [load[l] EXCEPT !.list = v]  BY <2>2 DEF Fetches
      <3> QED  BY <3>1 DEF Fetches
    <2>3. CASE load' = [load EXCEPT ![l] = NoLoad]
      <3>1. load'[l] = NoLoad  BY <2>3 DEF Fetches
      <3> QED  BY <3>1 DEF NoLoad
    <2> QED  BY <2>1, <2>2, <2>3
  <1>3. Figure(load'[l].value)  BY <1>2 DEF Fetches, Figure
  <1> QED  BY <1>1, <1>2, <1>3 DEF Fetches, Figure

(* What the page knows of the balance is a number, nothing or an error.      *)
LEMMA NextFetches ==
  ASSUME Accounts, Fetches, Next
  PROVE  Fetches'
  <1>1. Worth(Spendable) \in Nat
    <2>1. Spendable \subseteq outs  BY DEF Spendable
    <2> QED  BY <2>1, FS_Subset, WorthType DEF Accounts, Priced
  <1>2. CASE Lock \/ Reload
    <2>1. load' = [l \in Loads |-> NoLoad] /\ balance' = Blank  BY <1>2 DEF Lock, Reload
    <2> QED  BY <2>1 DEF Fetches, Figure, NoLoad
  <1>3. ASSUME NEW l \in Loads, AnswerBalance(l) PROVE Fetches'
    BY <1>1, <1>3, FieldFetches DEF AnswerBalance, fetched, Figure
  <1>4. ASSUME NEW l \in Loads, AnswerOutputs(l) \/ FailRefresh(l) PROVE Fetches'
    BY <1>4, FieldFetches DEF AnswerOutputs, FailRefresh, fetched
  <1>5. ASSUME NEW l \in Loads, Refuse(l) PROVE Fetches'
    <2>1. balance' = balance /\ Figure(Undefined)  BY <1>5 DEF Refuse, fetched, Figure
    <2>2. \/ load' = [load EXCEPT ![l].value = Undefined]
          \/ load' = [load EXCEPT ![l].list = {}]
      BY <1>5 DEF Refuse
    <2> QED  BY <2>1, <2>2, FieldFetches
  <1>6. ASSUME NEW l \in Loads, setBalance(l) PROVE Fetches'
    <2>1. load' = [load EXCEPT ![l] = NoLoad] /\ balance' = load[l].value
      BY <1>6 DEF setBalance
    <2>2. DOMAIN load' = Loads /\ load'[l] = NoLoad
          /\ \A k \in Loads \ {l} : load'[k] = load[k]
      BY <2>1 DEF Fetches
    <2>3. DOMAIN load'[l] = {"phase", "value", "list"} /\ Figure(load'[l].value)
      BY <2>2 DEF NoLoad, Figure
    <2> QED  BY <2>1, <2>2, <2>3 DEF Fetches, Figure
  <1>7. CASE Unlock \/ refresh \/ saveContact \/ SkipContact
    BY <1>7, StartedFetches DEF Unlock, refresh, saveContact, SkipContact, onSuccess, fetched
  <1>8. ASSUME NEW j \in Jobs, FinishSend(j) PROVE Fetches'
    <2>1. balance' = balance /\ (load' = load \/ load' = Started(load))
      BY <1>8 DEF FinishSend, onSuccess, fetched
    <2>2. CASE load' = load  BY <2>1, <2>2 DEF Fetches, Figure
    <2>3. CASE load' = Started(load)  BY <2>1, <2>3, StartedFetches
    <2> QED  BY <2>1, <2>2, <2>3
  <1>9. CASE load' = load /\ balance' = balance
    BY <1>9 DEF Fetches, Figure
  <1>10. ASSUME \/ OpenPay \/ PayAgain \/ LeavePay \/ \E a \in contacts : deleteContact(a)
                \/ (\E tx \in taken : Confirm(tx)) \/ (\E o \in outs : Mature(o))
                \/ \E j \in Jobs, f \in Fields : initSend(j, f.to, f.cash)
                \/ \E j \in Jobs : AnswerUTXOs(j) \/ Post(j) \/ LoseRequest(j) \/ FailSend(j)
         PROVE  load' = load /\ balance' = balance
    BY <1>10
    DEF OpenPay, PayAgain, LeavePay, deleteContact, Confirm, Mature, initSend, AnswerUTXOs,
        Post, LoseRequest, FailSend, fetched
  <1> QED
    BY <1>2, <1>3, <1>4, <1>5, <1>6, <1>7, <1>8, <1>9, <1>10 DEF Next

(* A payment on its way is balanced.                                         *)
Calls ==
  \A j \in Jobs : /\ job[j].cash \in Nat
                  /\ job[j].phase \in {"post", "reply"} => Balanced(job[j].tx)

(* Payments that do not move stay balanced.                                 *)
LEMMA KeptCalls ==
  ASSUME Calls, \A j \in Jobs : Kept(j)
  PROVE  Calls'
  BY DEF Calls, Kept

(* Every step keeps the payments on their way balanced.                     *)
LEMMA NextCalls ==
  ASSUME JobShape, Accounts, Fetches, Calls, Next
  PROVE  Calls'
  <1>1. CASE Elsewhere  BY <1>1, ElsewhereKeeps, KeptCalls
  <1>2. ASSUME NEW j \in Jobs, NEW f \in Fields, initSend(j, f.to, f.cash) PROVE Calls'
    <2>1. MaxAmount \in Nat
      <3>1. CASE BalanceKnown /\ balance > FEE
        <4>1. balance \in Nat /\ FEE \in Nat
          BY <3>1, WalletAssumption DEF Fetches, Figure, BalanceKnown
        <4> QED  BY <3>1, <4>1 DEF MaxAmount
      <3>2. CASE ~(BalanceKnown /\ balance > FEE)  BY <3>2 DEF MaxAmount
      <3> QED  BY <3>1, <3>2
    <2>2. f.cash \in Nat  BY <2>1, WalletAssumption DEF Fields
    <2> QED  BY <1>2, <2>2, InitSendMoves DEF Calls, Kept
  <1>3. ASSUME NEW j \in Jobs, AnswerUTXOs(j) PROVE Calls'
    <2>1. PICK listed \in SetToSeqs(outs), stamp \in Stamps :
            /\ job'[j].tx = buildSignTx(listed, job[j].to, job[j].cash, stamp)
            /\ job'[j].phase = "post" => job'[j].tx # Fail
      BY <1>3, AnswerUTXOsMoves
    <2>2. job[j].cash \in Nat  BY DEF Calls
    <2>3. job'[j].phase = "post" => Balanced(job'[j].tx)
      BY <2>1, <2>2, BuiltIsBalanced
    <2>4. job'[j].phase \in {"post", "error"} /\ job'[j].cash = job[j].cash
          /\ \A i \in Jobs \ {j} : Kept(i)
      BY <1>3, AnswerUTXOsMoves
    <2> QED  BY <2>2, <2>3, <2>4 DEF Calls, Kept
  <1>4. ASSUME NEW j \in Jobs, Post(j) PROVE Calls'
    BY <1>4, PostMoves DEF Calls, Kept
  <1>5. ASSUME NEW j \in Jobs, LoseRequest(j) PROVE Calls'
    BY <1>5, LoseRequestMoves DEF Calls, Kept
  <1>6. ASSUME NEW j \in Jobs, FinishSend(j) \/ FailSend(j) PROVE Calls'
    BY <1>6, EndMoves DEF Calls, Kept
  <1>7. CASE Reload
    <2>1. \A j \in Jobs : job'[j] = NoJob  BY <1>7 DEF Reload
    <2> QED  BY <2>1 DEF Calls, NoJob
  <1> QED  BY <1>1, <1>2, <1>3, <1>4, <1>5, <1>6, <1>7 DEF Next, Elsewhere

(* Every step keeps the accounts.                                           *)
LEMMA NextAccounts ==
  ASSUME JobShape, Accounts, Calls, Next
  PROVE  Accounts'
  <1>1. ASSUME NEW tx \in taken, Confirm(tx) PROVE Accounts'  BY <1>1, ConfirmAccounts
  <1>2. ASSUME NEW o \in outs, Mature(o) PROVE Accounts'  BY <1>2, MatureAccounts
  <1>3. ASSUME NEW j \in Jobs, Post(j) PROVE Accounts'
    <2>1. outs' = outs /\ confirmed' = confirmed  BY <1>3 DEF Post
    <2>2. Balanced(job[j].tx) /\ (taken' = taken \cup {job[j].tx} \/ taken' = taken)
      BY <1>3, PostMoves DEF Calls
    <2> QED  BY <2>1, <2>2, TakenAccounts
  <1>4. CASE Reload
    <2>1. outs' = outs /\ confirmed' = confirmed  BY <1>4 DEF Reload
    <2>2. PICK arrived \in SUBSET {job[j].tx : j \in {i \in Jobs : job[i].phase = "post"}} :
            taken' = taken \cup arrived
      BY <1>4 DEF Reload
    <2>3. \A tx \in arrived : Balanced(tx)  BY <2>2 DEF Calls
    <2> QED  BY <2>1, <2>2, <2>3, TakenAccounts
  <1>5. ASSUME UNCHANGED node PROVE Accounts'
    BY <1>5, TakenAccounts DEF node
  <1>6. ASSUME \/ Elsewhere /\ ~(\E tx \in taken : Confirm(tx)) /\ ~(\E o \in outs : Mature(o))
               \/ \E j \in Jobs, f \in Fields : initSend(j, f.to, f.cash)
               \/ \E j \in Jobs : AnswerUTXOs(j) \/ LoseRequest(j) \/ FinishSend(j) \/ FailSend(j)
        PROVE  UNCHANGED node
    BY <1>6
    DEF Elsewhere, Unlock, Lock, refresh, OpenPay, PayAgain, LeavePay, AnswerBalance,
        AnswerOutputs, Refuse, setBalance, FailRefresh, saveContact, SkipContact,
        deleteContact, initSend, AnswerUTXOs, LoseRequest, FinishSend, FailSend
  <1> QED  BY <1>1, <1>2, <1>3, <1>4, <1>5, <1>6 DEF Next, Elsewhere

(* Together they are inductive.                                              *)
CashInv == Accounts /\ Fetches /\ Calls

(* They hold in every behaviour.                                            *)
LEMMA CashInvariant == SafetySpec => [](JobShape /\ CashInv)
  <1>1. Init => CashInv
    <2>1. Init => Fetches  BY DEF Init, Fetches, Figure, NoLoad
    <2>2. Init => Calls  BY DEF Init, Calls, NoJob
    <2> QED  BY <2>1, <2>2, InitAccounts DEF CashInv
  <1>2. JobShape /\ CashInv /\ [Next]_vars => CashInv'
    <2> SUFFICES ASSUME JobShape, CashInv, [Next]_vars PROVE CashInv'
      OBVIOUS
    <2>1. CASE Next
      BY <2>1, NextFetches, NextCalls, NextAccounts DEF CashInv
    <2>2. CASE UNCHANGED vars
      <3>1. UNCHANGED <<outs, taken, confirmed>> /\ UNCHANGED <<balance, load, job>>
        BY <2>2 DEF vars, node, fetched
      <3>2. Accounts'  BY <3>1, TakenAccounts DEF CashInv
      <3>3. Fetches'  BY <3>1 DEF CashInv, Fetches, Figure
      <3>4. Calls'  BY <3>1 DEF CashInv, Calls
      <3> QED  BY <3>2, <3>3, <3>4 DEF CashInv
    <2> QED  BY <2>1, <2>2
  <1>3. ButtonInv => JobShape  BY DEF ButtonInv
  <1> QED  BY InitButton, NextButton, <1>1, <1>2, <1>3, PTL DEF SafetySpec

(***************************************************************************)
(* No cash appears or disappears: what the wallet owns and what its        *)
(* confirmed payments took is what it had, for every set of coins, every   *)
(* amount and fee, every number of payments built at once from the same    *)
(* stale list, and every order in which the node takes and confirms them   *)
(* (buildSignTx, Mempool.Add, UTXO Delete and Add).                        *)
(***************************************************************************)
THEOREM CashStays == SafetySpec => []CashIsConserved
  <1>1. CashInv => CashIsConserved
    BY DEF CashInv, Accounts, CashIsConserved, Paid
  <1> QED  BY <1>1, CashInvariant, PTL

-----------------------------------------------------------------------------
(* The rest of the page.                                                     *)

(* A send that shows in the pay tab keeps the tab open.                      *)
PageInv ==
  /\ tab \in {"home", "pay", "locked"}
  /\ asked \in Payees \cup {Blank} /\ contacts \subseteq Payees
  /\ tab # "pay" => asked = Blank
  /\ faults \in Nat /\ faults <= MaxFaults
  /\ \A j \in Jobs : /\ job[j].phase \in Phases
                     /\ job[j].phase # "idle" => job[j].to \in Payees
                     /\ Mounted(j) => tab = "pay"

(* No step but the start of a send mounts one.                               *)
LEMMA HomesAreLeft ==
  ASSUME JobShape, NEW i \in Jobs, Mounted(i)', Next,
         ~\E j \in Jobs, f \in Fields : initSend(j, f.to, f.cash)
  PROVE  Mounted(i)
  <1>1. CASE Lock \/ Reload \/ LeavePay \/ saveContact \/ SkipContact
    <2>1. job' = [j \in Jobs |-> [job[j] EXCEPT !.home = "gone"]] \/ job' = Unmounted(job)
          \/ job' = [j \in Jobs |-> NoJob]
      BY <1>1 DEF Lock, Reload, LeavePay, saveContact, SkipContact, onSuccess
    <2> QED  BY <2>1 DEF Unmounted, NoJob, Mounted, JobShape
  <1>2. ASSUME NEW j \in Jobs, FinishSend(j) \/ FailSend(j)  PROVE Mounted(i)
    <2> DEFINE js == [job EXCEPT ![j] = NoJob]
    <2>1. job' = js \/ job' = Unmounted(js)  BY <1>2 DEF FinishSend, FailSend, onSuccess
    <2>2. js[j] = NoJob /\ \A k \in Jobs \ {j} : js[k] = job[k]  BY DEF JobShape
    <2> HIDE DEF js
    <2>3. job'[i] = js[i] \/ job'[i] = [js[i] EXCEPT !.home = "left"]
      BY <2>1 DEF Unmounted
    <2>4. CASE i = j
      <3>1. job'[i] = NoJob \/ job'[i] = [NoJob EXCEPT !.home = "left"]  BY <2>2, <2>3, <2>4
      <3> QED  BY <3>1 DEF Mounted, NoJob
    <2>5. CASE i # j
      BY <2>2, <2>3, <2>5 DEF Mounted, JobShape
    <2> QED  BY <2>4, <2>5
  <1>3. ASSUME NEW j \in Jobs, AnswerUTXOs(j)  PROVE Mounted(i)
    <2>1. PICK tx, phase : job' = [job EXCEPT ![j].tx = tx, ![j].phase = phase]
      BY <1>3 DEF AnswerUTXOs
    <2>2. job'[j] = [job[j] EXCEPT !.tx = tx, !.phase = phase]
          /\ \A k \in Jobs \ {j} : job'[k] = job[k]
      BY <2>1 DEF JobShape
    <2> QED  BY <2>2 DEF Mounted, JobShape
  <1>4. ASSUME NEW j \in Jobs, Post(j) \/ LoseRequest(j)  PROVE Mounted(i)
    <2>1. PICK phase : job' = [job EXCEPT ![j].phase = phase]
      BY <1>4 DEF Post, LoseRequest
    <2>2. job'[j] = [job[j] EXCEPT !.phase = phase]
          /\ \A k \in Jobs \ {j} : job'[k] = job[k]
      BY <2>1 DEF JobShape
    <2> QED  BY <2>2 DEF Mounted, JobShape
  <1>5. CASE job' = job  BY <1>5 DEF Mounted
  <1>6. ASSUME \/ Unlock \/ refresh \/ OpenPay \/ PayAgain
               \/ \E l \in Loads : \/ AnswerBalance(l) \/ AnswerOutputs(l) \/ Refuse(l)
                                   \/ setBalance(l) \/ FailRefresh(l)
               \/ \E a \in contacts : deleteContact(a)
               \/ (\E tx \in taken : Confirm(tx)) \/ (\E o \in outs : Mature(o))
        PROVE  job' = job
    BY <1>6
    DEF Unlock, refresh, OpenPay, PayAgain, AnswerBalance, AnswerOutputs, Refuse, setBalance,
        FailRefresh, deleteContact, Confirm, Mature
  <1> QED  BY <1>1, <1>2, <1>3, <1>4, <1>5, <1>6 DEF Next

(* Going home leaves no send in the tab.                                     *)
LEMMA HomeIsEmpty ==
  ASSUME JobShape, NEW i \in Jobs,
         \/ Lock \/ Reload \/ LeavePay
         \/ \E js : onSuccess(js)
  PROVE  ~Mounted(i)'
  <1>1. ASSUME NEW js, onSuccess(js)  PROVE ~Mounted(i)'
    <2>1. job' = Unmounted(js)  BY <1>1 DEF onSuccess
    <2>2. job'[i] = IF js[i].home = "mounted" THEN [js[i] EXCEPT !.home = "left"] ELSE js[i]
      BY <2>1 DEF Unmounted
    <2> QED  BY <2>2 DEF Mounted
  <1>2. CASE Lock \/ Reload \/ LeavePay
    <2>1. job' = [j \in Jobs |-> [job[j] EXCEPT !.home = "gone"]] \/ job' = Unmounted(job)
          \/ job' = [j \in Jobs |-> NoJob]
      BY <1>2 DEF Lock, Reload, LeavePay
    <2> QED  BY <2>1 DEF Unmounted, NoJob, Mounted, JobShape
  <1> QED  BY <1>1, <1>2

(* A send is in one of its phases, to somebody.                             *)
LEMMA NextPhases ==
  ASSUME JobShape, PageInv, Next, NEW i \in Jobs
  PROVE  /\ job'[i].phase \in Phases
         /\ job'[i].phase # "idle" => job'[i].to \in Payees
  <1>1. CASE Kept(i)  BY <1>1 DEF Kept, PageInv
  <1>2. CASE Elsewhere  BY <1>1, <1>2, ElsewhereKeeps
  <1>3. ASSUME NEW j \in Jobs, NEW f \in Fields, initSend(j, f.to, f.cash), j = i
        PROVE  job'[i].phase = "utxos" /\ job'[i].to \in Payees
    BY <1>3, InitSendMoves DEF initSend
  <1>4. ASSUME NEW j \in Jobs, AnswerUTXOs(j) \/ Post(j) \/ LoseRequest(j), j = i
        PROVE  job'[i].phase \in {"post", "reply", "error"} /\ job'[i].to \in Payees
    <2>1. job[i].phase # "idle" /\ job'[i].to = job[i].to
          /\ job'[i].phase \in {"post", "reply", "error"}
      BY <1>4, AnswerUTXOsMoves, PostMoves, LoseRequestMoves DEF LoseRequest
    <2> QED  BY <2>1 DEF PageInv
  <1>5. ASSUME NEW j \in Jobs, FinishSend(j) \/ FailSend(j), j = i
        PROVE  job'[i].phase = "idle"
    BY <1>5, EndMoves
  <1>6. ASSUME NEW j \in Jobs, j # i,
               \/ \E f \in Fields : initSend(j, f.to, f.cash)
               \/ AnswerUTXOs(j) \/ Post(j) \/ LoseRequest(j) \/ FinishSend(j) \/ FailSend(j)
        PROVE  Kept(i)
    BY <1>6, InitSendMoves, AnswerUTXOsMoves, PostMoves, LoseRequestMoves, EndMoves
  <1>7. CASE Reload
    <2>1. job'[i] = NoJob  BY <1>7 DEF Reload
    <2> QED  BY <2>1 DEF NoJob, Phases
  <1> QED
    BY <1>1, <1>2, <1>3, <1>4, <1>5, <1>6, <1>7 DEF Next, Elsewhere, Phases

(* What is asked and kept of payees, and the counter of faults.              *)
LEMMA NextPage ==
  ASSUME JobShape, PageInv, Next
  PROVE  PageInv'
  <1> DEFINE Home == /\ tab' \in {"home", "locked"} /\ asked' = Blank /\ contacts' \subseteq Payees
                     /\ \A i \in Jobs : ~Mounted(i)'
             Stays == /\ tab' = tab \/ tab' = "pay" \/ (tab = "locked" /\ tab' = "home")
                      /\ asked' = asked \/ (tab' = "pay" /\ asked' \in Payees)
                      /\ contacts' \subseteq Payees
                      /\ ~\E j \in Jobs, f \in Fields : initSend(j, f.to, f.cash)
  <1>1. faults' \in Nat /\ faults' <= MaxFaults
    <2>1. faults' = faults \/ (faults < MaxFaults /\ faults' = faults + 1)
      BY DEF Next, Unlock, Lock, Reload, refresh, OpenPay, PayAgain, LeavePay, AnswerBalance,
             AnswerOutputs, Refuse, setBalance, FailRefresh, saveContact, SkipContact,
             deleteContact, Confirm, Mature, initSend, AnswerUTXOs, Post, LoseRequest,
             FinishSend, FailSend
    <2> QED  BY <2>1, WalletAssumption DEF PageInv
  <1>2. CASE Lock \/ Reload \/ LeavePay
    <2>1. tab' \in {"home", "locked"} /\ asked' = Blank /\ contacts' = contacts
      BY <1>2 DEF Lock, Reload, LeavePay, ClearForm
    <2> QED  BY <1>2, <2>1, HomeIsEmpty, <1>1, NextPhases DEF PageInv
  <1>3. CASE saveContact \/ SkipContact
    <2>1. onSuccess(job) /\ contacts' \subseteq contacts \cup {asked} /\ asked # Blank
      BY <1>3, Offering DEF saveContact, SkipContact
    <2>2. tab' = "home" /\ asked' = Blank /\ contacts' \subseteq Payees
      BY <2>1 DEF onSuccess, ClearForm, PageInv
    <2> QED  BY <2>1, <2>2, HomeIsEmpty, <1>1, NextPhases DEF PageInv
  <1>4. ASSUME NEW j \in Jobs, FinishSend(j)  PROVE PageInv'
    <2> DEFINE js == [job EXCEPT ![j] = NoJob]
    <2>1. job[j].to \in Payees /\ contacts' = contacts
      BY <1>4 DEF FinishSend, PageInv
    <2>2. CASE onSuccess(js)
      <3>1. tab' = "home" /\ asked' = Blank  BY <2>2 DEF onSuccess, ClearForm
      <3>2. \A i \in Jobs : ~Mounted(i)'  BY <2>2, HomeIsEmpty
      <3> QED  BY <2>1, <3>1, <3>2, <1>1, NextPhases DEF PageInv
    <2>3. CASE ~onSuccess(js)
      <3>1. /\ tab' = tab
            /\ asked' = asked \/ (Mounted(j) /\ asked' = job[j].to)
        BY <1>4, <2>3 DEF FinishSend, form, Mounted
      <3>2. ~\E k \in Jobs, f \in Fields : initSend(k, f.to, f.cash)
        BY <1>4, <2>3, Offering DEF FinishSend, form, initSend
      <3> QED  BY <2>1, <3>1, <3>2, <1>1, NextPhases, HomesAreLeft DEF PageInv
    <2> QED  BY <2>2, <2>3
  <1>5. ASSUME NEW j \in Jobs, NEW f \in Fields, initSend(j, f.to, f.cash)  PROVE PageInv'
    <2>1. tab = "pay" /\ tab' = tab /\ asked' = asked /\ contacts' = contacts
      BY <1>5, Offering DEF initSend
    <2> QED  BY <2>1, <1>1, NextPhases DEF PageInv
  <1>6. CASE Stays
    BY <1>6, <1>1, NextPhases, HomesAreLeft DEF PageInv
  <1>7. ASSUME \/ Unlock \/ refresh \/ OpenPay \/ PayAgain
               \/ \E l \in Loads : \/ AnswerBalance(l) \/ AnswerOutputs(l) \/ Refuse(l)
                                   \/ setBalance(l) \/ FailRefresh(l)
               \/ \E a \in contacts : deleteContact(a)
               \/ \E tx \in taken : Confirm(tx)
               \/ \E o \in outs : Mature(o)
               \/ \E j \in Jobs : AnswerUTXOs(j) \/ Post(j) \/ LoseRequest(j) \/ FailSend(j),
               ~\E j \in Jobs, f \in Fields : initSend(j, f.to, f.cash)
        PROVE  Stays
    BY <1>7
    DEF Unlock, refresh, OpenPay, PayAgain, AnswerBalance, AnswerOutputs, Refuse, setBalance,
        FailRefresh, deleteContact, Confirm, Mature, AnswerUTXOs, Post, LoseRequest, FailSend,
        form, PageInv
  <1> HIDE DEF Stays
  <1> QED  BY <1>2, <1>3, <1>4, <1>5, <1>6, <1>7 DEF Next

(***************************************************************************)
(* The types, with two facts about the page: the history is never longer   *)
(* than its cap, and away from the pay tab no button is blocked and no     *)
(* contact is asked about (Wallet.jsx).                                    *)
(***************************************************************************)
THEOREM TypesHold == SafetySpec => []TypeOK
  <1>1. Init => PageInv /\ HistoryInv
    <2>1. Init => PageInv
      BY WalletAssumption DEF Init, PageInv, NoJob, Phases, Mounted
    <2>2. Init => HistoryInv
      BY WalletAssumption DEF Init, HistoryInv, Replies, NoJob, ToSet, EachOnce
    <2> QED  BY <2>1, <2>2
  <1>2. JobShape /\ PageInv /\ [Next]_vars => PageInv'
    <2> SUFFICES ASSUME JobShape, PageInv, UNCHANGED vars PROVE PageInv'
      BY NextPage
    <2> QED  BY DEF vars, form, PageInv, Mounted
  <1>3. ButtonInv /\ CashInv /\ HistoryInv /\ PageInv => TypeOK
    BY DEF ButtonInv, JobShape, OneSend, CashInv, Accounts, Fetches, Figure, HistoryInv, PageInv,
           TypeOK
  <1>4. ButtonInv => JobShape  BY DEF ButtonInv
  <1> QED
    BY InitButton, NextButton, CashInvariant, NextHistory, <1>1, <1>2, <1>3, <1>4, PTL
    DEF SafetySpec

=============================================================================
