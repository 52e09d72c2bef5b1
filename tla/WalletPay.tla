----------------------------- MODULE WalletPay -----------------------------
(***************************************************************************)
(* The open wallet of src/web/src/pages/Wallet.jsx: its balance, the pay   *)
(* tab and the history of payments, with the node it talks to by HTTP.     *)
(* Every fetch is a request in flight: the node answers at one moment, the *)
(* page takes the answer at a later one, and meanwhile the user goes on.   *)
(* The node confirms and matures outputs on its own; src/rpc.go and        *)
(* src/mempool.go decide what it answers.                                  *)
(***************************************************************************)
EXTENDS Integers, SequencesExt

CONSTANTS
  Typed,       \* what a user enters at "To": payees, the own address, no address
  Payees,      \* those of them that are valid addresses
  Me,          \* the own address
  Amounts,     \* amounts entered, in cash; 0 is one that rounds to nothing
  FEE,
  Coins,       \* outputs of the wallet at the start, of other transactions
  MaxSends,    \* payments taken or under way, a bound
  Stamps,      \* times in seconds at which a payment may be built
  Jobs, Loads, \* sends and refreshes in flight, bounds
  MaxFaults,   \* lost answers, errors and reloads, a bound
  SendsCap,    \* entries kept of the history, 100
  Blank,       \* null, or an empty field
  Undefined    \* what d.balance is in an answer that holds an error

ASSUME WalletAssumption ==
  /\ FEE \in Nat /\ Amounts \subseteq Nat
  /\ SendsCap \in Nat /\ MaxFaults \in Nat
  /\ IsFiniteSet(Coins)
  /\ \A c \in Coins : /\ c = [id |-> c.id, value |-> c.value, mature |-> c.mature]
                      /\ c.id[1] = "coin" /\ c.value \in Nat /\ c.mature \in BOOLEAN
  /\ \A c, d \in Coins : c.id = d.id => c = d

VARIABLES
  outs,        \* the node's unspent outputs of this wallet
  taken,       \* payments the node has accepted
  confirmed,   \* those of them in the chain
  tab,         \* "home" for every tab but the pay tab, "locked" without a wallet
  sending,     \* its button is disabled
  asked,       \* the address SaveContactModal asks about
  balance, utxos,   \* as last fetched
  contacts,    \* addresses in localStorage 'chakram_contacts'
  sends,       \* localStorage 'chakram_sends', newest first
  job,         \* [Jobs -> a call of execSend]
  load,        \* [Loads -> a call of refresh]
  faults,
  lost         \* auxiliary: payments whose answer the page cannot take any more

node == <<outs, taken, confirmed>>
form == <<sending, asked>>
fetched == <<balance, utxos>>
vars == <<node, tab, form, fetched, contacts, sends, job, load, faults, lost>>

Fail == Blank
NoJob  == [phase |-> "idle", to |-> Blank, cash |-> 0, tx |-> Fail, home |-> "gone"]
NoLoad == [phase |-> "idle", value |-> Blank, list |-> Blank]

Worth(os) == SumFunctionOnSet([o \in os |-> o.value], os)

Spendable == {o \in outs : o.mature}

-----------------------------------------------------------------------------
(* Where buildSignTx stops: after the shortest part of the list whose mature *)
(* outputs are enough, of which those are taken.                             *)
Selected(listed, n) == {u \in {listed[i] : i \in 1..n} : u.mature}

Enough(listed, needed) == {n \in 0..Len(listed) : Worth(Selected(listed, n)) >= needed}

(* A mutant: the fee is taken from the change twice.                         *)
buildSignTx_FeeTwice(listed, toAddr, amtCash, stamp) ==
  LET needed == amtCash + FEE
      sel    == Selected(listed, Min(Enough(listed, needed)))
  IN  IF Enough(listed, needed) = {} THEN Fail
      ELSE [ins |-> {u.id : u \in sel}, to |-> toAddr, cash |-> amtCash,
            change |-> Worth(sel) - needed - FEE, at |-> stamp]

(* Outputs in the order the node lists them until they are enough; a change  *)
(* output for what is left.  The time is part of what the txid hashes.       *)
buildSignTx(listed, toAddr, amtCash, stamp) ==
  LET needed == amtCash + FEE
      sel    == Selected(listed, Min(Enough(listed, needed)))
  IN  IF Enough(listed, needed) = {} THEN Fail
      ELSE [ins |-> {u.id : u \in sel}, to |-> toAddr, cash |-> amtCash,
            change |-> Worth(sel) - amtCash - FEE, at |-> stamp]

(* tx.Validate and Mempool.Add: inputs are looked up in the confirmed set    *)
(* only, so payments of one output are all accepted.                         *)
Acceptable(tx) ==
  /\ tx.cash # 0
  /\ tx \notin taken
  /\ tx.ins \subseteq {o.id : o \in Spendable}

getContactName(addr) == addr \in contacts

(* A mutant: the history is not cut.                                         *)
trackSend_NoCap(tx) == sends' = Cons(tx, sends)

trackSend(tx) == sends' = SubSeq(Cons(tx, sends), 1, IF Len(sends) < SendsCap THEN Len(sends) + 1
                                                     ELSE SendsCap)

(* HomeTab's "Pay again".                                                    *)
recentPeople == contacts \cup {tx.to : tx \in ToSet(SubSeq(sends, 1, IF Len(sends) < 5 THEN Len(sends) ELSE 5))}

(***************************************************************************)
(* What each component lets its user do, by the name of the handler; what  *)
(* only fills a field or shows another view is left out.                   *)
(***************************************************************************)
HomeTab == {"onTabChange"} \cup {h \in {"onSend"} : recentPeople # {}}

(* Typing, the contacts, the scanner and MAX fill the form (Fields); its     *)
(* button is disabled while it sends.                                        *)
PayTab == {h \in {"initSend"} : ~sending}

SaveContactModal == {"onSave", "onSkip"}
SettingsModal == {"deleteContact"}

WalletApp ==
  IF tab = "locked" THEN {}
  ELSE {"onLock", "setTab"} \cup SettingsModal
       \cup (IF tab = "home" THEN HomeTab ELSE {}) \cup (IF tab = "pay" THEN PayTab ELSE {})

(* SaveContactModal covers the page.                                         *)
Offered == IF asked = Blank THEN WalletApp ELSE SaveContactModal

(* A fetch of the balance starts, by timer, button or onSuccess.             *)
Started(ls) ==
  IF \E l \in Loads : ls[l] = NoLoad
  THEN [ls EXCEPT ![CHOOSE l \in Loads : ls[l] = NoLoad] = [NoLoad EXCEPT !.phase = "asked"]]
  ELSE ls

(* A mutant: a send ends with the tab that started it.                       *)
Unmounted_Dropped(js) ==
  [j \in Jobs |-> IF js[j].home = "mounted" THEN NoJob ELSE js[j]]

(* PayTab unmounts; its send goes on.                                        *)
Unmounted(js) ==
  [j \in Jobs |-> IF js[j].home = "mounted" THEN [js[j] EXCEPT !.home = "left"] ELSE js[j]]

ClearForm == sending' = FALSE /\ asked' = Blank

(* WalletApp's onSuccess, which a send of a PayTab long left calls as well.  *)
onSuccess(js) ==
  /\ tab' = "home"
  /\ ClearForm
  /\ job' = Unmounted(js)
  /\ load' = Started(load)

Init ==
  /\ outs = Coins /\ taken = {} /\ confirmed = {}
  /\ tab = "locked" /\ sending = FALSE /\ asked = Blank
  /\ balance = Blank /\ utxos = {} /\ contacts = {} /\ sends = <<>>
  /\ job = [j \in Jobs |-> NoJob] /\ load = [l \in Loads |-> NoLoad]
  /\ faults = 0 /\ lost = {}

-----------------------------------------------------------------------------
(* The page.                                                                 *)

(* WalletApp mounts: nothing is known of the balance, the first refresh runs. *)
Unlock ==
  /\ tab = "locked"
  /\ tab' = "home"
  /\ load' = Started(load)
  /\ UNCHANGED <<node, form, fetched, contacts, sends, job, faults, lost>>

(* Answers to a refresh of the unmounted WalletApp are discarded; a send     *)
(* runs to its end.                                                          *)
Lock ==
  /\ "onLock" \in Offered
  /\ tab' = "locked"
  /\ ClearForm
  /\ balance' = Blank /\ utxos' = {}
  /\ job' = [j \in Jobs |-> [job[j] EXCEPT !.home = "gone"]]
  /\ load' = [l \in Loads |-> NoLoad]
  /\ UNCHANGED <<node, contacts, sends, faults, lost>>

(* The page is reloaded: every call ends; a payment under way may arrive.    *)
Reload ==
  /\ tab # "locked" /\ faults < MaxFaults
  /\ faults' = faults + 1
  /\ tab' = "locked"
  /\ ClearForm
  /\ balance' = Blank /\ utxos' = {}
  /\ job' = [j \in Jobs |-> NoJob]
  /\ load' = [l \in Loads |-> NoLoad]
  /\ LET posted == {job[j].tx : j \in {i \in Jobs : job[i].phase = "post"}}
         held   == {job[j].tx : j \in {i \in Jobs : job[i].phase = "reply"}} IN
       \E arrived \in SUBSET {tx \in posted : Acceptable(tx)} :
         /\ taken' = taken \cup arrived
         /\ lost' = lost \cup arrived \cup held
  /\ UNCHANGED <<outs, confirmed, contacts, sends>>

(* A mutant: the balance is fetched until it is known, and then no more.     *)
refresh_Once ==
  /\ tab # "locked" /\ balance = Blank
  /\ \E l \in Loads : load[l] = NoLoad
  /\ load' = Started(load)
  /\ UNCHANGED <<node, tab, form, fetched, contacts, sends, job, faults, lost>>

(* The 15-second timer or the button.                                        *)
refresh ==
  /\ tab # "locked"
  /\ \E l \in Loads : load[l] = NoLoad
  /\ load' = Started(load)
  /\ UNCHANGED <<node, tab, form, fetched, contacts, sends, job, faults, lost>>

(* The balance and the outputs are two requests, answered at their own       *)
(* moments; an answer that is an error object has no balance and no list.    *)
AnswerBalance(l) ==
  /\ load[l].phase = "asked" /\ load[l].value = Blank
  /\ load' = [load EXCEPT ![l].value = Worth(Spendable)]
  /\ UNCHANGED <<node, tab, form, fetched, contacts, sends, job, faults, lost>>

AnswerOutputs(l) ==
  /\ load[l].phase = "asked" /\ load[l].list = Blank
  /\ load' = [load EXCEPT ![l].list = outs]
  /\ UNCHANGED <<node, tab, form, fetched, contacts, sends, job, faults, lost>>

Refuse(l) ==
  /\ load[l].phase = "asked" /\ faults < MaxFaults
  /\ faults' = faults + 1
  /\ \/ load[l].value = Blank /\ load' = [load EXCEPT ![l].value = Undefined]
     \/ load[l].list = Blank  /\ load' = [load EXCEPT ![l].list = {}]
  /\ UNCHANGED <<node, tab, form, fetched, contacts, sends, job, lost>>

(* Promise.all has both.                                                     *)
setBalance(l) ==
  /\ load[l].value # Blank /\ load[l].list # Blank
  /\ balance' = load[l].value
  /\ utxos' = load[l].list
  /\ load' = [load EXCEPT ![l] = NoLoad]
  /\ UNCHANGED <<node, tab, form, contacts, sends, job, faults, lost>>

FailRefresh(l) ==
  /\ load[l].phase = "asked" /\ faults < MaxFaults
  /\ faults' = faults + 1
  /\ load' = [load EXCEPT ![l] = NoLoad]
  /\ UNCHANGED <<node, tab, form, fetched, contacts, sends, job, lost>>

(* The tab bar, Pay, Scan QR, and a tap on someone under "Pay again", whose  *)
(* address PayTab does not take over.                                        *)
OpenPay ==
  /\ tab = "home" /\ {"setTab", "onTabChange"} \cap Offered # {}
  /\ tab' = "pay"
  /\ UNCHANGED <<node, form, fetched, contacts, sends, job, load, faults, lost>>

PayAgain ==
  /\ "onSend" \in Offered
  /\ OpenPay

LeavePay ==
  /\ tab = "pay" /\ "setTab" \in Offered
  /\ tab' = "home"
  /\ ClearForm
  /\ job' = Unmounted(job)
  /\ UNCHANGED <<node, fetched, contacts, sends, load, faults, lost>>

(* The balance card shows a number, not a dash or NaN.                       *)
BalanceKnown == balance \notin {Blank, Undefined}

MaxAmount == IF BalanceKnown /\ balance > FEE THEN balance - FEE ELSE 0

(* What is in the form when its button is pressed: typed, picked from the    *)
(* contacts, scanned, or MAX.                                                *)
Fields == [to : Typed, cash : Amounts \cup {MaxAmount}]

(* The checks of initSend, then execSend up to its first fetch.  A balance   *)
(* that is not known refuses nothing; an attempt that is refused changes     *)
(* nothing but an error text.                                                *)
initSend(j, to, cash) ==
  /\ "initSend" \in Offered
  /\ to \in Payees /\ to # Me
  /\ BalanceKnown => cash + FEE <= balance
  /\ job[j] = NoJob
  /\ Cardinality(taken) + Cardinality({i \in Jobs : job[i] # NoJob}) < MaxSends
  /\ sending' = TRUE
  /\ job' = [job EXCEPT ![j] = [phase |-> "utxos", to |-> to, cash |-> cash,
                                tx |-> Fail, home |-> "mounted"]]
  /\ UNCHANGED <<node, tab, asked, fetched, contacts, sends, load, faults, lost>>

(* getUTXOs is answered and the payment built, signed and posted.            *)
AnswerUTXOs(j) ==
  /\ job[j].phase = "utxos"
  /\ \E listed \in SetToSeqs(outs), stamp \in Stamps :
       LET tx == buildSignTx(listed, job[j].to, job[j].cash, stamp) IN
       job' = [job EXCEPT ![j].tx = tx, ![j].phase = IF tx = Fail THEN "error" ELSE "post"]
  /\ UNCHANGED <<node, tab, form, fetched, contacts, sends, load, faults, lost>>

(* The node takes the payment or refuses it.                                 *)
Post(j) ==
  /\ job[j].phase = "post"
  /\ IF Acceptable(job[j].tx)
     THEN taken' = taken \cup {job[j].tx} /\ job' = [job EXCEPT ![j].phase = "reply"]
     ELSE taken' = taken /\ job' = [job EXCEPT ![j].phase = "error"]
  /\ UNCHANGED <<outs, confirmed, tab, form, fetched, contacts, sends, load, faults, lost>>

(* A request or an answer is lost, or the node's limiter refuses the request. *)
LoseRequest(j) ==
  /\ job[j].phase \in {"utxos", "post", "reply"} /\ faults < MaxFaults
  /\ faults' = faults + 1
  /\ job' = [job EXCEPT ![j].phase = "error"]
  /\ lost' = IF job[j].phase = "reply" THEN lost \cup {job[j].tx} ELSE lost
  /\ UNCHANGED <<node, tab, form, fetched, contacts, sends, load>>

(* After postTx.  A PayTab that is gone shows no modal.                      *)
FinishSend(j) ==
  LET js == [job EXCEPT ![j] = NoJob] IN
  /\ job[j].phase = "reply"
  /\ trackSend(job[j].tx)
  /\ IF job[j].home # "gone" /\ getContactName(job[j].to)
     THEN onSuccess(js)
     ELSE /\ job' = js
          /\ IF job[j].home = "mounted"
             THEN sending' = FALSE /\ asked' = job[j].to
             ELSE UNCHANGED form
          /\ UNCHANGED <<tab, load>>
  /\ UNCHANGED <<node, fetched, contacts, faults, lost>>

(* A mutant: a send that fails frees the button of whatever tab is shown.    *)
FailSend_FreesAny(j) ==
  /\ job[j].phase = "error"
  /\ job' = [job EXCEPT ![j] = NoJob]
  /\ sending' = FALSE
  /\ UNCHANGED <<node, tab, asked, fetched, contacts, sends, load, faults, lost>>

(* A mutant: the button is freed after a success only.                       *)
FailSend_NoFinally(j) ==
  /\ job[j].phase = "error"
  /\ job' = [job EXCEPT ![j] = NoJob]
  /\ UNCHANGED <<node, tab, form, fetched, contacts, sends, load, faults, lost>>

(* The error is shown, the fields stay.                                      *)
FailSend(j) ==
  /\ job[j].phase = "error"
  /\ job' = [job EXCEPT ![j] = NoJob]
  /\ sending' = IF job[j].home = "mounted" THEN FALSE ELSE sending
  /\ UNCHANGED <<node, tab, asked, fetched, contacts, sends, load, faults, lost>>

(* SaveContactModal, answered.                                               *)
saveContact ==
  /\ "onSave" \in Offered
  /\ contacts' = contacts \cup {asked}
  /\ onSuccess(job)
  /\ UNCHANGED <<node, fetched, sends, faults, lost>>

SkipContact ==
  /\ "onSkip" \in Offered
  /\ onSuccess(job)
  /\ UNCHANGED <<node, fetched, contacts, sends, faults, lost>>

(* In the settings.                                                          *)
deleteContact(a) ==
  /\ "deleteContact" \in Offered
  /\ a \in contacts
  /\ contacts' = contacts \ {a}
  /\ UNCHANGED <<node, tab, form, fetched, sends, job, load, faults, lost>>

-----------------------------------------------------------------------------
(* The chain.                                                                *)
changeOf(tx) == [id |-> <<"change", tx>>, value |-> tx.change, mature |-> TRUE]

Confirm(tx) ==
  /\ tx \in taken \ confirmed
  /\ tx.ins \subseteq {o.id : o \in Spendable}
  /\ confirmed' = confirmed \cup {tx}
  /\ outs' = {o \in outs : o.id \notin tx.ins} \cup
             (IF tx.change > 0 THEN {changeOf(tx)} ELSE {})
  /\ UNCHANGED <<taken, tab, form, fetched, contacts, sends, job, load, faults, lost>>

Mature(o) ==
  /\ o \in outs \ Spendable
  /\ outs' = (outs \ {o}) \cup {[o EXCEPT !.mature = TRUE]}
  /\ UNCHANGED <<taken, confirmed, tab, form, fetched, contacts, sends, job, load, faults, lost>>

Next ==
  \/ Unlock \/ Lock \/ Reload \/ refresh
  \/ \E l \in Loads : \/ AnswerBalance(l) \/ AnswerOutputs(l) \/ Refuse(l)
                      \/ setBalance(l) \/ FailRefresh(l)
  \/ OpenPay \/ PayAgain \/ LeavePay
  \/ \E j \in Jobs, f \in Fields : initSend(j, f.to, f.cash)
  \/ \E j \in Jobs : \/ AnswerUTXOs(j) \/ Post(j) \/ LoseRequest(j)
                     \/ FinishSend(j) \/ FailSend(j)
  \/ saveContact \/ SkipContact
  \/ \E a \in contacts : deleteContact(a)
  \/ \E tx \in taken : Confirm(tx)
  \/ \E o \in outs : Mature(o)

(* A fetch ends with an answer or an error, a promise runs its callbacks,    *)
(* and the interval timer fires as long as WalletApp is mounted.  Nothing is *)
(* asked of the user, of the faults or of the chain.                         *)
Fairness ==
  /\ WF_vars(refresh)
  /\ \A l \in Loads : WF_vars(AnswerBalance(l)) /\ WF_vars(AnswerOutputs(l)) /\ WF_vars(setBalance(l))
  /\ \A j \in Jobs : WF_vars(AnswerUTXOs(j)) /\ WF_vars(Post(j))
                     /\ WF_vars(FinishSend(j)) /\ WF_vars(FailSend(j))

SafetySpec == Init /\ [][Next]_vars

Spec == SafetySpec /\ Fairness

-----------------------------------------------------------------------------
Phases == {"idle", "utxos", "post", "reply", "error"}

TypeOK ==
  /\ confirmed \subseteq taken
  /\ tab \in {"home", "pay", "locked"}
  /\ asked \in Payees \cup {Blank}
  /\ sending \in BOOLEAN
  /\ balance \in {Blank, Undefined} \/ balance \in Nat
  /\ contacts \subseteq Payees
  /\ Len(sends) <= SendsCap
  /\ \A j \in Jobs : job[j].phase \in Phases
  /\ tab # "pay" => ~sending /\ asked = Blank
  /\ faults <= MaxFaults

(* No cash appears or disappears: what the wallet owns and what its          *)
(* confirmed payments took, each the amount shown and one fee, is what it    *)
(* had, whatever stale lists of outputs the payments were built from         *)
(* (buildSignTx's selection and change).                                     *)
CashIsConserved ==
  Worth(outs) + SumFunctionOnSet([tx \in confirmed |-> tx.cash + FEE], confirmed) = Worth(Coins)

(* The history holds payments the node took, each once; a payment taken is   *)
(* missing only while its answer is under way, when the page could not take  *)
(* the answer, or when newer ones have filled the list (trackSend).          *)
HistoryIsHonest ==
  LET UnderWay == {job[j].tx : j \in {i \in Jobs : job[i].phase = "reply"}} IN
  /\ \A i, k \in DOMAIN sends : sends[i] = sends[k] => i = k
  /\ ToSet(sends) \subseteq taken
  /\ Len(sends) < SendsCap => taken \subseteq ToSet(sends) \cup UnderWay \cup lost

(* The button is disabled exactly while a send of this PayTab runs, of which *)
(* there is at most one; sends of pay tabs left earlier neither free nor     *)
(* block it (setSending in execSend).                                        *)
BusyWhileSending ==
  LET Mine == {j \in Jobs : job[j] # NoJob /\ job[j].home = "mounted"} IN
  /\ sending <=> Mine # {}
  /\ \A i, j \in Mine : i = j

(* A send ends, one way or the other, and frees the button.                  *)
SendEnds == sending ~> ~sending

(* What the activity tab lists: every output of the wallet is "received",    *)
(* its own change as well, and every entry of the history "sent".            *)
allItems ==
  {[type |-> "received", of |-> o.id] : o \in utxos} \cup
  {[type |-> "sent", of |-> tx] : tx \in ToSet(sends)}

ActivityTab(filter) == {i \in allItems : filter \in {"all", i.type}}

(* An open wallet ends up showing the balance and the outputs that the node  *)
(* has, although refreshes overlap, answer out of order or half, fail, or    *)
(* answer with an error object (refresh and its timer).                      *)
BalanceCatchesUp ==
  <>[](tab # "locked") =>
    <>[](/\ balance = Worth(Spendable)
         /\ {i.of : i \in ActivityTab("received")} = {o.id : o \in outs})
=============================================================================
