------------------------ MODULE WalletSession_proofs ------------------------
(***************************************************************************)
(* What the screens keep of a wallet, for every number of tabs, every      *)
(* list of phrases and every encoding that CodecRoundTrips holds of.       *)
(***************************************************************************)
EXTENDS WalletSession, TLAPS

Shape ==
  /\ screen \in [Tabs -> Screens]
  /\ DOMAIN session = Tabs /\ DOMAIN words = Tabs
  /\ DOMAIN ws = Tabs /\ DOMAIN revealed = Tabs
  /\ \A t \in Tabs : "seed" \in DOMAIN ws[t]
  /\ known \subseteq Phrase
  /\ \A mn \in known : mnToEnt(mn) \in Entropies /\ entToMn(mnToEnt(mn)) = mn
  /\ foreign \subseteq Tabs /\ drafting \subseteq Tabs

Draft(ent) ==
  [s |-> ent, mn |-> entToMn(ent), a |-> pkhToAddr(PkhOf[ent]), pkh |-> PkhOf[ent]]

(* What the create screen shows is one draw, and all of it.                  *)
DraftsAreWallets ==
  \A t \in Tabs : screen[t] \in {"create", "password"} =>
    \E ent \in Draws : session[t] = Draft(ent) /\ words[t] = entToMn(ent)

WordsAreWrittenDown == \A t \in Tabs : screen[t] = "password" => words[t] \in known

IsRecord(record, mn, ent, pw) ==
  record = [addr |-> pkhToAddr(PkhOf[ent]), mn |-> mn, ct |-> [seed |-> ent, pw |-> pw]]

(* The record is what storeW is given for an entropy and its phrase.         *)
StoredIsRecord ==
  stored # NoWallet =>
    \E mn \in known, ent \in Entropies, pw \in Passwords :
      mnToEnt(mn) = ent /\ IsRecord(stored, mn, ent, pw)

IsOpen(w, ent) ==
  w.seed = ent /\ w.pkh = PkhOf[ent] /\ w.address = pkhToAddr(PkhOf[ent])

OpenIsWallet ==
  \A t \in Tabs : screen[t] = "wallet" =>
    \E mn \in known, ent \in Entropies : mnToEnt(mn) = ent /\ IsOpen(ws[t], ent)

(* The two halves of OnlyDraftsStay: of the wallet, and of the draft.        *)
ClosedTabs == \A t \in Tabs : screen[t] # "wallet" => ws[t].seed = <<>> /\ revealed[t] = <<>>

DraftsAreKept ==
  \A t \in Tabs :
    /\ session[t] # NoDraft => t \in drafting
    /\ words[t] # <<>> =>
         screen[t] \in {"create", "password"} /\ t \in drafting /\ words[t] = session[t].mn

SessionInv ==
  /\ Shape
  /\ DraftsAreWallets
  /\ WordsAreWrittenDown
  /\ StoredIsRecord
  /\ OpenIsWallet
  /\ RecordIsOpenWallet
  /\ ClosedTabs
  /\ DraftsAreKept

-----------------------------------------------------------------------------
(* Which screen a handler is called from.                                    *)
LEMMA Offering ==
  ASSUME screen \in [Tabs -> Screens], NEW t \in Tabs
  PROVE  /\ Offered(t, "onNew") \/ Offered(t, "onRestore") => screen[t] = "welcome"
         /\ Offered(t, "onUnlock") \/ Offered(t, "onSwitch") => screen[t] = "unlock"
         /\ Offered(t, "setStep") => screen[t] = "create"
         /\ Offered(t, "create") => screen[t] = "password"
         /\ Offered(t, "restore") => screen[t] = "restore"
         /\ Offered(t, "onBack") => screen[t] \in {"create", "password", "restore"}
         /\ Offered(t, "onLock") \/ Offered(t, "onRemoveWallet") \/ Offered(t, "onRevealPhrase")
              => screen[t] = "wallet"
  <1> USE DEF Offered, Offers, WelcomeScreen, CreateScreen, RestoreScreen, UnlockScreen, SettingsModal
  <1>1. CASE screen[t] = "loading"
    BY <1>1
  <1>2. CASE screen[t] = "welcome"
    BY <1>2
  <1>3. CASE screen[t] = "unlock"
    BY <1>3
  <1>4. CASE screen[t] = "create"
    BY <1>4
  <1>5. CASE screen[t] = "password"
    BY <1>5
  <1>6. CASE screen[t] = "restore"
    BY <1>6
  <1>7. CASE screen[t] = "wallet"
    BY <1>7
  <1> QED
    BY <1>1, <1>2, <1>3, <1>4, <1>5, <1>6, <1>7 DEF Screens

LEMMA InitSession == Init => SessionInv
  BY DEF Init, SessionInv, Shape, Screens, Null, DraftsAreWallets, WordsAreWrittenDown,
         StoredIsRecord, OpenIsWallet, RecordIsOpenWallet, ClosedTabs, DraftsAreKept, NoDraft

(* What a draw of the create screen comes to.                                *)
LEMMA DrawIsWallet ==
  ASSUME CodecRoundTrips, NEW ent \in Draws
  PROVE  ent \in Entropies /\ entToMn(ent) \in Phrase /\ mnToEnt(entToMn(ent)) = ent
  BY SessionAssumption DEF CodecRoundTrips, Phrase

(* A phrase that the restore screen accepts has an entropy.                  *)
LEMMA AcceptedPhrase ==
  ASSUME CodecRoundTrips, NEW mn \in Phrases, mnToEnt(mn) # Fail
  PROVE  mnToEnt(mn) \in Entropies /\ entToMn(mnToEnt(mn)) = mn
  <1>1. mn \in Seq(Nat) /\ Len(mn) = WordCount /\ \A i \in DOMAIN mn : mn[i] < WordBase
    BY SessionAssumption DEF mnToEnt
  <1>2. mn \in [1..WordCount -> 0..(WordBase - 1)]
    BY <1>1, SessionAssumption
  <1> QED
    BY <1>2 DEF CodecRoundTrips

(* storeW writes a whole record and makes it the one of its tab only.        *)
LEMMA WriteRecord ==
  ASSUME SessionInv, NEW t \in Tabs, NEW mn \in Phrase, NEW ent \in Entropies,
         NEW pw \in Passwords, mnToEnt(mn) = ent, mn \in known', known \subseteq known',
         storeW(t, pkhToAddr(PkhOf[ent]), mn, encSeed(ent, pw)),
         screen' = [screen EXCEPT ![t] = "wallet"],
         DOMAIN ws' = Tabs, \A u \in Tabs \ {t} : ws'[u] = ws[u],
         IsOpen(ws'[t], ent), revealed' = revealed, revealed[t] = <<>>
  PROVE  StoredIsRecord' /\ OpenIsWallet' /\ RecordIsOpenWallet' /\ ClosedTabs'
  <1>1. IsRecord(stored', mn, ent, pw) /\ stored' # NoWallet
    BY SessionAssumption DEF storeW, Write, encSeed, IsRecord
  <1>2. foreign' = {u \in Tabs \ {t} : screen[u] = "wallet"}
    BY DEF storeW, Write
  <1>3. screen'[t] = "wallet" /\ \A u \in Tabs \ {t} : screen'[u] = screen[u]
    BY DEF SessionInv, Shape
  <1>4. StoredIsRecord'
    BY <1>1 DEF StoredIsRecord
  <1>5. OpenIsWallet'
    BY <1>3 DEF OpenIsWallet, SessionInv
  <1>6. RecordIsOpenWallet'
    <2>1. \A u \in Tabs \ foreign' : screen'[u] = "wallet" => u = t
      BY <1>2, <1>3
    <2>2. stored'.ct.seed = ws'[t].seed /\ stored'.addr = ws'[t].address
      BY <1>1 DEF IsRecord, IsOpen
    <2> QED
      BY <1>1, <2>1, <2>2 DEF RecordIsOpenWallet
  <1>7. ClosedTabs'
    BY <1>3 DEF ClosedTabs, SessionInv
  <1> QED
    BY <1>4, <1>5, <1>6, <1>7

(* A tab changes its screen, its draft and its words only.                   *)
LEMMA OwnScreen ==
  ASSUME SessionInv, NEW t \in Tabs, NEW s \in Screens \ {"wallet"}, Show(t, s),
         screen[t] # "wallet", UNCHANGED <<stored, ws, revealed, foreign>>,
         known \subseteq known'
  PROVE  StoredIsRecord' /\ OpenIsWallet' /\ RecordIsOpenWallet' /\ ClosedTabs'
  <1>1. screen'[t] = s /\ \A u \in Tabs \ {t} : screen'[u] = screen[u]
    BY DEF SessionInv, Shape, Show
  <1>2. StoredIsRecord'
    BY DEF SessionInv, StoredIsRecord
  <1>3. OpenIsWallet'
    BY <1>1 DEF SessionInv, OpenIsWallet
  <1>4. RecordIsOpenWallet'
    BY <1>1 DEF SessionInv, RecordIsOpenWallet
  <1>5. ClosedTabs'
    BY <1>1 DEF SessionInv, ClosedTabs
  <1> QED
    BY <1>2, <1>3, <1>4, <1>5

(* A tab closes its wallet; the record stays or goes with it.                *)
LEMMA CloseWallet ==
  ASSUME SessionInv, NEW t \in Tabs, NEW s \in Screens \ {"wallet"}, Show(t, s),
         \/ stored' = stored /\ foreign \ {t} \subseteq foreign'
         \/ stored' = NoWallet /\ \A u \in Tabs \ {t} : screen[u] = "wallet" => u \in foreign',
         DOMAIN ws' = Tabs, DOMAIN revealed' = Tabs, known' = known,
         \A u \in Tabs \ {t} : ws'[u] = ws[u] /\ revealed'[u] = revealed[u],
         ws'[t].seed = <<>>, revealed'[t] = <<>>
  PROVE  StoredIsRecord' /\ OpenIsWallet' /\ RecordIsOpenWallet' /\ ClosedTabs'
  <1>1. screen'[t] = s /\ \A u \in Tabs \ {t} : screen'[u] = screen[u]
    BY DEF SessionInv, Shape, Show
  <1>2. StoredIsRecord'
    BY DEF SessionInv, StoredIsRecord
  <1>3. OpenIsWallet'
    BY <1>1 DEF SessionInv, OpenIsWallet
  <1>4. RecordIsOpenWallet'
    BY <1>1 DEF SessionInv, RecordIsOpenWallet
  <1>5. ClosedTabs'
    BY <1>1 DEF SessionInv, ClosedTabs
  <1> QED
    BY <1>2, <1>3, <1>4, <1>5

-----------------------------------------------------------------------------
(* The screens before a wallet is open.                                      *)
LEMMA ScreenSteps ==
  ASSUME CodecRoundTrips, SessionInv, NEW t \in Tabs,
         \/ Mount(t) \/ \E ent \in Draws : New(t, ent)
         \/ Continue(t) \/ Back(t) \/ ToRestore(t) \/ Switch(t)
  PROVE  SessionInv'
  <1> USE DEF SessionInv, Shape, Screens
  <1> DEFINE Rest == StoredIsRecord' /\ OpenIsWallet' /\ RecordIsOpenWallet'
                     /\ ClosedTabs'
  <1>1. CASE Mount(t)
    <2>1. Rest
      BY <1>1, OwnScreen DEF Mount
    <2> QED
      BY <1>1, <2>1 DEF Mount, Show, DraftsAreWallets, DraftsAreKept, WordsAreWrittenDown
  <1>2. ASSUME NEW ent \in Draws, New(t, ent) PROVE SessionInv'
    <2>1. Rest
      BY <1>2, Offering, OwnScreen DEF New
    <2>2. session'[t] = Draft(ent) /\ words'[t] = entToMn(ent)
      BY <1>2 DEF New, Draft, walletFromSeed
    <2>3. DraftsAreWallets' /\ DraftsAreKept'
      BY <1>2, Offering, <2>2 DEF New, Show, DraftsAreWallets, DraftsAreKept, Draft
    <2> QED
      BY <1>2, Offering, <2>1, <2>3 DEF New, Show, WordsAreWrittenDown
  <1>3. CASE Continue(t)
    <2>1. Rest
      BY <1>3, Offering, OwnScreen DEF Continue
    <2>2. words[t] \in Phrase /\ mnToEnt(words[t]) \in Entropies
          /\ entToMn(mnToEnt(words[t])) = words[t]
      BY <1>3, Offering, DrawIsWallet DEF Continue, DraftsAreWallets
    <2> QED
      BY <1>3, Offering, <2>1, <2>2 DEF Continue, Show, DraftsAreWallets, DraftsAreKept, WordsAreWrittenDown
  <1>4. CASE Back(t)
    <2>1. Rest
      BY <1>4, Offering, OwnScreen DEF Back
    <2> QED
      BY <1>4, Offering, <2>1 DEF Back, Show, DraftsAreWallets, DraftsAreKept, WordsAreWrittenDown
  <1>5. CASE ToRestore(t)
    <2>1. Rest
      BY <1>5, Offering, OwnScreen DEF ToRestore
    <2> QED
      BY <1>5, Offering, <2>1 DEF ToRestore, Show, DraftsAreWallets, DraftsAreKept, WordsAreWrittenDown
  <1>6. CASE Switch(t)
    <2>1. Rest
      BY <1>6, Offering, OwnScreen DEF Switch
    <2> QED
      BY <1>6, Offering, <2>1 DEF Switch, Show, DraftsAreWallets, DraftsAreKept, WordsAreWrittenDown
  <1> QED
    BY <1>1, <1>2, <1>3, <1>4, <1>5, <1>6

(* The three ways to open a wallet.                                          *)
LEMMA CreateStep ==
  ASSUME CodecRoundTrips, SessionInv, NEW t \in Tabs, NEW pw \in Passwords, create(t, pw)
  PROVE  SessionInv'
  <1> USE DEF SessionInv, Shape
  <1>1. screen[t] = "password" /\ revealed[t] = <<>>
    BY Offering DEF create, ClosedTabs
  <1>2. PICK ent \in Draws : session[t] = Draft(ent) /\ words[t] = entToMn(ent)
    BY <1>1 DEF DraftsAreWallets
  <1>3. words[t] \in known
    BY <1>1 DEF WordsAreWrittenDown
  <1>4. ent \in Entropies /\ entToMn(ent) \in Phrase /\ mnToEnt(entToMn(ent)) = ent
    BY DrawIsWallet
  <1>5. storeW(t, pkhToAddr(PkhOf[ent]), entToMn(ent), encSeed(ent, pw))
    BY <1>2 DEF create, Draft
  <1>6. screen' = [screen EXCEPT ![t] = "wallet"] /\ revealed' = revealed /\ known' = known
    BY DEF create, Show
  <1>7. DOMAIN ws' = Tabs /\ (\A u \in Tabs \ {t} : ws'[u] = ws[u])
        /\ IsOpen(ws'[t], ent) /\ "seed" \in DOMAIN ws'[t]
    BY <1>2 DEF create, Draft, IsOpen
  <1>8. StoredIsRecord' /\ OpenIsWallet' /\ RecordIsOpenWallet' /\ ClosedTabs'
    BY <1>1, <1>2, <1>3, <1>4, <1>5, <1>6, <1>7, WriteRecord
  <1>9. foreign' \subseteq Tabs
    BY <1>5 DEF storeW, Write
  <1>10. Shape'
    BY <1>6, <1>7, <1>9 DEF create, Screens
  <1>11. DraftsAreWallets' /\ WordsAreWrittenDown'
    BY <1>6 DEF create, DraftsAreWallets, WordsAreWrittenDown
  <1>12. DraftsAreKept'
    BY <1>6 DEF create, DraftsAreKept
  <1> QED
    BY <1>8, <1>10, <1>11, <1>12

LEMMA RestoreStep ==
  ASSUME CodecRoundTrips, SessionInv, NEW t \in Tabs, NEW mn \in Phrases,
         NEW pw \in Passwords, restore(t, mn, pw)
  PROVE  SessionInv'
  <1> USE DEF SessionInv, Shape
  <1> DEFINE ent == mnToEnt(mn)
  <1>1. revealed[t] = <<>>
    BY Offering DEF restore, ClosedTabs
  <1>2. ent \in Entropies /\ entToMn(ent) = mn
    BY AcceptedPhrase DEF restore
  <1>3. mn \in Phrase /\ known' = known \cup {mn}
    BY DEF restore, Phrase
  <1>4. storeW(t, pkhToAddr(PkhOf[ent]), mn, encSeed(ent, pw))
    BY DEF restore, walletFromSeed
  <1>5. screen' = [screen EXCEPT ![t] = "wallet"] /\ revealed' = revealed
    BY DEF restore, Show
  <1>6. DOMAIN ws' = Tabs /\ (\A u \in Tabs \ {t} : ws'[u] = ws[u])
        /\ IsOpen(ws'[t], ent) /\ "seed" \in DOMAIN ws'[t]
    BY DEF restore, walletFromSeed, IsOpen
  <1>7. StoredIsRecord' /\ OpenIsWallet' /\ RecordIsOpenWallet' /\ ClosedTabs'
    <2> HIDE DEF ent
    <2> QED
      BY <1>1, <1>2, <1>3, <1>4, <1>5, <1>6, WriteRecord DEF ent
  <1>8. foreign' \subseteq Tabs
    BY <1>4 DEF storeW, Write
  <1>9. Shape'
    BY <1>2, <1>3, <1>5, <1>6, <1>8 DEF restore, Screens
  <1>10. DraftsAreWallets' /\ DraftsAreKept' /\ WordsAreWrittenDown'
    BY <1>3, <1>5, Offering DEF restore, DraftsAreWallets, DraftsAreKept, WordsAreWrittenDown
  <1> QED
    BY <1>7, <1>9, <1>10

(* The record is read as some tab wrote it; a right password gives its seed, *)
(* and its address the key hash of that seed.                                *)
LEMMA UnlockStep ==
  ASSUME CodecRoundTrips, SessionInv, NEW t \in Tabs, NEW pw \in Passwords,
         handleUnlock(t, pw)
  PROVE  SessionInv'
  <1> USE DEF SessionInv, Shape
  <1>1. screen' = [screen EXCEPT ![t] = "wallet"] /\ stored' = stored /\ revealed' = revealed
        /\ known' = known /\ foreign' = foreign \ {t}
    BY DEF handleUnlock, Show
  <1>2. PICK mn \in known, ent \in Entropies, q \in Passwords :
          mnToEnt(mn) = ent /\ IsRecord(stored, mn, ent, q)
    BY DEF handleUnlock, StoredIsRecord
  <1>3. decSeed(stored.ct, pw) = ent
    BY <1>2 DEF handleUnlock, decSeed, IsRecord
  <1>4. addrToPkh(stored.addr) = PkhOf[ent]
    BY <1>2 DEF IsRecord, CodecRoundTrips
  <1>5. DOMAIN ws' = Tabs /\ (\A u \in Tabs \ {t} : ws'[u] = ws[u])
        /\ ws'[t] = [seed |-> ent, pkh |-> PkhOf[ent], address |-> stored.addr]
    BY <1>3, <1>4 DEF handleUnlock
  <1>6. stored # NoWallet /\ stored.addr = pkhToAddr(PkhOf[ent]) /\ stored.ct.seed = ent
    BY <1>2 DEF handleUnlock, IsRecord
  <1>7. screen[t] = "unlock" /\ revealed[t] = <<>>
    BY Offering DEF handleUnlock, ClosedTabs
  <1>8. OpenIsWallet'
    <2>1. IsOpen(ws'[t], ent)
      BY <1>5, <1>6 DEF IsOpen
    <2> QED
      BY <1>1, <1>2, <1>5, <2>1 DEF OpenIsWallet
  <1>9. RecordIsOpenWallet'
    BY <1>1, <1>5, <1>6, <1>7 DEF RecordIsOpenWallet
  <1>10. ClosedTabs' /\ StoredIsRecord'
    BY <1>1, <1>5 DEF ClosedTabs, StoredIsRecord
  <1>11. Shape'
    BY <1>1, <1>5 DEF handleUnlock, Screens
  <1>12. DraftsAreWallets' /\ DraftsAreKept' /\ WordsAreWrittenDown'
    BY <1>1, <1>7 DEF handleUnlock, DraftsAreWallets, DraftsAreKept, WordsAreWrittenDown
  <1> QED
    BY <1>8, <1>9, <1>10, <1>11, <1>12

(* The ways to close it, and its words.                                      *)
LEMMA CloseSteps ==
  ASSUME SessionInv, NEW t \in Tabs, Reload(t) \/ lock(t) \/ remove(t)
  PROVE  SessionInv'
  <1> USE DEF SessionInv, Shape, Screens
  <1> DEFINE Rest == StoredIsRecord' /\ OpenIsWallet' /\ RecordIsOpenWallet'
                     /\ ClosedTabs'
  <1>1. CASE Reload(t)
    <2>1. Rest
      BY <1>1, CloseWallet DEF Reload, Null
    <2> QED
      BY <1>1, <2>1 DEF Reload, Show, Null, DraftsAreWallets, DraftsAreKept,
                      WordsAreWrittenDown
  <1>2. CASE lock(t)
    <2>1. ws'[t].seed = <<>> /\ \A u \in Tabs : "seed" \in DOMAIN ws'[u]
      BY <1>2 DEF lock
    <2>2. Rest
      BY <1>2, <2>1, Offering, CloseWallet DEF lock
    <2> QED
      BY <1>2, <2>1, <2>2, Offering DEF lock, Show, DraftsAreWallets, DraftsAreKept, WordsAreWrittenDown
  <1>3. CASE remove(t)
    <2>1. stored' = NoWallet /\ foreign' = {u \in Tabs \ {t} : screen[u] = "wallet"}
      BY <1>3 DEF remove, clearW, Write
    <2>2. ws'[t].seed = <<>> /\ \A u \in Tabs : "seed" \in DOMAIN ws'[u]
      BY <1>3 DEF remove, Null
    <2>3. Rest
      BY <1>3, <2>1, <2>2, CloseWallet DEF remove
    <2>4. DOMAIN ws' = Tabs /\ DOMAIN revealed' = Tabs /\ foreign' \subseteq Tabs
          /\ UNCHANGED <<session, words, known, drafting>>
      BY <1>3, <2>1 DEF remove
    <2>5. screen' \in [Tabs -> Screens]
      BY <1>3 DEF remove, Show
    <2>6. Shape'
      BY <2>2, <2>4, <2>5
    <2>7. screen' = [screen EXCEPT ![t] = "welcome"] /\ screen[t] = "wallet"
      BY <1>3, Offering DEF remove, Show
    <2>8. DraftsAreWallets' /\ DraftsAreKept' /\ WordsAreWrittenDown'
      BY <2>4, <2>7 DEF DraftsAreWallets, DraftsAreKept, WordsAreWrittenDown
    <2> QED
      BY <2>3, <2>6, <2>8
  <1> QED
    BY <1>1, <1>2, <1>3

LEMMA RevealSteps ==
  ASSUME SessionInv, NEW t \in Tabs, handleRevealPhrase(t) \/ CloseReveal(t)
  PROVE  SessionInv'
  <1> USE DEF SessionInv, Shape
  <1>1. UNCHANGED <<stored, session, screen, words, ws, known, foreign, drafting>>
    BY DEF handleRevealPhrase, CloseReveal
  <1>2. DOMAIN revealed' = Tabs /\ (\A u \in Tabs \ {t} : revealed'[u] = revealed[u])
        /\ (revealed'[t] = <<>> \/ (screen[t] = "wallet" /\ revealed'[t] = stored.mn))
    BY Offering DEF handleRevealPhrase, CloseReveal
  <1>3. RecordIsOpenWallet' /\ ClosedTabs'
    BY <1>1, <1>2 DEF RecordIsOpenWallet, ClosedTabs
  <1>4. Shape' /\ DraftsAreWallets' /\ WordsAreWrittenDown' /\ StoredIsRecord' /\ OpenIsWallet'
    BY <1>1, <1>2 DEF DraftsAreWallets, WordsAreWrittenDown, StoredIsRecord, OpenIsWallet
  <1>5. DraftsAreKept'
    BY <1>1 DEF DraftsAreKept
  <1> QED
    BY <1>3, <1>4, <1>5

LEMMA NextSession ==
  ASSUME CodecRoundTrips
  PROVE  SessionInv /\ [Next]_vars => SessionInv'
  <1> SUFFICES ASSUME SessionInv, [Next]_vars PROVE SessionInv'
    OBVIOUS
  <1>1. CASE UNCHANGED vars
    BY <1>1 DEF vars, SessionInv, Shape, DraftsAreWallets, WordsAreWrittenDown, StoredIsRecord,
                OpenIsWallet, RecordIsOpenWallet, ClosedTabs, DraftsAreKept
  <1>2. CASE Next
    BY <1>2, ScreenSteps, CreateStep, RestoreStep, UnlockStep, CloseSteps, RevealSteps DEF Next
  <1> QED
    BY <1>1, <1>2

-----------------------------------------------------------------------------
(* What the invariant says of the record and of the open wallets.            *)
LEMMA SessionIsSafe ==
  ASSUME CodecRoundTrips, SessionInv
  PROVE  TypeOK /\ StoredIsWhole /\ OpenWalletIsKeyed /\ WalletsAreWrittenDown
         /\ RecordIsOpenWallet /\ OnlyDraftsStay
  <1> USE DEF SessionInv
  <1>1. TypeOK
    BY DEF TypeOK, Shape, StoredIsRecord, IsRecord
  <1>2. ASSUME NEW ent \in Entropies PROVE addrToPkh(pkhToAddr(PkhOf[ent])) = PkhOf[ent]
    BY DEF CodecRoundTrips
  <1>3. StoredIsWhole
    BY <1>2 DEF StoredIsRecord, IsRecord, StoredIsWhole, Belongs
  <1>4. OpenWalletIsKeyed
    BY <1>2 DEF OpenIsWallet, IsOpen, OpenWalletIsKeyed
  <1>5. WalletsAreWrittenDown
    BY DEF StoredIsRecord, IsRecord, OpenIsWallet, IsOpen, WalletsAreWrittenDown
  <1>6. OnlyDraftsStay
    BY DEF OnlyDraftsStay, ClosedTabs, DraftsAreKept
  <1> QED
    BY <1>1, <1>3, <1>4, <1>5, <1>6

LEMMA SessionInvariant ==
  ASSUME CodecRoundTrips
  PROVE  Spec => []SessionInv
  BY InitSession, NextSession, PTL DEF Spec

(***************************************************************************)
(* Every reachable state of the tabs and the storage is well typed.        *)
(***************************************************************************)
THEOREM SessionTypeCorrect == CodecRoundTrips => (Spec => []TypeOK)
  <1> SUFFICES ASSUME CodecRoundTrips PROVE Spec => []TypeOK
    OBVIOUS
  <1>1. SessionInv => TypeOK
    BY SessionIsSafe
  <1> QED
    BY <1>1, SessionInvariant, PTL

(***************************************************************************)
(* Phrase, address and encrypted seed of the record belong together,       *)
(* whichever tabs wrote it: create takes all three from one draft, restore *)
(* from one phrase.                                                        *)
(***************************************************************************)
THEOREM RecordStaysWhole == CodecRoundTrips => (Spec => []StoredIsWhole)
  <1> SUFFICES ASSUME CodecRoundTrips PROVE Spec => []StoredIsWhole
    OBVIOUS
  <1>1. SessionInv => StoredIsWhole
    BY SessionIsSafe
  <1> QED
    BY <1>1, SessionInvariant, PTL

(***************************************************************************)
(* An open wallet signs for the address it shows, whether it was created,  *)
(* restored, or unlocked from a record that another tab had written.       *)
(***************************************************************************)
THEOREM OpenWalletsAreKeyed == CodecRoundTrips => (Spec => []OpenWalletIsKeyed)
  <1> SUFFICES ASSUME CodecRoundTrips PROVE Spec => []OpenWalletIsKeyed
    OBVIOUS
  <1>1. SessionInv => OpenWalletIsKeyed
    BY SessionIsSafe
  <1> QED
    BY <1>1, SessionInvariant, PTL

(***************************************************************************)
(* A wallet is stored or open only when its phrase has been written down   *)
(* or typed: the password step comes after the step of the words.          *)
(***************************************************************************)
THEOREM NothingIsLost == CodecRoundTrips => (Spec => []WalletsAreWrittenDown)
  <1> SUFFICES ASSUME CodecRoundTrips PROVE Spec => []WalletsAreWrittenDown
    OBVIOUS
  <1>1. SessionInv => WalletsAreWrittenDown
    BY SessionIsSafe
  <1> QED
    BY <1>1, SessionInvariant, PTL

(***************************************************************************)
(* As long as no other tab writes the record, reveal, remove and lock act  *)
(* on the record of the wallet that is open.                               *)
(***************************************************************************)
THEOREM RecordIsTheOpenWallet == CodecRoundTrips => (Spec => []RecordIsOpenWallet)
  <1> SUFFICES ASSUME CodecRoundTrips PROVE Spec => []RecordIsOpenWallet
    OBVIOUS
  <1>1. SessionInv => RecordIsOpenWallet
    BY SessionIsSafe
  <1> QED
    BY <1>1, SessionInvariant, PTL

(***************************************************************************)
(* Beside an open wallet's seed, a tab keeps seed or phrase of a draft     *)
(* only: one it drew and has not stored.                                   *)
(***************************************************************************)
THEOREM TabsKeepOnlyDrafts == CodecRoundTrips => (Spec => []OnlyDraftsStay)
  <1> SUFFICES ASSUME CodecRoundTrips PROVE Spec => []OnlyDraftsStay
    OBVIOUS
  <1>1. SessionInv => OnlyDraftsStay
    BY SessionIsSafe
  <1> QED
    BY <1>1, SessionInvariant, PTL

=============================================================================
