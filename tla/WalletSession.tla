--------------------------- MODULE WalletSession ---------------------------
(***************************************************************************)
(* The screens of src/web/src/pages/Wallet.jsx, open in several browser    *)
(* tabs.  The tabs share localStorage, where the one wallet of the browser *)
(* is kept; each has a sessionStorage and React state of its own.          *)
(*                                                                         *)
(* Key derivation waits only in microtasks, so a handler that awaits it    *)
(* runs to its end before the tab serves another event; between the tabs   *)
(* only its one read or its one write of localStorage can be seen.  Each   *)
(* handler is therefore one step.                                          *)
(***************************************************************************)
EXTENDS WalletKeys

CONSTANTS Tabs, Passwords,
          Draws,       \* entropies the create screen may draw
          Phrases,     \* what a user may type at the restore screen
          NoWallet     \* nothing stored

Phrase == Phrases \cup {entToMn(ent) : ent \in Draws}

ASSUME SessionAssumption ==
  /\ WordCount \in Nat /\ WordBase \in Nat
  /\ Draws \subseteq Entropies
  /\ Phrases \subseteq Seq(Nat)
  /\ \A ent \in Entropies, mn \in Phrase, pw \in Passwords :
       NoWallet # [addr |-> pkhToAddr(PkhOf[ent]), mn |-> mn,
                   ct |-> [seed |-> ent, pw |-> pw]]

VARIABLES
  stored,     \* localStorage 'chakram_wallet'
  session,    \* [Tabs -> the draft wallet in sessionStorage]
  screen,     \* [Tabs -> the screen shown; "password" is step 1 of CreateScreen]
  words,      \* [Tabs -> the phrase CreateScreen shows]
  ws,         \* [Tabs -> the wallet state of the root component]
  revealed,   \* [Tabs -> the words of MnModal]
  known,      \* auxiliary: phrases a user has written down or typed
  foreign,    \* auxiliary: tabs whose record another tab has written since
  drafting    \* auxiliary: tabs that drew a wallet and have not stored it

vars == <<stored, session, screen, words, ws, revealed, known, foreign, drafting>>

Screens == {"loading", "welcome", "unlock", "create", "password", "restore", "wallet"}

Null == [seed |-> <<>>, pkh |-> <<>>, address |-> <<>>]

NoDraft == [s |-> <<>>, mn |-> <<>>, a |-> <<>>, pkh |-> <<>>]

(* A mutant: the password does not reach the key.                            *)
encSeed_NoPassword(seed, pw) == [seed |-> seed, pw |-> <<>>]

(* gcm(key).decrypt gives the seed back under the password that encrypted it *)
(* and throws under another one.                                             *)
encSeed(seed, pw) == [seed |-> seed, pw |-> pw]

decSeed(ct, pw) == IF ct.pw = pw THEN ct.seed ELSE Fail

Write(t, record) ==
  /\ stored' = record
  /\ foreign' = {u \in Tabs \ {t} : screen[u] = "wallet"}

(* A mutant: a record that is there is kept.                                 *)
storeW_KeepOld(t, addr, mn, ct) ==
  IF stored = NoWallet THEN Write(t, [addr |-> addr, mn |-> mn, ct |-> ct])
  ELSE UNCHANGED <<stored, foreign>>

storeW(t, addr, mn, ct) == Write(t, [addr |-> addr, mn |-> mn, ct |-> ct])
clearW(t) == Write(t, NoWallet)

Show(t, s) == screen' = [screen EXCEPT ![t] = s]

(* What each screen lets its user do, by the name of the handler.            *)
WelcomeScreen == {"onNew", "onRestore"}

(* A mutant: both steps are shown at once.                                   *)
CreateScreen_Both(step) == {"onBack", "setStep", "create"}

CreateScreen(step) == {"onBack"} \cup (IF step = 0 THEN {"setStep"} ELSE {"create"})

RestoreScreen == {"onBack", "restore"}
UnlockScreen  == {"onUnlock", "onSwitch"}
SettingsModal == {"onRevealPhrase", "onRemoveWallet"}

Offers ==
  [loading |-> {}, welcome |-> WelcomeScreen, unlock |-> UnlockScreen,
   create |-> CreateScreen(0), password |-> CreateScreen(1),
   restore |-> RestoreScreen, wallet |-> {"onLock"} \cup SettingsModal]

Offered(t, handler) == handler \in Offers[screen[t]]

Init ==
  /\ stored = NoWallet
  /\ session = [t \in Tabs |-> NoDraft]
  /\ screen = [t \in Tabs |-> "loading"]
  /\ words = [t \in Tabs |-> <<>>]
  /\ ws = [t \in Tabs |-> Null]
  /\ revealed = [t \in Tabs |-> <<>>]
  /\ known = {}
  /\ foreign = {}
  /\ drafting = {}

-----------------------------------------------------------------------------
(* The first effect of the page.                                             *)
Mount(t) ==
  /\ screen[t] = "loading"
  /\ Show(t, IF stored = NoWallet THEN "welcome" ELSE "unlock")
  /\ UNCHANGED <<stored, session, words, ws, revealed, known, foreign, drafting>>

(* The tab is reloaded, or closed and restored: React state is gone, both    *)
(* storages stay.                                                            *)
Reload(t) ==
  /\ Show(t, "loading")
  /\ words' = [words EXCEPT ![t] = <<>>]
  /\ ws' = [ws EXCEPT ![t] = Null]
  /\ revealed' = [revealed EXCEPT ![t] = <<>>]
  /\ foreign' = foreign \ {t}
  /\ UNCHANGED <<stored, session, known, drafting>>

(* A mutant: a phrase left in sessionStorage is not drawn again.             *)
New_KeepPhrase(t, ent) ==
  LET w == walletFromSeed(ent)
      mn == IF session[t].mn = <<>> THEN entToMn(ent) ELSE session[t].mn IN
  /\ Offered(t, "onNew")
  /\ Show(t, "create")
  /\ session' = [session EXCEPT ![t] =
                   [s |-> ent, mn |-> mn, a |-> w.address, pkh |-> w.pkh]]
  /\ words' = [words EXCEPT ![t] = mn]
  /\ drafting' = drafting \cup {t}
  /\ UNCHANGED <<stored, ws, revealed, known, foreign>>

(* The create screen draws a wallet as it mounts and keeps it in             *)
(* sessionStorage, unencrypted, until a password is set.                     *)
New(t, ent) ==
  LET w == walletFromSeed(ent) IN
  /\ Offered(t, "onNew")
  /\ Show(t, "create")
  /\ session' = [session EXCEPT ![t] =
                   [s |-> ent, mn |-> entToMn(ent), a |-> w.address, pkh |-> w.pkh]]
  /\ words' = [words EXCEPT ![t] = entToMn(ent)]
  /\ drafting' = drafting \cup {t}
  /\ UNCHANGED <<stored, ws, revealed, known, foreign>>

(* The checkbox says that the words shown have been written down.            *)
Continue(t) ==
  /\ Offered(t, "setStep")
  /\ Show(t, "password")
  /\ known' = known \cup {words[t]}
  /\ UNCHANGED <<stored, session, words, ws, revealed, foreign, drafting>>

Back(t) ==
  /\ Offered(t, "onBack")
  /\ Show(t, "welcome")
  /\ words' = [words EXCEPT ![t] = <<>>]
  /\ UNCHANGED <<stored, session, ws, revealed, known, foreign, drafting>>

(* A mutant: sessionStorage is not cleared.                                  *)
create_KeepDraft(t, pw) ==
  LET draft == session[t] IN
  /\ Offered(t, "create")
  /\ storeW(t, draft.a, draft.mn, encSeed(draft.s, pw))
  /\ words' = [words EXCEPT ![t] = <<>>]
  /\ ws' = [ws EXCEPT ![t] = [seed |-> draft.s, pkh |-> draft.pkh, address |-> draft.a]]
  /\ Show(t, "wallet")
  /\ drafting' = drafting \ {t}
  /\ UNCHANGED <<session, revealed, known>>

(* The form of the second step, with a password long enough, typed twice.    *)
create(t, pw) ==
  LET draft == session[t] IN
  /\ Offered(t, "create")
  /\ storeW(t, draft.a, draft.mn, encSeed(draft.s, pw))
  /\ session' = [session EXCEPT ![t] = NoDraft]
  /\ words' = [words EXCEPT ![t] = <<>>]
  /\ ws' = [ws EXCEPT ![t] = [seed |-> draft.s, pkh |-> draft.pkh, address |-> draft.a]]
  /\ Show(t, "wallet")
  /\ drafting' = drafting \ {t}
  /\ UNCHANGED <<revealed, known>>

ToRestore(t) ==
  /\ Offered(t, "onRestore")
  /\ Show(t, "restore")
  /\ UNCHANGED <<stored, session, words, ws, revealed, known, foreign, drafting>>

(* A phrase that is no phrase leaves an error text and nothing else.         *)
restore(t, mn, pw) ==
  /\ Offered(t, "restore")
  /\ mnToEnt(mn) # Fail
  /\ LET w == walletFromSeed(mnToEnt(mn)) IN
       /\ storeW(t, w.address, mn, encSeed(w.seed, pw))
       /\ ws' = [ws EXCEPT ![t] = w]
  /\ Show(t, "wallet")
  /\ known' = known \cup {mn}
  /\ UNCHANGED <<session, words, revealed, drafting>>

(* A mutant: the key hash of the wallet locked before is used again.         *)
handleUnlock_OldHash(t, pw) ==
  /\ Offered(t, "onUnlock")
  /\ stored # NoWallet
  /\ decSeed(stored.ct, pw) # Fail
  /\ validAddr(stored.addr)
  /\ ws' = [ws EXCEPT ![t] =
              [seed |-> decSeed(stored.ct, pw),
               pkh |-> IF ws[t].pkh = <<>> THEN addrToPkh(stored.addr) ELSE ws[t].pkh,
               address |-> stored.addr]]
  /\ Show(t, "wallet")
  /\ foreign' = foreign \ {t}
  /\ UNCHANGED <<stored, session, words, revealed, known, drafting>>

(* Another tab may have removed or replaced the wallet since this screen was *)
(* shown; what is missing or does not decrypt is "Incorrect password".       *)
handleUnlock(t, pw) ==
  /\ Offered(t, "onUnlock")
  /\ stored # NoWallet
  /\ decSeed(stored.ct, pw) # Fail
  /\ validAddr(stored.addr)
  /\ ws' = [ws EXCEPT ![t] = [seed |-> decSeed(stored.ct, pw),
                              pkh |-> addrToPkh(stored.addr),
                              address |-> stored.addr]]
  /\ Show(t, "wallet")
  /\ foreign' = foreign \ {t}
  /\ UNCHANGED <<stored, session, words, revealed, known, drafting>>

(* "Use a different wallet": the stored one stays until another overwrites it. *)
Switch(t) ==
  /\ Offered(t, "onSwitch")
  /\ Show(t, "welcome")
  /\ UNCHANGED <<stored, session, words, ws, revealed, known, foreign, drafting>>

lock(t) ==
  /\ Offered(t, "onLock")
  /\ ws' = [ws EXCEPT ![t].seed = <<>>]
  /\ revealed' = [revealed EXCEPT ![t] = <<>>]
  /\ Show(t, "unlock")
  /\ foreign' = foreign \ {t}
  /\ UNCHANGED <<stored, session, words, known, drafting>>

(* Remove Wallet from Browser, confirmed.  It clears the shared record,      *)
(* whichever wallet is in it by now.                                         *)
remove(t) ==
  /\ Offered(t, "onRemoveWallet")
  /\ clearW(t)
  /\ ws' = [ws EXCEPT ![t] = Null]
  /\ revealed' = [revealed EXCEPT ![t] = <<>>]
  /\ Show(t, "welcome")
  /\ UNCHANGED <<session, words, known, drafting>>

(* The seed is there as long as the wallet is open, so no password is asked. *)
handleRevealPhrase(t) ==
  /\ Offered(t, "onRevealPhrase")
  /\ ws[t].seed # Fail
  /\ revealed' = [revealed EXCEPT ![t] = IF stored = NoWallet THEN <<>> ELSE stored.mn]
  /\ UNCHANGED <<stored, session, screen, words, ws, known, foreign, drafting>>

(* The words are shown until Done is pressed.                                *)
MnModal(t) == revealed[t] # <<>>

CloseReveal(t) ==
  /\ MnModal(t)
  /\ revealed' = [revealed EXCEPT ![t] = <<>>]
  /\ UNCHANGED <<stored, session, screen, words, ws, known, foreign, drafting>>

Next ==
  \E t \in Tabs :
    \/ Mount(t)
    \/ Reload(t)
    \/ \E ent \in Draws : New(t, ent)
    \/ Continue(t)
    \/ Back(t)
    \/ \E pw \in Passwords : create(t, pw)
    \/ ToRestore(t)
    \/ \E mn \in Phrases, pw \in Passwords : restore(t, mn, pw)
    \/ \E pw \in Passwords : handleUnlock(t, pw)
    \/ Switch(t)
    \/ lock(t)
    \/ remove(t)
    \/ handleRevealPhrase(t)
    \/ CloseReveal(t)

Spec == Init /\ [][Next]_vars

-----------------------------------------------------------------------------
TypeOK ==
  /\ stored = NoWallet \/ stored.ct.pw \in Passwords
  /\ screen \in [Tabs -> Screens]
  /\ DOMAIN session = Tabs /\ DOMAIN words = Tabs
  /\ DOMAIN ws = Tabs /\ DOMAIN revealed = Tabs
  /\ known \subseteq Phrase
  /\ foreign \subseteq Tabs /\ drafting \subseteq Tabs

(* A phrase that a user wrote down or typed restores one wallet, and it is   *)
(* the only phrase of that wallet (entToMn, mnToEnt); so does the phrase of  *)
(* every entropy that may yet be drawn.                                      *)
PhrasesRestore ==
  /\ CodecRoundTrips
  /\ \A mn \in known : mnToEnt(mn) \in Entropies /\ entToMn(mnToEnt(mn)) = mn

(* Address, key hash and phrase belong to one seed.                          *)
Belongs(seed, address, pkh, mn) ==
  /\ seed \in Entropies
  /\ mnToEnt(mn) = seed
  /\ pkh = PkhOf[seed]
  /\ addrToPkh(address) = pkh

(* The record in localStorage is one wallet: its phrase, its address and its *)
(* encrypted seed agree, whichever tabs wrote it, were reloaded or went back *)
(* in between (create, restore, storeW).                                     *)
StoredIsWhole ==
  stored # NoWallet =>
    Belongs(stored.ct.seed, stored.addr, addrToPkh(stored.addr), stored.mn)

(* An open wallet has the seed that signs for the address it shows, with the *)
(* key hash its change goes to, although that hash is decoded from the       *)
(* address at unlock and computed from the key at creation.                  *)
OpenWalletIsKeyed ==
  \A t \in Tabs : screen[t] = "wallet" =>
    /\ ws[t].seed \in Entropies
    /\ ws[t].pkh = PkhOf[ws[t].seed]
    /\ addrToPkh(ws[t].address) = ws[t].pkh

(* No wallet is stored or open whose phrase its user has not written down or *)
(* typed: a tab may overwrite or remove the record of another, and nothing   *)
(* is lost that a phrase cannot restore.                                     *)
WalletsAreWrittenDown ==
  LET Seeds == {mnToEnt(mn) : mn \in known} IN
  /\ stored # NoWallet => stored.ct.seed \in Seeds
  /\ \A t \in Tabs : screen[t] = "wallet" => ws[t].seed \in Seeds

(* Until another tab writes the record, it is that of the open wallet: the   *)
(* phrase the tab reveals and the record it removes are its own.             *)
RecordIsOpenWallet ==
  \A t \in Tabs \ foreign : screen[t] = "wallet" =>
    /\ stored # NoWallet
    /\ stored.ct.seed = ws[t].seed
    /\ stored.addr = ws[t].address
    /\ revealed[t] \in {<<>>, stored.mn}

(* Beside the seed of an open wallet, a tab keeps a seed or a phrase only    *)
(* while it is drafting: of the draw whose password has not been set, all of *)
(* it in sessionStorage, the words in the page on the create screen alone.   *)
(* Back, a reload, a wallet restored, locked or removed leave that draft     *)
(* where it is, unencrypted; a wallet that was created leaves none (create,  *)
(* lock, remove, and what unmounting discards).                              *)
OnlyDraftsStay ==
  \A t \in Tabs :
    /\ screen[t] # "wallet" => ws[t].seed = <<>> /\ revealed[t] = <<>>
    /\ session[t] # NoDraft => t \in drafting
    /\ words[t] # <<>> =>
         screen[t] \in {"create", "password"} /\ t \in drafting /\ words[t] = session[t].mn
=============================================================================
