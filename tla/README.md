# A TLA+ model of Chakram

Chakram is a proof-of-work cryptocurrency: a node in Go, about twenty source files in one
package, and a web client in React with a wallet and an explorer that talk to the node by
HTTP. This directory holds TLA+ modules that model both, TLC configurations
that check them on small instances, and proofs that TLAPS checks. `PROJECT.json` lists the
runs, the source lines each definition stands for, the hazards the properties are aimed at,
the mutants that show each property can fail, and the findings.

## The system

| part | source | state | operations | talks to |
|---|---|---|---|---|
| Chain | `blockchain.go` | tip and height (`stateMu`), syncing flag (`syncMu`), the rest in the database, all changes under `chainMu` | `NewBlockchain` (load, recover), `AddBlock`, `applyBlock`, `reorganize` | UTXO set, storage, RandomX engine; called by the sync manager and the miner |
| UTXO set | `utxo.go` | `utxo:` and `aidx:` keys | `ProcessBlock`, `RollbackBlock`, `ValidateInputsOnly`, `CalculateFee` | storage |
| Storage | `storage.go` | Badger: blocks, height index, undo records, tx index, tip | one transaction per call | — |
| Sync manager | `sync.go` | orphans, pending requests, best peer, last reorg, state | `doSync` (every 5 s), `OnBlockReceived`, `ProcessOrphans`, peer events | chain, server |
| P2P server | `p2p.go` | peer map, bans, `pendingInv`, connection attempts | one reader and one writer goroutine per peer, `pingLoop`, `handle*` | sync manager, mempool, address book |
| Mempool | `mempool.go` | transactions and their ages | `Add`, `GetAll`, `ClearConfirmed` | chain (validation) |
| Node | `node.go` | quit channels, seed failure counts | `mineLoop`, seed reconnect loop, `Stop` | everything |
| Difficulty | `difficulty.go`, `block.go` | — (pure, reads blocks) | LWMA retarget by height index and by parent walk, compact targets | storage |
| RandomX engine | `pow.go`, `randomx_engine_*.go` | the epoch key and VM of one shared engine | `Init`, `Hash` | miner, verifier, warm-up |
| Address book | `addrbook.go` | addresses, last seen, a file | `Add`, eviction, `Save` | server |
| RPC | `rpc.go` | request buckets | read-only views, `tx/submit` | chain, mempool |
| Send | `send.go` | — | coin selection, change | UTXO set (over RPC), wallet |
| Web wallet: screens and keys | `web/src/pages/Wallet.jsx`, `lib/walletCrypto.js` | the record in localStorage, the draft in sessionStorage, React state of each tab | create, restore, unlock, lock, reveal, remove; base58 and mnemonic codecs | — |
| Web wallet: payments | the same, `lib/contacts.js` | balance, outputs, form, contacts, history; requests in flight | `refresh`, `initSend`, `execSend`, `buildSignTx`, `trackSend` | node (`rpc.go`, `mempool.go`) |
| QR scanner | `components/QRScanner.jsx` | a camera stream and a frame loop per run of an effect | open, render, permission, frame, close | the pay tab |
| Explorer page | `pages/Explorer.jsx` | feed, heights known, modal and its details; requests in flight | `refresh` (every 5 s), `doSearch`, modals | node (`rpc.go`) |
| Command line wallet, GUI, old explorer, other pages, scripts | the rest | keys, files | — | not modelled |

What is hard in it:

* **Failure half way.** Applying a block is many database transactions: each output, the
  height index, the undo record, each tx index entry, the tip. A refused block, an
  error or a stop leaves whatever was written. `Node.Stop` closes the database without
  waiting for a goroutine inside `AddBlock`, so an ordinary shutdown is a crash to it.
* **Order.** Blocks of rival branches arrive in any order from several peers and from the
  miner; the tip must depend on the set of blocks only.
* **Unlocked windows.** `AddBlock` gives up `chainMu` while the RandomX engine initialises;
  the mempool validates without its lock; the miner reads the tip, the UTXO set and the
  difficulty in separate steps.
* **Lost and late messages.** Outbound queues drop when full; a request is retried only
  after a 30-second sweep; a disconnect may be reported after the same peer reconnected.
* **Numbers.** LWMA with clamps and truncation, compact targets, halvings, a checkpoint; in the
  client, codecs that go through integers and lose zeros at the front.
* **Late answers.** Every fetch of the client may be answered after its component has left,
  after a later fetch, or never; the user goes on meanwhile, locks the wallet, changes the tab.
* **Shared storage.** Tabs of one browser share the stored wallet and nothing else.

Properties per part: for the chain, that indexes, UTXO set and undo records describe exactly
the best chain, that the tip is the best block known, that a restart finds a consistent
database; for sync, that a node never stays behind what it has heard of and that the syncing
flag clears, or what keeps it set; for the mempool and the miner, that what is mined is accepted by its own node;
for the peers, that the map, the handshake and the bans agree; for the engine, that a block
is hashed under the key of its own epoch; for difficulty, that miner and verifier agree; for the
client, that no wallet is lost or mixed with another, that payments conserve cash and the history
is true, that what is shown catches up with the node, and that no camera stays on.

## Modules

| module | what it is |
|---|---|
| `BlockTree` | the blocks a node may be handed, as a constant tree: parent, height, work, hash order, ancestors; `Better`, the fork choice |
| `Ledger` | transactions, outputs and the checks of `ProcessBlock`; `Replay`, the reference UTXO set of each block |
| `BestChain` | abstract: a connected set of blocks and a tip that moves only to a preferred block |
| `Blockchain` | the node's chain: start-up, recovery, `AddBlock`, `reorganize`, stops; extends `Ledger`, implements `BestChain` |
| `MCBlockchain` | trees and ledgers for TLC |
| `Blockchain_proofs` | its theorems: the refinement, the checkpoint, and what the database of the node describes |
| `Mempool` | the pool and `Add`, by several goroutines at once |
| `Miner` | `mineLoop` over the pool and a reduced chain; extends `Mempool` |
| `MCMiner` | payments and peers' blocks for TLC |
| `Miner_proofs` | the pool's bound, the types, the outputs and the extensions of the tip |
| `Sync` | the sync manager over the abstract chain: requests, orphans, rate limit, syncing flag, peers that come and go |
| `MCSync` | a tree of three branches and the peers' tips for TLC, one peer at genesis |
| `Sync_proofs` | types and caps, heights of peers, the store and the tip |
| `WalletKeys` | the codecs of the web wallet, digit by digit, over bases and lengths that are parameters |
| `WalletSession` | the screens of the web wallet in several tabs; extends `WalletKeys` |
| `MCWalletSession` | two-digit bytes, base-3 addresses and two-word phrases for TLC |
| `WalletSession_proofs` | its theorems |
| `WalletPay` | balance, pay tab, contacts and history of an open wallet, with the node's answers |
| `MCWalletPay` | coins, symmetry and a view for TLC |
| `WalletPay_proofs` | the send button, the history, the cash and the types |
| `Scanner`, `Scanner_proofs` | the QR scanner inside the pay tab, and its theorems |
| `ExplorerFeed`, `ExplorerFeed_proofs` | the explorer's list of blocks under overlapping refreshes, and its theorems |
| `ExplorerModal`, `ExplorerModal_proofs` | search and details, and their theorems |

### How `Blockchain` corresponds to the code

Every write the code makes through `DB.Update` is one action, in the order of the code.
Between writes the model keeps what a goroutine inside `AddBlock` keeps on its stack.

| variable | code |
|---|---|
| `stored`, `indexed`, `undone`, `txHeight`, `utxo`, `dbTip` | the keys of a block by hash, the height index, undo records, the tx index, unspent outputs, `meta:tip` |
| `tip` | `bc.Tip` (and `bc.Height`, which always belongs to it) |
| `phase` | where the holder of `chainMu` stands; `"free"` when nobody holds it; `"boot"` and `"recover"` before `NewBlockchain` has returned |
| `verifying` | for each goroutine the block it initialises the engine for, with `chainMu` released |
| `target`, `rollback`, `apply`, `cur`, `todo`, `dels`, `adds`, `idxs` | the block being added, the lists of `findReorgPath`, the loop variables of `reorganize`, `ProcessBlock` and `RollbackBlock` |

`AddLimbo`, `AddUnverified`, `BeginVerify`, `EndVerify` and `AbandonVerify` are the ways through
`AddBlock` to `SaveBlockData`; `StoreExtending`, `StoreReorganizing` and `StoreOnly` are its
final `switch`. `BeginUndo` to `EndUndo` are one turn of the rollback loop, `BeginBlock` to
`EndBlock` one turn of the apply loop (`applyBlock` makes the same calls in the same order,
so one set of actions serves both). `UndoMissing` and `TxRefused` are the error returns.

Abstractions, and why they do not hide anything the properties are about:

* A block is a member of a constant tree and passes the stateless checks of `AddBlock`; one
  that fails them is refused before the first write. A block whose parent is unknown is
  refused (`ErrOrphanBlock`) without effect here.
* The engine's answer is nondeterministic: any verification may be abandoned, and any block
  may be added unverified (no engine, or deep in the initial download).
* An output is a key. A wrong signature or owner is an input nobody created: the code
  returns the same way. The inputs of a
  transaction are distinct (the code refuses the second use of one as a missing output). The address index is
  written in the same transaction as its output.
* An ordinary Badger error (a full disk) is not modelled; a stop at the same point leaves
  the same database.
* `Reward` and the block's fees are numbers; the maturity is a constant (1 in the runs,
  which is enough for a coinbase to be spent one block later and to be rejected earlier).

### How `Mempool` and `Miner` correspond to the code

`Submit` is the part of `Add` under the read lock, `InputsFound` and `InputsMissing` are
`ValidateInputsOnly` without a lock, `Insert` is everything under the write lock: eviction, both
checks again, insert. `aged` holds the payments whose 72 hours are over.

`Miner` needs the chain, and of the chain only what a payment can tell: a block is a hash with a list
of payments, `path` the chain through it, work is even. `UndoBlock` is one turn of the rollback loop of
`reorganize`, `BeginBlock` the next block of its apply loop, `ApplyTx` one payment of it, `RefuseTx` its error return;
`job.at` is the path the holder of the lock has come to, which `findReorgPath` lists block by block.
Fewer steps than in `Blockchain`, where the writes in between are checked. `job` is the call of
`AddBlock` that holds `chainMu`; the calls of peers and the miner take turns at it. `PeerBlock` is
another node's miner: its blocks are valid on their own chain. `TakeTip`, `TakePool`, `CheckFee` (once
per payment), `MineBlock`, `AddOwn` and `ClearOwn` are one turn of `mineLoop`; between any two of them
the chain and the pool may change, as in the code, where none of the reads is under `chainMu`.
`intact` records whether a block was ever refused half way; it is not in the code. The loop's
pauses, for peers and for syncing, only delay it and are left out.

### How `Sync` corresponds to the code

| variable | code |
|---|---|
| `known`, `tip` | the blocks stored and `bc.Tip`; `AddBlock` is one step, since `Blockchain` has its inside, and every block is valid |
| `orphans`, `pendingInv`, `recent`, `bestPeer` | `sm.orphans`, `server.pendingInv`, "`lastReorg` is less than two seconds ago", `sm.bestPeer` |
| `syncing` | `bc.isSyncing`, which `mineLoop` waits for |
| `todo` | the stack of each peer's reader: the items of an inv still to look at, a block inside `OnBlockReceived`, the orphans it connected, each a call of its own |
| `loop` | what `doSync` has read before it acts on it |
| `outbox`, `inbox` | the queues between the node and each peer: in order, and a message to a full queue is lost |
| `height`, `up`, `peerTip` | `peer.Height` as last heard, the handshake done, what the peer really has |

`Item` is one turn of the loop of `handleInv`. `Receive`, `AddBlock`, `AddOrphan`, `Added`, `Finish` and `Compare`
are the stretches of `OnBlockReceived` between which another reader may run, so the
duplicate test, the reorganisation test, the update of `lastReorg` and the two reads of `bestPeer` each see their own state.
`Relay` is the second broadcast, in `handleBlock`. `Panic` is the nil dereference when `OnPeerDisconnected` has
unset `bestPeer` between the two reads of `sync.go:267`: the process ends, systemd starts it again (`Restart=` in the units of
`deploy`), and only what is in the database is left. `SyncTick` reads, `SyncDone` and `SyncFrom` act; the ticker
fires whatever is in flight.

A peer is another node that holds one branch, serves it and may extend it (`PeerServe`, `PeerMine`);
it does not move to what this node relays. `Above` is the inv a peer answers with: the block of its chain at each height
that follows, up to its own or to a batch. Left out or simplified:

* the handshake is one step, and a peer that dropped reconnects when its old reader has ended;
* `pendingBlocks` and `sm.state` are only displayed.

### How `WalletKeys` and `WalletSession` correspond to the code

`b58enc`, `b58dec`, `pkhToAddr`, `addrToPkh`, `entToMn` and `mnToEnt` compute what the functions of
`walletCrypto.js` compute, digit by digit, including the leading zeros that the detour through a
`BigInt` drops and the padding that puts them back. SHA-256, RIPEMD-160 and the key derivation
are constant functions. `encSeed` and `decSeed` are what AES-GCM promises: the seed comes back under the
password that encrypted it, and another password throws.

| variable | code |
|---|---|
| `stored` | localStorage `chakram_wallet`: address, phrase, encrypted seed |
| `session` | the draft in sessionStorage (`s`, `mn`, `a`, `pkh`) |
| `screen` | the `screen` of the root component; `"password"` is step 1 of `CreateScreen` |
| `words`, `ws`, `revealed` | the words shown, the wallet state of the root, the words of `MnModal` |
| `known` | not in the code: phrases a user wrote down or typed |
| `foreign` | not in the code: open tabs whose record another tab has written since |
| `drafting` | not in the code: tabs that have drawn a wallet and not stored it |

`Offers` says which handlers each screen offers: it stands for the JSX of the components, of which a state machine can
tell only that. Every action of a user begins with the handler its screen must offer. What is typed at the restore screen
lives in the fields of the form and is no variable.

A handler is one step: the library's key derivation yields in microtasks only, so no event of the tab
is served while a handler awaits it, and each handler reads or writes localStorage once. The second run of
effects under React's StrictMode happens in development only and is left out. The password dialogs of an
open wallet open only when there is no seed, which `OpenWalletIsKeyed` excludes; they are left out.

### How `WalletPay` corresponds to the code

| variable | code |
|---|---|
| `outs`, `taken`, `confirmed` | the node: unspent outputs of this wallet, payments accepted, payments in the chain |
| `tab`, `sending`, `asked` | the tab shown, PayTab's `sending`, the address in `SaveContactModal` |
| `balance`, `utxos` | state of `WalletApp`; `Blank` is null, `Undefined` the field of an error object |
| `contacts`, `sends` | localStorage `chakram_contacts` and `chakram_sends` |
| `job` | a call of `execSend` in flight: what it waits for, and whether its PayTab is still mounted |
| `load` | a call of `refresh` in flight: `Promise.all` of two requests |

`Offered` plays the part of `Offers` here: `HomeTab`, `PayTab`, `ActivityTab`, `SettingsModal` and `SaveContactModal` are the
handlers each component gives its user, the last alone while it covers the others.
`initSend` is the checks of the form and the start of `execSend`; `AnswerUTXOs`, `Post` and `FinishSend` or
`FailSend` are the stretches between its awaits. `Post` is `handleTxSubmit` and `Mempool.Add`, which
look inputs up in the confirmed set only: two payments of one output are both taken. `AnswerBalance` is
`handleAddress`, whose balance counts mature outputs only, `AnswerOutputs` is `handleUTXOs`, which marks
them. The order in which outputs are listed is the database's, so any order is possible. `Lock`
unmounts `WalletApp`; `Reload` ends every call, and a request already sent may or may not arrive.

### How `Scanner` corresponds to the code

PayTab passes a new `onScan` at each render, and the effect of `WebScanner` depends on it, so each
answer to a balance refresh runs the cleanup and the effect again. `run` counts the runs, `cam[r]` is the
stream that run r asked for, `streamRef` what the ref holds, `loop` the run whose frames are read,
`active` the flag in the closure of the last run. `Grant` and `Deny` are the user's answers, which may come for a run that is
over. The error view removes video and canvas, on which a pending frame then throws
(`tick_Throws`). On Android `NativeScan`, `NativeCancel` and `NativeError` are the ways the plug-in ends.

### How `ExplorerFeed` and `ExplorerModal` correspond to the code

A `call` is one run of `refresh`: two requests answered at their own moments, then, while the genesis hash is not known,
a third. `Merged` is `newB`, sort, concatenation and slice; `known` is `knownRef`. `overtaken` and `buried` are not in the code: the one says
that an older answer was merged after a newer one, the other that one which is a page or more behind was, and no newer one since.

`setModal` decides what React does: a modal of the same type stays mounted and fetches again when
its key changed, another type mounts anew. Fetches are numbered (`asked`), and a modal has the number of its first (`inst`);
`data` and `err` hold the fetch whose answer is shown, with its number, modal, type and key. `Answer` reaches only the modal that is
mounted, which takes the answers to its earlier keys as well. `overtaken` says that such an answer came after that for the key
it has now.
`SearchHash` opens its modal when it is answered (`BlockFound`). Blocks per minute, the highlight of new rows and all texts are left out.

## Runs

The tree of the chain runs has two common blocks p1 and p2, on p2 a branch of two blocks and
one of three, and from genesis a rival of two blocks that outweighs everything and stays short. The payment `t` is in both branches,
at different heights, and each branch spends its change differently, so a reorganisation has to restore one, remove the
other, and keep one index entry at the height of the branch it is on. Hash order is set so that ties go both ways.

| run | what differs | shows |
|---|---|---|
| `chain_forks` | all blocks valid, the checkpoint at p2, a heavier rival chain that is shorter, two goroutines, no stop | whenever the lock is free, UTXO set, height index and tx index are exactly those of the tip's chain, a tip from the checkpoint on runs through it and is the best stored block of its height or more, and no call hangs |
| `chain_stops` | refused blocks (b5 spends an output twice and is refused by its second payment, an overspending payment, an overclaiming coinbase), one stop between any two writes | the database refines `BestChain`, the height index has no gap, and the inductive invariant of the proofs holds |
| `rejected_reorg` | only b5, the last of three blocks, is refused | finding: the tip stays where it was, with the outputs of b3 and b4 |
| `mine_independent` | two payments of different coins, a pool of one, three blocks by peers or the miner | the pool keeps its bound; a block that extends the tip is never refused; until a first refusal the outputs are those of the chain |
| `sync_catchup` | a peer on a longer rival branch, one at genesis that may find a block, all capacities one, one connection lost | a node never stays behind a height it has heard of from a peer that stays, and the syncing flag is cleared unless `doSync` defers it |
| `sync_genesis` | the same, no connection lost | finding: a peer that stays at genesis keeps the flag set |
| `wallet_session` | two tabs, two passwords, an entropy with a zero byte in front and one with a zero byte behind, phrases that are none | the record is always one whole wallet, an open wallet has its own key, nothing is overwritten or removed that no phrase restores, a tab without a wallet keeps a draft at most |
| `wallet_pay` | two sends at once, three payments, a coin and an immature coinbase, one fault | cash is conserved, the history is true, the button is busy exactly while this form sends |
| `wallet_settles` | one payment, two overlapping refreshes, one fault, fairness | the button is freed, and an open wallet ends up with the node's balance and outputs |
| `scanner` | four runs of the effect | no camera runs unheld, no frame is read for an old run, one code per opening |
| `explorer_feed` | two refreshes in flight, one fault, one reorganisation, growth by a page | no height twice, newest first unless answers overtake, the tip ends up listed unless an answer a page behind buried it |
| `explorer_modal` | four fetches, three heights of which one has no block, an address, one fault | data and error are those of fetches of the modal shown, the key it has now is fetched or shown, "Loading" ends |

The bounds. Ten blocks give every shape the code distinguishes: extension, tie, taller
branch, heavier branch that is shorter, rollback of two, apply of three, a reorganisation there and back, a branch point at the
checkpoint, at which a reorganisation is allowed, and one below it, at which it is not. Two goroutines are the least that race in the unlocked window, and
a third adds nothing: each only holds a block that the others may store first. One stop reaches
every pair of writes; the effects of several stops on one database are left to the proofs, which
hold for any number. `MaxStops` is their only counter bound. `CHECK_DEADLOCK FALSE` is set in the runs of the node: once all blocks of the tree
have been handed over, a node has nothing left to do; and in `scanner`, where the runs of the effect are used up.

The miner runs bound the number of blocks that are ever found (`Hashes`, whose order is the order of
the hashes) at three: a tip, its rival, and a block on either is the least that lets a template go
stale in a reorganisation. `MaxPool` is 1 with two goroutines in `Add`, so both pass the first
check and one fails the second; two payments are enough for a template of one to go wrong in every
way but a conflict. The same instance has states in which an own block that must
win a reorganisation is refused (`RefuseTx` fires), so `ExtensionApplies` is what is left to hold: a block
that extends the tip is applied.

The sync runs have five blocks on three branches: the node's own q1, a1 and a2 of the peer that is ahead, and r1, which the peer
at genesis may find. Two peers are the least for a rival branch, a switch of the best peer and a height of 0 beside a known one.
a2 comes before its parent as an orphan, its parent ties with q1 and wins by its hash, and r1 wins against it: so one
reorganisation follows another within the two seconds. A queue of one drops requests and answers. The table of requests and the orphan pool
hold one entry, and these branches never need a second at the same time; what a refusal would leave is reached in another way,
by an orphan evicted as soon as it is in the pool, and by a request that was dropped and swept. `MaxCuts` allows one disconnect, from either peer at any point, also
between the two reads of `bestPeer`, and reconnecting is free. The reader that
is slowest takes any block late, so longer trees only repeat these steps.

The wallet's codecs are checked over every entropy and every phrase of the small bases, and the draws have a zero
byte at either end, since it is zeros that the encodings can lose. Two tabs are the least that race for the
record, two passwords the least that differ.
In `wallet_pay` a payment of one takes a coin of two whole, or that coin and the coinbase once it has matured, with change,
so payments compete for an output, chain on change and fail for lack of outputs; a history of two entries is
cut by three payments. Its view leaves out the list of outputs the page last fetched, on which no guard
depends; `wallet_settles`, where that list matters, has no view, and one payment with change. `MaxFaults` allows one lost request, lost answer, error
object or reload, at any point. Four runs of the scanner's effect give two openings with a render
in each, and a permission that is still open from before. The feed keeps a page of three
heights, all of them filled at the start, and the chain may grow by a whole page while a refresh is on its way, so that a late answer can push
the tip out (`buried`). Four fetches and four keys give every change of key and of type under a fetch, and a late answer after both.

Fairness. `Sync!FairSpec` assumes weak fairness of each reader, of each peer's service, of `syncLoop`, of the end
of the two seconds and of the sweep of all pending requests: goroutines that are always running and timers
that fire. It assumes neither that a peer connects or stays, nor that a block is found; so
`CatchesUp` speaks of peers that stay, and of the heights they have announced. `TicksAreSlow` supposes that from some time on,
however late, a tick asks a peer again only when the answers to the last request have been handled: ticks are five seconds apart, and
a `getblocks` in every gap of a queue of one would keep the block that is asked for out of it for ever. Before that time ticks fall anywhere, so it
restricts no safety property and none of the interleavings, only what may go on for ever. `Blockchain!FairSpec` assumes weak fairness of one disjunction, the steps a goroutine takes once it
is inside `AddBlock` or `NewBlockchain`: no step of these waits for anything but local storage.
It does not assume that blocks arrive, that verification ends or that the node stops. Then
`LockReleased`: `chainMu` is always released. The client's specifications assume that a fetch is answered or fails,
that a settled promise runs its callbacks, and that the timers of 15 and 5 seconds fire while their component is mounted.
Failures are bounded by `MaxFaults`. Nothing is assumed of the user or of the chain, so `BalanceCatchesUp` speaks of a wallet that
stays open.

## Divergences without a run

In the node:

* A block that spends an output it makes cannot be rolled back cleanly: `RollbackBlock` restores spent outputs (`utxo.go:395`)
  after it removed the created ones (`utxo.go:375`), and so resurrects that output.
* After a stop inside `applyBlock` the block that was being applied fails for its own first payment (`blockchain.go:230`, `209`) and can
  never be applied; a stop between two other writes leaves a block without undo record that recovery
  adopts (`blockchain.go:74`, `storage.go:299`); a stop inside `reorganize` leaves blocks of the branch not adopted in the height index.
* More work in fewer blocks is not adopted (`blockchain.go:392`, against the comments at 193 and 420).
* An own block that is refused half way leaves its first outputs, and the next own block may confirm a payment twice
  (`blockchain.go:496`). A block refused while it extends the tip leaves its first outputs as well.
* `bestPeer` is read twice without a lock (`sync.go:267`), and the process ends when it is unset in between (`Panic` in `Sync`).
* An own block that lost the race is stored without error and its payments leave the pool
  unconfirmed; payments that a peer's block confirms stay in the pool until they expire.
* Two payments of one output both enter the pool, and one template takes both; a template may repeat a payment of its own
  parent, when the parent arrives between the reads.
* Below the checkpoint's height every reorganisation is refused, on either branch: a node that started on the wrong one stays there, and
  `TipIsBest` speaks of a tip from the checkpoint on.
* Two readers may both pass the test of `lastReorg`; a block that `AddBlock` calls an orphan may enter the orphan pool just after
  another reader stored its parent; a block dropped by the rate limit does not raise its sender's height.

In the wallet:

* Two payments made before the next block select the same outputs. Both are "Payment sent!", one can
  never confirm. When the answer to a submission is lost, the user sees an error and may pay twice.
* An amount that rounds to nothing passes the form and fails at the node; an error object makes the balance
  undefined, which then refuses no amount.
* PayTab does not use `initialTo`, so "Pay again" opens an empty form, and it may list one unknown payee twice.
* A send whose PayTab was left still calls `onSuccess`, which pulls the user home; until then a second send may start.
* "Use a different wallet" leads to screens that overwrite the stored record without the confirmation that Remove asks for. With two tabs,
  Reveal shows the phrase of the record another tab wrote, and Remove erases it.
* "Back", a reload and a restore leave the draft of a wallet in sessionStorage, seed and phrase unencrypted, until the tab creates a
  wallet or is closed (`Wallet.jsx:984`; `OnlyDraftsStay` says that nothing else stays).
* Change is listed as "Received". The refresh of the native build fetches without `BASE` (`Wallet.jsx:786`).

In the scanner and the explorer:

* The camera restarts at every balance refresh, stays on behind "Camera unavailable" when an
  earlier request is refused late, and the error is cleared only by opening again.
* The feed's own comment calls it newest first; overlapping refreshes break that (`NewestFirst` says when). A block that was
  reorganised away stays listed, since its height is known. When the chain grows by a page or more
  while a refresh is on its way, a late answer can push the tip out of the feed until the next block (`buried` in `TipIsListed`).
* A search for the hash of a block of a side branch shows the main chain's block of that height. Late
  details of one key appear under another of the same modal (`overtaken` in `NothingForgotten`), and an old error stays beside new data.
* `latest blocks` answers without difficulty and nonce, which the rows show (`Explorer.jsx:191`).
* `web/README.md:12` lists `/faucet`; `App.jsx` has no such route.

## Proofs

The theorems hold for every value of the constants that meets the named assumptions. Each rests on one inductive
invariant per module, a conjunction of named parts; TLC met the central ones on the runs' instances first.

### The chain

`Blockchain_proofs` proves four theorems for every tree, ledger, checkpoint, set of goroutines and number of stops:
`TypeCorrect`, `ChainInvariant`, `Refinement` (`Spec => ImplementsBestChain`) and `CheckpointHolds`.

The refinement says two things of every step: a block enters the store only after its
parent, and the tip moves only to a stored block that `Better` prefers. The second is checked by
the code once, when the block is stored, and used many writes later, so the induction has to
carry it: `CallsValid` says that whatever the working phases do, the target is stored
and beats the tip. That in turn needs `StoreConnected` (ancestors of stored blocks are stored, so
the rollback and apply lists are too) and `TipStored` (the tip in memory is the tip on disk unless
the node is booting). `AddLimbo` and `RecoverStep` skip the comparison in the code; they are
right because a child always has more work than its parent, which is where
`TreeAssumption` is used. `CheckpointHolds` needs one conjunct more: a stored block at the checkpoint's
height is the checkpoint, because nothing else passes `Acceptable`; with ancestors stored,
a chain that reaches the height runs through it. The guard inside `reorganize` is not used.

What the database describes while a reorganisation is under way is said with the block `p` it stands on: `At(p)`
says that what is left to roll back are the ancestors of `p` and not of the target, and what is left to
apply the ancestors of the target and not of `p`. Each turn of a loop moves `p` to its parent or to a child, every other step
leaves it. Each description of the database is then an invariant "of `p`" (`UTXOAt`, `IndexAt`, `TxIndexAt`), with
one case per write for what is half done, and it becomes the property when the lock is free and `p` is the tip:

| theorem | property | supposes | why the supposition |
|---|---|---|---|
| `IndexHasNoGap` | `IndexCoversTip` | nothing | entries are overwritten only by a block of their height, and recovery follows the index |
| `UndoRecordsKept` | `UndoOnMainChain`, which no run lists: a record, once written, is never removed | `MaxStops = 0` | after a stop recovery adopts a block whose record was not written yet; refusals do no harm |
| `UTXOFollowsTip` | `UTXOIsReplay` | and `BlocksAreValid` | a refused block leaves its first outputs (`rejected_reorg`), a stop half a block; each block is valid on its chain and spends no output of its own |
| `IndexFollowsTip` | `IndexIsMainChain` | the same | a reorganisation that gives up half way leaves entries of both branches |
| `TxIndexFollowsTip` | `TxIndexIsMainChain` | and `OncePerChain` | the index has one entry per transaction; the id hashes the time and the inputs, so that no chain holds one twice |
| `TipStaysBest` | `TipIsBest` | the first two | a reorganisation that gives up, or a stop, leaves a better block aside |

`TipStaysBest` holds for every work and every checkpoint. Its invariant (`Settled`) says that no stored block has the tip for its parent and that none
of the tip's height or more beats it, from the checkpoint on; when the tip arrives at the checkpoint, nothing higher is stored
yet, since all that is higher would descend from it.

TLC evaluates these suppositions on the tree of `chain_forks` (`ForksAreValid`), where the same properties are checked.
`UTXOFollowsTip` is the long one: rolling a block back deletes what it created and adds what it spent, and that
this gives the set of the parent again needs that a block creates no output that is unspent below it and spends none of its own.

### The sync manager

`Sync_proofs` proves `SyncTypesHold` (with the caps of the orphan pool and of the request table), and three properties
that no run lists, since their instances follow from the invariants below:

* `HeightsStayHonest`: the height a peer is believed to have is never above the chain it holds. The invariant follows
  blocks through the queues and the stacks: a block message from a peer, and every call that came from one, holds
  a block of that peer's chain (`ChainAnswer`, `ChainTask`); orphans are nobody's, so they raise no height. It is what makes
  `CatchesUp` a demand that can be met.
* `StoreStaysConnected`: no block is stored before its parent, whatever reader brings it.
* `TipStaysBest`: no stored block of the tip's height or more beats it, whatever the work of the blocks. The
  rate limit and the caps lose blocks, but never leave a stored one aside.

### Pool and miner

`Miner_proofs` proves `PoolStaysBounded`, for any number of payments,
blocks and goroutines inside `Add`: `Insert` counts again under the write lock and never uses what `Submit` saw. `MinerTypesHold`
supposes nothing either.

`OutputsFollowChain` supposes `Unchained`: no payment spends what another creates, because a block that spends an output of its own
cannot be undone (see the divergences). `OutputsInv` says that until a first refusal the outputs are those of the path
`job.at`, or of that path and a part of the block being applied. `ExtensionsApply` supposes `Unconflicting` as well, which is
where the property itself begins; TLC evaluates both on the run's payments. The miner reads tip, pool
and outputs at different times; the argument is that the tip strictly improves (`Worse`), so a template whose
parent is the tip at the end was built with no call of `AddBlock` in between, and its payments fit the outputs
(`TemplateInv`). A peer's block is valid on the chain it was found on (`PeerInv`), and the outputs are those of that chain when it extends the tip.

### The wallet

`WalletSession_proofs` proves five safety properties of `wallet_session` and its type correctness, for any tabs, passwords,
draws and phrases. The codecs stay closed: each theorem has the form
`CodecRoundTrips => (Spec => []P)`, since what a fold over the digits computes for every
base and length takes induction over data; the run checks `CodecRoundTrips` on its bases, as a part of `PhrasesRestore`. `SessionInv` adds what the create screen carries from one step to the next:
a draft is one draw of an entropy with everything derived from it (`DraftsAreWallets`), the password step comes
after its words were noted (`WordsAreWrittenDown`), and the record is what `storeW` is given for an entropy
and a phrase of it (`StoredIsRecord`), so that whichever tab unlocks gets a whole wallet. `TabsKeepOnlyDrafts` speaks of all the state of
a tab: React's, the words on its page, and sessionStorage.

`WalletPay_proofs` proves the four safety properties of `wallet_pay`:

* `ButtonIsBusy`: at most one send belongs to the pay tab shown, and the button is disabled exactly then.
* `HistoryHolds`: a payment whose answer is under way is taken, not listed yet, and awaited by one send only
  (`HistoryInv`), so that putting it on top keeps the list free of repetitions.
* `CashStays`: an id fixes what its output is worth (`Out`), every payment taken is balanced however old the list it was built from
  (`Balanced`), and the worth of the outputs and of the confirmed payments is that of the coins (`Accounts`). The laws of sums this
  needs (one element more, one less, two disjoint parts) are proved from the community modules' folds by a smallest counterexample.
* `TypesHold`, with the cap of the history.

### Scanner and explorer

`Scanner_proofs` proves the three properties of `scanner` for every number of runs; the invariant adds
that no run that has not started has asked for a stream, and that an effect under way belongs to an open scanner.
`ExplorerModal_proofs` proves `ModalsShowTheirOwn` and `ModalsAreServed`; the invariant adds that whatever is still
under way for the modal shown was asked by one of its type, because another type mounts anew with a new number; and that the last
fetch of all is that of the modal shown for the key it has now (`LastIsCurrent`), so that when it is answered, the answer is shown,
until one to an earlier key comes (`LastIsServed`).

`ExplorerFeed_proofs` proves `RowsHold` and `FeedIsNewestFirst`. An answer is a whole window of a chain (`Page`): the heights from
its top down to a page below. `KnownInv` says that the window under the highest known height is known, so that the heights of a
later answer that are not known yet lie above everything listed, and sorting them and putting them on top keeps the order.
`~overtaken` is used only there; that no height comes twice holds in any order of answers.

### Assumptions

`TreeAssumption` and `LedgerAssumption` state what the headers and the checks of
`AddBlock` give. `Ancestors` and `Replay` are
recursive along the parent; they are constants with their defining equations (`TreeAssumption`, `ReplayAssumption`), computed
by recursive functions in `MCBlockchain` and `MCSync`, and TLC evaluates the assumptions on every instance. That an ancestry is a chain
with one block at each height, and closed, is proved (`AncestorsAreChains`): the induction over the height is
an appeal to the lowest block for which it would fail, which the theorems on well-founded sets provide without a schema. `Sync_proofs` has its
own copy, with the growth of the work.

`PoolAssumption` and `MinerAssumption` say that payments spend something, that two payments create different
outputs (an output is named by the id of its payment) and that none is a coin of the start. `WalletAssumption` says that
coins are finitely many, with an id each, `FeedAssumption` that a page has a row. `SessionAssumption` and `ModalAssumption` say that "nothing" is no record and that draws and phrases are
of their types, `ScannerAssumption` that there is a run, `SyncAssumption` that the limits are numbers and that a peer's
first tip is on the branch it extends.

### Only model-checked

Every invariant of a passing run is a theorem, but `PhrasesRestore`. What stays with TLC is liveness, `LockReleased`, `CatchesUp`, `SyncingIsDeferredOnly`, `SendEnds`,
`BalanceCatchesUp`, `TipIsListed` and `Loads`: fairness and ENABLED are out of the prover's reach. So is
`CodecRoundTrips`, the hypothesis on the codecs, and with it `PhrasesRestore`: a statement about every base and length of a fold over digits.

## Not modelled

* The RandomX engine: it computes hashes; `Blockchain` lets any verification end either way at any time.
* The peer table, handshake, bans and address book: one step and a set in `Sync`.
* The seed reconnect loop and the order of `Server.Stop`; a stop at any point of the chain's writes is in `Blockchain`.
* Retargeting and the halving schedule: long computations over one window of blocks, which `Blockchain` replaces by any
  work values.
* `send.go` and the command line wallet; the web wallet's selection of outputs is modelled, and theirs has no concurrency.
* The RPC's formatting and rate limiter: an answer that fails.
* Docs, download and release pages, navigation, theme and word list: text, links and one fetch. `LiveChain` and
  `Faucet`: no page imports the one and no route leads to the other.
* The desktop GUI, the old explorer page, deployment.

## Running

`tlc -config chain_forks.cfg MCBlockchain.tla`, and so on for each run with the module that `PROJECT.json` names;
`rejected_reorg` and `sync_genesis` end with a counterexample. `tlapm Blockchain_proofs.tla`, and so on for each `_proofs` module, check the proofs.
