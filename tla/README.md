# A verification development for the Zunia extension

Zunia is a Cosmos wallet that runs as a Manifest V3 browser extension. A
background worker holds the unlocked session and signs. A content script and an
injected provider connect web pages to it; a popup, full tabs and a connect frame
drawn over the page ask the user. The code that decides anything runs in the
worker, single-threaded, but nearly every line of it awaits: storage calls that
are not atomic together, prompts that can be answered from several places, tabs
and frames that vanish, timers, locks, and a browser that stops the worker when
it likes. What can go wrong there is order, and tests rarely choose it.

This directory holds TLA+ modules of those parts, TLC configurations that check
them on small instances, and theorems that TLAPS checks for all instances.
`PROJECT.json` names, for every definition, the lines it stands for.

## The system

| Part | State | Operations | What makes it correct |
|---|---|---|---|
| Approval queue, `lib/approvals.ts` | four maps: approvals, resolvers, timers, and the hosts of prompts | enqueue, join, settle, reject, expire | the maps describe the same requests; each is asked once and answered once; the limit holds |
| Approval surfaces, `lib/approval-ui.ts` | counted ports, the window latch | open, close, keep-alive | no dead surface is counted |
| Connect frames, worker side, `entrypoints/background.ts`, `entrypoints/connect/main.tsx` | bindings from prompts to frames | connect, duplicate, disconnect, answer | a frame answers its own prompt only, and a prompt over a page is never orphaned |
| In-page prompt, page side, `lib/connect-overlay-view.ts` | the mounted frame, the toast | ask, mount, answer, dismiss, tear down | what the worker was told was not shown is not on the page |
| Provider calls, `lib/provider-handler.ts` | the calls in flight, the shared wait for the unlock | enable, getKey, sign, suggest, disable | what is signed is what was shown, by that key; grants were approved; every call ends |
| Session and keyring, `lib/session.ts` | envelopes and account list on disk; phrase, phrase map, password and active row in the session; the auto-lock alarm | create, import, unlock, lock, reset, add, remove, switch, rename, reveal | the session signs as the row it shows; what is listed is sealed; unlocked means timed |
| Password throttle, `lib/password-throttle.ts` | failures, the time of the next try, the queue of checks | check, record, clear | no password is tried before the wait of all earlier wrong ones is over |
| Permissions, `lib/permissions.ts` | grants in storage, a write queue | grant, touch, revoke, expire | no lost update; nothing survives a reset |
| Provider events, `lib/provider-events.ts`, `event-port.ts`, `provider-tabs.ts` | the numbered log, the ports, which tab shows which site | publish, resume, sweep | a site hears of its own grant, in order, once |
| Realtime, `lib/realtime.ts`, `wallet-events.ts` | streams per chain, the alarm, arrivals, the rows pushed to surfaces | sync, tick, refresh, note an arrival, stop | an open stream is looked at again; an unlocked wallet is polled; the feed is one account's |
| Chain streams, `lib/chain-stream.ts` | a socket, its timers, the host in use | open, fail, retry, rotate, probe, close | one live socket per chain; every open stream has a way on |
| Transfer watch, `lib/transfer-watch.ts`, `pending-transfers.ts` | the list of followed transfers, those told of, the alarm | save, track, alert, note, remove | none lost, told once |
| Settings and the reads gate, `lib/settings.ts`, `interchain.ts` | settings in storage, an answer kept for a second | save, ask, revoke the permission | a read that goes out was allowed less than a second ago |
| Swap review and send review, `SwapScreen.tsx`, `SendScreen.tsx` | the form, its plan, the frozen review, prices and previews under way | plan, review, refresh, reprice, sign | what is signed is what is shown |
| Route planning, `lib/route-plan.ts` | the session's answers about channels, walks under way, the stored route cache | plan, check, read channel lists | a plan settles, and uses what is known |
| Transactions, `lib/tx-kernel.ts`, `wallet-tx.ts`, `broadcast.ts` | an attempt and the sequence it signs | sign, post, retry, wait | one press pays once |
| Notices, balances, address book, NFTs, chain catalog | storage and caches | read, write | - |
| Pure code: swaps, amounts, token identity, Amino | none | functions | - |
| Other screens, Safari app, scripts | - | - | - |

How they meet: a page's call becomes a provider call in the worker; it reads the
session and the permissions, asks through the approval queue, whose surfaces and
frames answer with `RESOLVE_APPROVAL` or `REJECT_APPROVAL`; then it reads the
session again and signs. The session's writes reach the rest through
`storage.onChanged`: sites hear `locked` and `accountsChanged`, sockets close and
open. `lockWallet` also empties the approval queue. The wallet's own screens plan
and review in the popup and send the worker `SIGN_AND_BROADCAST`; a transfer that
was sent is listed for the transfer watch. All chain reads ask the reads gate.

`PROJECT.json` lists every part under "components" and every hazard, at its line,
under "hazards".

## The modules

| Module | Models | Variables and actions |
|---|---|---|
| `Prompts` | what the queue promises the rest: asked once in a fresh slot, below the limit, answered once | `promise`; `Ask`, `Answer` |
| `Approvals` | queue, surfaces, frames | `queue`, `req`, `resolvers`, `timers` are the maps of `approvals.ts`; `pages`, `ports`, `latch` the surfaces; `frames`, `bindings` the frames; one action per message, port event, timer and answer |
| `ConnectOverlay` | the page that shows the in-page prompt | `show` per prompt, `active` and `drawn` the controller and its host element, the toasts and their timer; one action per message, load, dismissal and timer |
| `ProviderCalls` | calls as they interleave, over the prompts of `Prompts` | a record per call with the phrase, row and key it has read; one action per stretch between two awaits |
| `Session` | the keyring | `envelope`, `extras`, `accounts` on disk; `session`; `alarm`; a record per operation with what it has read; `reopened`, whether a switch wrote to a session a lock had closed; one action per storage call |
| `Throttle` | password checks and their backoff | `stored` on disk, `wall` the clock, `checks` the queue, a record per check; `failed`, `uncounted`, `sinceCounted` say what the waits should be |
| `GrantBook` | what the permission store promises: one change at a time, each of the grant it is about | `store`, `clock`; `Grant`, `Hand`, `Take`, `Drop`, `DropExpired`, `DropAll` |
| `Grants` | the permission store, what pages hear of it, the expiry alarm | `store` on disk; `line` is `pendingWrite`; a record per call with the store it has read; `changes` the browser has yet to report; `heard` by each site's page; `alarm`; one action per storage call, report, alarm, tick, worker stop and start |
| `EventFeed` | what the event log promises a page: events of its site, once, in order, passing over none that is kept | `kept`, `after`, `saw` |
| `EventLog` | the numbered log on Safari, its ports and the pages that resume | `log` in storage, `cache` and `jobs` of the worker, `port`, `last`, `mail`, `saw` of each page; one action per task of the log's queue, port event, delivery and stop |
| `Realtime` | syncs, streams and what is kept for surfaces | `streams`, `bursts`, `rows` per chain; `arrivals` in storage; `sessionChanges` yet to be reported; `liveBalances`, `readsPermitted`, `readsCache` and `saving`, what decides whether chains may be read; records of syncs, of balance reads and of arrivals being noted |
| `ChainStream` | the streams of one chain and their sockets | a record per stream (state, socket, host, timers) and per websocket |
| `TransferWatch` | the list of transfers, its writers and the pass over it | `listed`, `notified` in storage, `watching` the alarm; records of each screen's write and each pass; `alerts` shown |
| `ReadsGate` | may the wallet read? | `live`, `permitted`, the answer kept (`gate`); a record per read and per save |
| `SwapReview` | the swap screen from form to signature | `form`, `settled`, `confirm`, `signing`; the prices, previews and reviews under way |
| `SendReview` | a send to another chain from form to signature | `form`, `plan`, `pending` messages, `reviewed`; previews and prices under way; `signing`, `sent` |
| `RoutePlanning` | plans of a transfer over one leg | `rows` the stored cache; `answer`, `walk`, `walked` the session's memory; `trip` the plan; one action per await of a round, per list read, and for the checks and lists of the screens beside it |
| `Broadcast` | transactions of the wallet's screens | `next`, `pool`, `block`, `paid` the chain; a record per send; one action per request and answer |

`Approvals` implements `Prompts` (run `approvals`, proved in `ApprovalsProofs`),
and `ProviderCalls` is written over `Prompts`, so it may rely on the queue without
carrying its timers, windows and frames. `Grants` implements `GrantBook` (run
`grants`, proved in `GrantsProofs`); `ProviderCalls` treats a grant and a
revocation as one step each, which that justifies. `EventLog` implements
`EventFeed` (run `parts`, proved in `EventsProofs`): its refinement mapping takes the
log's events for what is kept and each page's last number for where it is.

`MCApprovals`, `MCSites`, `MCAnswers`, `MCParts`, `MCProviderCalls`, `MCSession`,
`MCGrants` and `MCRealtime` give the constants of the runs. `MCSites`, `MCAnswers` and
`MCParts` put several modules into one run: a variable `part` is chosen at the
start, and only that module's actions are taken from then on. These modules
share no variable, so a behaviour of one of them is a behaviour of the sum and
the sum checks what as many runs would.

### Abstractions

- A recovery phrase, chain, site or tab is a model value. An address is a pair of
  phrase and derivation index, which is what derivation depends on. Signing is
  the key it was done with.
- In `Approvals`, "sign" stands for the three kinds of signing, which the code
  treats alike.
- In `ProviderCalls` an origin is one site in one tab; a wallet is three rows, of
  which two may share a phrase, so that a phrase read before a switch and a row
  read after it make a key that no account has. Grants are sets; their expiry is
  one of the ways `Revoke` happens. A call reads a phrase and a row in two steps
  and everything else may run in between.
- In `Session` every row has its own phrase, as all the code that adds rows makes
  it (`ownSeed: true`). Rows from older versions that share a phrase are left
  out here; `ProviderCalls` has them. Passwords are right: wrong ones are
  `Throttle`'s, and a reset with a password is a reveal followed by the reset.
  Names, avatars and the chains enabled for a row are left out. The phrase map is read
  in one step, where a session without one takes a second read (`session.ts:110`).
- In `Throttle` a wrong password is one that opens nothing; a clock that is set
  forward, which ends any wait, is left out, and so is that the cut of a wait to the
  maximum is computed anew at each read.
- In `Grants` a tick of the clock is a second, the least an alarm can be set ahead;
  alarms, reports of changes and sweeps take less. A call decides and writes in one
  step, and reads the store in another. A sweep reads the store and sets its alarm
  in one step, as the browser delivers answers and events in the order they
  happened. The address a site was handed is kept as its chain: that it was a new
  address or the same one decides only whether a touch writes, so a touch may do
  either. What a call is asked is chosen when it runs, as nothing looks at it
  before. A worker that stops in the middle of delivering events to tabs is left out.
- In `Realtime` a balance row, an arrival and a stream are told apart by the account
  they are for. The answer to whether chains may be read is kept for a second; as
  no clock is there, a call that asks is answered by what is kept or asks anew, at
  will. `SET_SETTINGS` is two steps, the drop of the kept answer and the write, and
  saves come one at a time; the permission changes unheard, as no listener of the
  worker reports it. Safari's fallback for the permission is one of its values. In `ChainStream` a timer fires whenever it is set; `lib/realtime.ts`
  passes a stream one endpoint, so that the rotation of hosts, which the stream
  implements and the model has, is not reached by the wallet today.
- In `TransferWatch` the end of a transfer is a choice of the environment. Transfers
  are numbered as they are sent, and a list is a set, put in that order where it is
  read, as `pending-transfers.ts` sorts it (73-85). The list's cap (5) is reached
  before the cap of told transfers (20), so that only the first can push a transfer
  out that has yet to be told.
- In `SwapReview` and `SendReview` a plan, a price and the messages are told apart by
  what they are for. `SendReview` has the mode "Other chain", where a review waits; of
  several broadcasts under way it keeps what each pays and showed.
- In `RoutePlanning` a channel is its number on the leaving chain, and a leg is one
  pair of chains. The engine picks a forced channel, else the first verified, else
  the first, as `routeToLink` describes. There is one plan at a time: the screen
  aborts the former and waits 450 ms. The checks of the screens come beside any plan,
  pinned or not: those of `detectOnce` are the popup's, take no signal, and outlive
  the screen that asked for them. A check's ten minutes, manual rows and swaps of several legs are left
  out. The answer of a check and its row are stored in one step.
- In `Broadcast` a post goes to one endpoint; what the engine's client does when
  one does not answer is outside the repository. A user who signs again after a
  lost reply makes another send. The kernel's and the amino path are one, as they
  take the same steps. What a mismatch in a block says of the sequence is not kept: a
  send that fails there is over.
- Two storage calls are two steps in `Session` and in `ProviderCalls`. A
  continuation up to the next await is one step, as JavaScript runs it.

## Runs

| Run | Instance | Checks |
|---|---|---|
| `approvals` | two sides. Frames: two frames in one of two tabs, one page, two requests. Queue: two extension pages, no frames, three requests of which two may wait. Timers fair | `TypeOK`, `PendingIsArmed`, `FrameOwnsItsPrompt`, `OverlayPromptAlive`, `NoGhostSurface`, that the queue implements `Prompts`, `EveryRequestEnds` |
| `calls` | parts. Calls: two calls of two sites, two built-in chains, three rows on two phrases, two prompts. Throttle: four checks, one worker stop, one clock change. Gate: two reads, one save. Overlay: three prompts. Send: two targets, two prices. Balances: two accounts, one chain, two changes (of session, setting or permission, or a chain event), a sync of a surface or the alarm beside those the changes start, any worker stops | `SignedAsShown`, `GrantsWereApproved`, `OnePromptPerSite`, `GuessesWait`, `GateFollowsInTime`, `RefusedIsGone`, `ShownWhenLeftAlone`, `StreamsAreTicked`, `UnlockedIsPolled`, all types |
| `answers` | parts. Calls: two calls of one site, two chains of which one must be suggested, a queue of one, fair. Routes: three channels of which one is canonical, two plans. Pay: two sends, three sequences | `EveryCallEnds`, `PlanSettles`, `PaysOnce`, types |
| `parts` | parts. Keyring: three phrases, three indexes, two operations at once (switches, locks, renames, activity and reveals side by side), one worker stop. Feed: one page, events of two sites, a log of two, three events, two ports. Watch: two transfers, one screen, two passes, one stop. Stream: two streams, four sockets, two hosts. Swap: two keys, one of each path, two reviews, three prices | `SessionMatchesRow`, `SwitchMatchesRow`, `UnlockedIsTimed`, `NoSeedTwice`, `RevealShowsOwn`, `ListedIsSealed`; `LivePortMissesNothing`, `EachHeardInOrder`; `ToldOnce`, `PendingIsWatched`, `ListedUntilTold`; `OneSocketPerChain`, `AlwaysAWayOn`; `ReviewIsWhole`; all types |
| `grants` | two sites, two chains, two calls at once, two changes on their way, two seconds to live, one worker stop | `TypeOK`, `ToldAsStored`, `ExpiryIsTimed`, and that the store implements `GrantBook` |
| `merged` | calls of one site | violation of `MergedListSeen` |
| `reveal` | one keyring operation at a time | violation of `RevealShowsWords` |
| `lock_race` | a lock beside a switch | violation of `OpenIsTimed` |
| `reset_race` | as `grants`, a reset beside calls (`ResetBeside`) | violation of `OnlyGrantsAdd` |
| `former_account` | as balances in `calls`, three changes: an unlock, a switch and a payment between | violation of `FeedOfOneAccount` |
| `send_review` | as send in `calls`, two signatures | violation of `SignsWhatIsShown` |
| `no_route` | three channels, none canonical, two plans | violation of `NoneMeansNone` |

Why the bounds are enough. Two requests are the least for one to disturb
another, and the queue side has one more than may wait. Two frames are the least for a
duplicate claim; two tabs, for a frame in the wrong one. The two sides of `approvals`
are apart because a frame and a page meet only through the queue, whose answers both
sides have. Three rows give every
pairing of same or different phrase and index that the reads of a call can mix.
Three phrases and indexes allow add, remove, promote, add into a freed index, and
unlock again. In the keyring, creating, unlocking, resetting, adding and removing run
alone, and switches, locks, activity, renames and reveals run beside each other; why,
is below. For the balances, an unlock and a save of the setting are the least that can
leave a kept answer the wrong way, and two accounts the least for a late sync to open
a former one's streams.
Phrases there are named in the order in which they come in, and operations start in
order (`NamedInOrder`): no name is told from another, so that nothing is lost, and
no symmetry is declared where a property is one of liveness or costs more than it saves.
In `grants`, two calls are the least that can lose an update, two sites the least
with a next and a last expiry, two changes on their way the least of which one is
old when it is reported, and two seconds to live let a second grant end later than
the first; its symmetry is sound because no property of it is one of liveness.
Four password checks pass the free attempts (two), the first wait and the longest. In the
feed, a log of two forgets one of three events, and a second port is the least that
resumes. Two passes and a screen are the least with two writers of the list beside a
reader. Two streams and four sockets let a stream be closed and opened while a dropped
socket still calls back, and rotate after two failures. Two reviews are the least of
which one is late. Three channels are those that the comment on `MAX_PLAN_ROUNDS`
counts, an expired canonical one, its fallback and one that is found; with one round
fewer (`FourRounds`) `PlanSettles` fails. Two sends take each other's sequence, and a
third sequence is taken elsewhere.
`MaxIds`, `MaxIndex`, `Crashes`, `MaxClock` and the other constants that begin with
`Max`, `Crashes` and `Stops` are bounds of the models and appear only in guards,
but for those the code has itself: `MaxPending`, `MaxLogged`, `MaxRecords`,
`MaxNotified` and `MaxDelay`, which are smaller here.

In `Grants` a stopped worker starts again when a change, an alarm or a message
wants it, and sweeps as it starts. A browser that ends in the middle of a sweep
leaves no alarm, so `ExpiryIsTimed` speaks of a worker that runs or that an alarm
will start.

In `Session`, a worker stop forgets all operations and calls; a browser close also forgets the
session. After either, the properties of the keyring that are about the session
say nothing (`Uninterrupted`): the code has no recovery, and a stop in the middle
of an operation leaves the session as the last write left it, until the next
unlock builds it from disk. `ListedIsSealed` is what must hold then, and it is
checked in every state, because the disk is all that recovery has.

A switch that reads before a lock and writes after it opens the session again, with
what it read. From then until the next unlock (`reopened`) `SessionMatchesRow`,
`SwitchMatchesRow` and `UnlockedIsTimed` say nothing, as they fail; `OpenIsTimed` is the
last of them without that exception, and run `lock_race` refutes it. A lock that does
not meet a switch in that way is within what they say.

`UnlockedIsPolled` has two exceptions, both of the gate: the last sync was told no though
the wallet may read (`misled`), and the permission was given while the setting is on and
no sync has asked since (`unheard`). Neither can be dropped; below is what happens then.
`PlanSettles` allows likewise for a refusal that comes in late (`late`).

In `TransferWatch` a worker that stops between an alert and its note tells the
transfer again (`cut`), and a transfer may be lost when two writers of the list
overlap (`parted`): `ToldOnce` and `ListedUntilTold` say what holds otherwise, and the
module has both cases.

Deadlock is checked in every run. Where a part comes to rest at the bound of its
clock or of its sequences, a step that changes nothing says so (`NoMoreGuesses`,
`NoMoreSequences`).

### Fairness

`approvals` assumes only that expiry timers fire (`TimersFire`); nothing of the user
or of the pages. `answers` assumes that the event loop runs every continuation,
that prompts expire and that the wait for an unlock times out (`Fairness`): all
three are timers or promises of the worker. A stopped worker loses its calls,
which ends them for the page, as its message channel closes. In the other parts of
`answers` no call has come in, so that nothing is owed. Safety runs assume
no fairness.

### What the runs found

- `merged`. A second `enable` of a site joins the prompt of the first
  (`extendApprovalChains`, whose comment says "The user sees the merged list").
  An approval carries only the id of the request, so chains that join between the
  user's last look and the arrival of the click are granted unseen.
- `reveal`. After the first account is removed, the next one's envelope becomes
  the wallet's and its own entry is deleted, but it keeps its index, under which
  `revealMnemonic` looks for the entry. The recovery phrase screen then refuses for the
  account that is active, and so does a reset with a password.
- `lock_race`. `setActiveAccount` reads the phrase map, and writes the phrase in a
  later call. A lock in between is undone: the session holds a phrase again, and,
  if `lockWallet` clears the alarm last, no alarm will end it. With no phrase map
  left, the next switch also takes another account's phrase.
- `reset_race`. `resetWallet` removes the permission store outside the queue of its
  writes. A call that has read the store writes all grants back, for the next wallet.
- `former_account`. A switch clears the arrivals before the former account's streams
  are closed; a payment they report in between is listed for the active account.
- `send_review`. The form can be edited while a review waits for its preview. The
  confirm screen names the address in the form, the messages pay that of the plan.
- `no_route`. A walk of the channel lists outlives the plan that started it. When it
  stores what it found between the next plan's reading of the graph and its question
  whether anything is left to read, that plan ends with the warning that no channel
  was turned up.

These happen in the models, or were met while writing them, and have no run:

- Every write of the permission store sets the expiry alarm anew and never less than
  a second ahead, so writes in close succession put off the end of a grant that has
  already run out; `ExpiryIsTimed` allows for that, and `hasPermission` does not
  honour the grant meanwhile.
- Two `addAccountSeed` that overlap take one index and overwrite each other's
  envelope (`Kinds` = create and add, `Beside` = add; `ListedIsSealed` fails). A
  worker stop between the account list and the session leaves a row without its phrase
  in the phrase map until the next unlock, and `phraseFor` falls back to the first
  phrase for it (`SwitchMatchesRow` without `Uninterrupted`). Removing an account
  deletes the only sealed copy of its phrase (`lib/session.ts:620`), while the dialog
  says it is not deleted.
- A former account's balance row may be handed out after a switch or a lock, until the
  next tick; sockets for a locked or former account stay open until then too
  (`entrypoints/background.ts:955-960`). Arrivals noted at once may lose one
  another, as the list is read and written back.
- `SET_SETTINGS` drops the kept answer of the reads gate before the setting is written
  (`entrypoints/background.ts:694-700`), though its comment says the next read must not
  be decided by the old setting. A balance read in between keeps the former answer for
  a second, and the sync of the change is answered by it: live balances that were
  turned on while the wallet is unlocked get no alarm, and nothing polls until a
  surface, an unlock, a switch or a worker start asks again (`UnlockedIsPolled` without
  `misled` fails so). Turned off, reads may go out on a kept yes for that second
  (`ReadsGate`).
- A permission of the browser that is given while the setting is on starts no sync
  (`UnlockedIsPolled` without `unheard` fails).
- `detectOnce` of the screens (`interchain-ui.tsx:373-423`) may refuse a channel after a
  plan has read the graph (`lib/route-plan.ts:1476`) and before it looks up what is
  known of the channel (1489). `checkPath` takes that for a channel the plan was forced
  onto, as its doc says a refusal known before always is (870-873), asks for no other
  round, and the plan ends refused though the graph has another channel (`PlanSettles`
  without `late` fails so, for two canonical channels and one plan).
- `addAccountSeed` looks at the lock, waits for the kernel and then reads the phrase map
  (`lib/session.ts:563-573`), which a lock in between has removed. Any phrase passes for
  a new one: one the wallet has is listed twice, and the add opens the wallet again
  (`Beside` = add and lock; `NoSeedTwice` fails).
- A wait recorded before the clock is set back stays longer than the maximum.
- A stranded swap, which stays listed, is told again when twenty others were told
  after it while it is still followed (`ToldOnce` with `MaxNotified` below
  `MaxTransfers` fails).
- The load timer of a prompt that was dismissed may take down the one after it
  (`lib/connect-overlay-view.ts:445`), and taking a prompt down clears the timer of a
  toast that is still up (242).
- New prices on the Send screen clear `busy` while a signature is under way
  (`reprice`), so Sign can be pressed again; on the Swap screen the price is not
  refreshed while the password is asked for.
- A transaction that is in no block after 45 seconds is reported as a success
  (`lib/broadcast.ts:189`), and the sequence is read again after the preview was
  approved (`lib/tx-kernel.ts:404`), against the comments on both.

## Theorems

Eight modules prove for every value of the constants: `ApprovalsProofs`,
`ProviderCallsProofs`, `GrantsProofs` and `SessionProofs` of the module they are named
for, `SitesProofs` of the other parts of run `calls`, `PaymentsProofs` of the routes and
payments of run `answers`, `EventsProofs` of the feed and the streams of run `parts`, and
`TransfersProofs` of its transfers and swaps. Every invariant of every passing run is stated by one of them.

| Of | Safety | Also |
|---|---|---|
| `Approvals` | `PendingIsArmed`, `QueueBounded`, `FrameOwnsItsPrompt`, `OverlayPromptAlive`, `NoGhostSurface` | `Refinement`: it implements `Prompts`; types |
| `ProviderCalls` | `SignedAsShown`, `GrantsWereApproved`, `OnePromptPerSite` | types |
| `Session`, for `SideBySide` | `ListedIsSealed`, `SwitchMatchesRow`, `SessionMatchesRow`, `UnlockedIsTimed`, `NoSeedTwice`, `RevealShowsOwn` | types |
| `Grants` | `ToldAsStored`, `ExpiryIsTimed` | types; `OneByOne`: it implements `GrantBook` when no reset runs beside its calls |
| `EventLog` | `LivePortMissesNothing` | types; `HeardInOrder`: it implements `EventFeed` |
| `Realtime` | `StreamsAreTicked`, `UnlockedIsPolled` | types |
| `ChainStream` | `OneSocketPerChain`, `AlwaysAWayOn` | types |
| `Throttle` | `GuessesWait` | - |
| `ReadsGate` | `GateFollowsInTime` | - |
| `ConnectOverlay` | `RefusedIsGone` | types |
| `TransferWatch` | `PendingIsWatched`, `ListedUntilTold`, and `ToldOnce` for `MaxTransfers <= MaxNotified` | types |
| `SwapReview` | `ReviewIsWhole` | types |
| `SendReview` | `ShownWhenLeftAlone` | - |
| `RoutePlanning` | `PlanSettles` for `FewChannels` | - |
| `Broadcast` | `PaysOnce` | - |
| `MCSites`, `MCAnswers`, `MCParts` | - | the types of all their parts: `SitesTypeOK`, `PlanAndPayTypeOK`, `PartsTypeOK` |

They assume what the modules assume of their constants: frames sit in tabs, rows
have phrases and paths, limits are natural numbers, the schedule's first delay is no
longer than its longest, and the values for "none" are not among the others. Some
assume more, and say less than the code would need where that is not so:

- `SideBySide` (all of `Session`, and `PartsTypeOK`, whose keyring this is): what runs
  beside one another are switches, locks, activity, renames and reveals, and creating,
  unlocking, resetting, adding and removing run alone. The popup starts those from
  screens of their own, one at a time, but nothing in the code makes it so, and a lock
  may come from its alarm at any time: beside an add it makes `NoSeedTwice` fail, and two adds make `ListedIsSealed` fail; so neither is true without
  the hypothesis. Locks beside switches are inside it: what they can break is named
  by `reopened`, above, and not assumed away.
- `ResetBeside = FALSE` (`OneByOne` alone): a reset beside a call lets the call write
  back what it read (run `reset_race`). What pages are told and when grants end is
  proved with resets wherever they fall.
- `FewChannels` (`PlanSettles`): a leg has at most three channels, two fewer than the
  rounds of `MAX_PLAN_ROUNDS`, which counts them so in its comment. With a fourth that
  is refused a plan may run out of rounds.
- `MaxTransfers <= MaxNotified` (`ToldOnce`): no more transfers are sent than are
  remembered as told, twenty in the code. A stranded swap stays listed after it was
  told; once it is forgotten, the next alarm tells it again.

The argument. In `Approvals` the three maps stay equal because `settle` is the one
way out and enqueueing the one way in (`SettleTypes`, `AnswerSteps`). That is not
inductive without knowing that ids beyond `next` are unused (`FreshIds`), and a
frame's claim survives only because a connection request that still waits for the
content script has no host (`PlacedEnables`); `OverlayPromptAlive` needs both.
`IInv` is their conjunction; `QueueSteps` reduces most actions to three kinds of
queue step, so that each invariant is proved over three cases and not over all
actions. `Refinement` maps every action to an ask, an answer of a set, or a
stutter.

In `ProviderCalls` the invariant says what a call at each stage has in hand: which
prompt it waits on, with its own site and signer in it, and which key it read before
asking. `SignedAsShown` follows because the last step compares the key it re-read
with the one it read before the prompt, and because a call has a prompt of its
own unless it is an `enable`. `GrantsWereApproved` needs that chains joined to a
prompt are in the prompt when it is approved.

In `Session` the invariant (`IInv` of `SessionProofs`) has four parts. `StoreInv` is
of the disk alone and holds after every single write: a listed phrase is the
wallet's or sealed by itself at its index, and by itself if it is an added one and
the first account is there. `Knows` says of each stage of each operation what its
reads were worth: of one that runs alone, that the list is as it read it, what it
has sealed by now, and, halfway through a promotion, which of the two envelopes has
the phrase. `OneAlone` is why such knowledge lasts. `MapKept`, `RowKept` and `Timed`
are of the session and hold as long as the worker was not stopped: its phrase map
has the phrase of every row, by the row's index or, for the first, as the wallet's;
the phrase in it is that of the row it says is active; its alarm is set or about to
be. An unlock keeps them because its map is built from the same disk that `StoreInv`
is about, a removal because what it takes from the map is the row it took from the
list (`Owned`), and a switch because it writes the phrase the map has for its row. A lock
beside these only takes away, so that a session that is open without `reopened` is one
no lock has touched since it was opened: a step that shares the session with others
keeps it (`SharesStill`), and a switch that finds it closed sets `reopened`.
`SeedsApart` needs that an add looked for its phrase in the map of a session that
fits.

In `Grants` the types rest on `Shapes`, which is inductive wherever resets fall: a
call that has read the store is the first in line, and what it read notes an address of
a granted chain only. Without resets beside calls the store is moreover still as
it was read (`SameRead`), so that what is written is one change of the book (`WriteIsChange`).
`ToldAsStored` needs that each change on its way starts where the one before it ended,
the first where the pages are and the last where the store is (`Linked`).
`ExpiryIsTimed` follows the alarm along those changes: once they are all reported and
no sweep is due, the alarm is in time for every grant that is left (`Timed`, `InTime`).

In `EventLog` the queue runs one task, so only its first one has begun (`OneRuns`);
the worker's copy is the log, or the log as it is about to be (`CopyIsLog`); and
numbers never go back, as they are at least the clock's and the clock's only grow
(`LogIsNumbered`). A page's batches follow one another and leave out no event of its
site that is kept (`BatchesInOrder`), which rests on a port asking once, before it
is sent anything (`AskedOnce`, `AskedFirst`). `LivePortMissesNothing` is inductive
with these, and from them a delivery is a step of `EventFeed` that passes over
nothing kept, a store a step that adds and forgets, and every other step a stutter
(`FeedStep`).

In `ChainStream` the invariant is that every attached socket is held by its own
stream (`SocketsAreHeld`), that a stream's timers follow its state
(`StreamsAreSound`), and that sockets not yet made are as new (`Unmade`). In `Realtime`,
`StreamsAreTicked` needs that a stopped worker holds nothing, and `UnlockedIsPolled` that
an unlocked wallet that may read and has no alarm has a change to be heard or a sync
under way, or is one of the two exceptions (`PolledOrSeenTo`), the last change leading to
the account that is active now; a sync that is told no by what is kept becomes one of
them, and one that asks anew is told what is so. In
`Throttle` it is that only the first check in the queue works, that what it read is
what is stored, that the stored failures and those cut off are all there were, and that
the stored wait ends no sooner than its delay after the last counted failure. In
`ReadsGate` it is that an answer that is kept, or that a read has half of, disagrees with
the setting and the permission only if they changed after the read that brought it
began. In `ConnectOverlay` the frames in the page are those of the one prompt the
controller holds, which is loading or shown (`HeldInv`).

In `TransferWatch` each of the three has an invariant of its own. For `PendingIsWatched` it
is that whoever could set the alarm has yet to come (`LookedFor`). For `ToldOnce` it is
that one pass runs, that nothing is told that it has yet to come to, and that whatever was
shown is noted or about to be, unless it was cut off (`Telling`). For `ListedUntilTold` it
is that, as long as no two overlapped, one writer at most has read the list, and
has all in it that is followed (`Listing`); a save pushes out only what was sent before.
In `SwapReview` a review's number is given once and to one key (`NumbersAreOwn`), and a
plan, a price and a review are each for the key they go with, so that what a late answer
finds under its own number was built for the same key (`WholeInv`). In `SendReview` it is
that while the form is left alone, whatever is on its way to the confirm screen or was
put there is for the form's target. In `RoutePlanning` every round but the first was
earned by a definite answer to one more channel, or by the one reading of the lists
(`RoundsAreEarned`), so that there are at most two rounds more than channels; and what a
plan has chosen itself is not refused when it is routed, asked and shown, unless a check
beside it refused it in between (`late`; `Unforced`).
In `Broadcast` it is that a send has at most one transaction that can still enter a block
(`OneAtATime`), none once it has paid (`PaidIsOver`), and none while it is read or
signed or after a block in which it failed: only an answer that says so leads to
another signature.

For the three modules of parts the invariant is the conjunction of those of the parts:
whichever part runs, the others stutter, which each part's own lemma covers.

Only model-checked: the liveness of `EveryRequestEnds` and `EveryCallEnds`, as
fairness and ENABLED are beyond the prover.

## What could follow

Swaps of several legs and manual channels in `RoutePlanning`; the memory of tabs
(`provider-tabs.ts`); what is left of `SideBySide` once operations that change the
account list may overlap, for which the code would first need a queue of its own.

## Not modelled

The components marked so in `PROJECT.json`, with their reasons: encodings and
cryptography happen in a wasm kernel outside the repository; network reads are
inputs; amounts, token names and quotes are conversions and tables; the other
screens, build files and the Safari container hold no protocol. Of the parts that
are modelled, what is left out is named in their notes and above. A large
share of the repository's lines is screens, tables and reads of that kind, so that
the modules stand for a small share of its lines.
