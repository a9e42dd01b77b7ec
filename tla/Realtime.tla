------------------------------ MODULE Realtime ------------------------------
(***************************************************************************)
(* Live balances (lib/realtime.ts and its callers in background.ts): which  *)
(* chains have an open stream and for which account, the alarm that reopens *)
(* them, and the balances and arrivals the worker keeps for its surfaces.   *)
(* Syncs are not serialized: locks, switches, chain events and other syncs  *)
(* come between their awaits.                                               *)
(*                                                                         *)
(* Whether chains may be read at all is a setting and a permission of the   *)
(* browser, and the answer is kept (interchain.ts interchainReadsAllowed):   *)
(* while it is under a second old it is used, so each call that asks is     *)
(* answered either by what is kept or by asking.  ReadsGate has the clock.  *)
(*                                                                         *)
(* The browser delivers answers and events in the order they happened, so a *)
(* read and what follows it at once are one step.  A balance row, an        *)
(* arrival and a stream are told apart by the account they are for.         *)
(***************************************************************************)
EXTENDS Naturals, Sequences, FiniteSets

CONSTANTS AccountIds, ChainIds,
          MaxEvents,  \* bound: session, settings and permission changes, chain events
          MaxSyncs     \* bound: calls under way when a surface or the alarm starts one

NoAccount == "no account"
ASSUME AccountsAssumption == NoAccount \notin AccountIds
ASSUME RealtimeBoundsAssumption == MaxEvents \in Nat /\ MaxSyncs \in Nat

VARIABLES
  activeAccount,    \* storage.session: the unlocked account
  ticking,          \* the realtime alarm is set
  arrivals,         \* storage.local: whose arrivals are stored
  sessionChanges,   \* changes of the session the worker has yet to hear of
  up,               \* the worker runs
  liveBalances,     \* storage.local: the live-balances setting
  settingsChanged,  \* it changed and the worker has yet to hear of it
  readsPermitted,   \* the browser lets the wallet reach the chains' endpoints
  readsCache,       \* the answer kept to "may we read?"
  saving,           \* SET_SETTINGS under way: what it is about to write
  unheard,          \* history: permitted since the last sync that was, the setting being on
  misled,           \* history: the last answer a sync got was a no though it may read
  streams,          \* each chain: the account its open stream watches
  bursts,           \* each chain: the account a refresh is scheduled for
  rows,             \* each chain: whose balance the surfaces are handed
  syncs,            \* syncRealtime calls and balance reads under way
  noting,           \* events on their way into the stored arrivals
  reading,          \* accounts whose balances are being read
  followUps,        \* switch handlers that have yet to do their part
  changeCount

disk == <<activeAccount, ticking, arrivals, sessionChanges, changeCount>>
allowance == <<liveBalances, settingsChanged, readsPermitted, readsCache, saving, unheard, misled>>
memory == <<streams, bursts, rows, syncs, noting, reading, followUps>>
realtimeVars == <<disk, up, allowance, memory>>

MaybeAccount == AccountIds \cup {NoAccount}
Nobody == [c \in ChainIds |-> NoAccount]
Sync(pc, kind) == [pc |-> pc, kind |-> kind, account |-> NoAccount]
\* What calls syncRealtime and nothing else, reads balances, or does one after the other.
SyncOnly == Sync("begins", "sync")
ReadOnly == Sync("begins", "read")
SyncThenRead == Sync("begins", "both")
MayRead == liveBalances /\ readsPermitted

RealtimeInit ==
  /\ activeAccount = NoAccount /\ ticking = FALSE /\ arrivals = {} /\ sessionChanges = <<>>
  /\ changeCount = 0 /\ up = FALSE
  /\ liveBalances \in BOOLEAN /\ readsPermitted \in BOOLEAN /\ settingsChanged = FALSE
  /\ readsCache = "none" /\ saving = "nothing" /\ unheard = FALSE /\ misled = FALSE
  /\ streams = Nobody /\ bursts = Nobody /\ rows = Nobody
  /\ syncs = {} /\ noting = {} /\ reading = {} /\ followUps = {}

-----------------------------------------------------------------------------
(* What the worker reacts to *)

CountsIt == changeCount < MaxEvents /\ changeCount' = changeCount + 1

\* Lock, unlock, or a switch, whose handler has more to do.
SessionChanges ==
  /\ CountsIt
  /\ \E to \in MaybeAccount \ {activeAccount} :
       /\ activeAccount' = to
       /\ sessionChanges' = Append(sessionChanges, [from |-> activeAccount, to |-> to])
       /\ followUps' = IF activeAccount # NoAccount /\ to # NoAccount
                       THEN followUps \cup {to} ELSE followUps
       /\ up' = TRUE
       /\ syncs' = IF up THEN syncs ELSE {SyncOnly}
  /\ UNCHANGED <<ticking, arrivals, allowance, streams, bursts, rows, noting, reading>>

\* A worker that starts syncs once.
Wakes(more) ==
  /\ up' = TRUE
  /\ syncs' = syncs \cup more \cup (IF up THEN {} ELSE {SyncOnly})

\* The switch is flipped: the answer kept is dropped, and then the setting is written.
SaveBegins ==
  /\ CountsIt
  /\ saving = "nothing" /\ saving' \in {"on", "off"}
  /\ readsCache' = "none"
  /\ Wakes({})
  /\ UNCHANGED <<activeAccount, ticking, arrivals, sessionChanges, liveBalances,
                 settingsChanged, readsPermitted, unheard, misled, streams, bursts, rows,
                 noting, reading, followUps>>

SettingWrites ==
  /\ saving # "nothing" /\ saving' = "nothing"
  /\ liveBalances' = (saving = "on")
  /\ settingsChanged' = (settingsChanged \/ liveBalances' # liveBalances)
  /\ UNCHANGED <<disk, up, readsPermitted, readsCache, unheard, misled, memory>>

\* No listener of the worker hears of the permission.
PermissionFlips ==
  /\ CountsIt
  /\ readsPermitted' = ~readsPermitted
  /\ unheard' = (liveBalances /\ ~readsPermitted)
  /\ UNCHANGED <<activeAccount, ticking, arrivals, sessionChanges, up, liveBalances,
                 settingsChanged, readsCache, saving, misled, memory>>

\* Replaces what the surfaces were handed, and clears the former account's feed.
Renewed == rows' = Nobody
AfterSwitch == Sync("clears", "both")

ChangeIsHeard ==
  /\ sessionChanges # <<>>
  /\ sessionChanges' = Tail(sessionChanges)
  /\ CASE Head(sessionChanges).to = NoAccount ->
            streams' = Nobody /\ bursts' = Nobody /\ Renewed /\ Wakes({})
       [] Head(sessionChanges).from = NoAccount ->
            Wakes({SyncOnly, ReadOnly}) /\ UNCHANGED <<streams, bursts, rows>>
       [] OTHER ->
            Renewed /\ Wakes({AfterSwitch}) /\ UNCHANGED <<streams, bursts>>
  /\ UNCHANGED <<activeAccount, ticking, arrivals, changeCount, allowance, noting, reading,
                 followUps>>

\* Nothing follows a change of the settings.
SettingIsIgnored ==
  /\ settingsChanged
  /\ settingsChanged' = FALSE
  /\ Wakes({})
  /\ UNCHANGED <<disk, liveBalances, readsPermitted, readsCache, saving, unheard, misled,
                 streams, bursts, rows, noting, reading, followUps>>

SettingIsHeard ==
  /\ settingsChanged
  /\ settingsChanged' = FALSE
  /\ Wakes({SyncOnly})
  /\ UNCHANGED <<disk, liveBalances, readsPermitted, readsCache, saving, unheard, misled,
                 streams, bursts, rows, noting, reading, followUps>>

\* The handler of a switch does what the listener does.
SwitchFollowsUp ==
  /\ \E a \in followUps : followUps' = followUps \ {a}
  /\ Renewed /\ Wakes({AfterSwitch})
  /\ UNCHANGED <<disk, allowance, streams, bursts, noting, reading>>

SurfaceOpens ==
  /\ Cardinality(syncs) < MaxSyncs
  /\ Wakes({SyncOnly, ReadOnly})
  /\ UNCHANGED <<disk, allowance, streams, bursts, rows, noting, reading, followUps>>

AlarmTicks ==
  /\ ticking /\ Cardinality(syncs) < MaxSyncs
  /\ Wakes({SyncThenRead})
  /\ UNCHANGED <<disk, allowance, streams, bursts, rows, noting, reading, followUps>>

-----------------------------------------------------------------------------
(* syncRealtime, and the balance reads of a tick, an unlock and a surface     *)

\* The call s moves to pc, or is done and goes on to what follows it.
Moves(s, pc) == syncs' = (syncs \ {s}) \cup {[s EXCEPT !.pc = pc]}
Concludes(s) == syncs' = (syncs \ {s}) \cup (IF s.kind = "both" THEN {ReadOnly} ELSE {})

Clears(s) ==
  /\ s.pc = "clears"
  /\ arrivals' = {}
  /\ Moves(s, "begins")
  /\ UNCHANGED <<activeAccount, ticking, sessionChanges, changeCount, up, allowance,
                 streams, bursts, rows, noting, reading, followUps>>

\* stopRealtime, and no alarm.
StopsAll(s) ==
  /\ streams' = Nobody /\ bursts' = Nobody
  /\ ticking' = FALSE
  /\ Concludes(s)

\* What is not allowed ends here, and a sync ends what runs.
Refused(s) ==
  IF s.kind = "read" THEN Concludes(s) /\ UNCHANGED <<ticking, streams, bursts>> ELSE StopsAll(s)

Begins(s) ==
  /\ s.pc = "begins"
  /\ IF activeAccount = NoAccount THEN Refused(s)
     ELSE Moves(s, "asks") /\ UNCHANGED <<ticking, streams, bursts>>
  /\ UNCHANGED <<activeAccount, arrivals, sessionChanges, changeCount, up, allowance, rows,
                 noting, reading, followUps>>

\* getChainAccounts follows an answer of yes: it takes the phrase and waits for the kernel.
Allowed(s) ==
  /\ IF s.kind = "read" /\ activeAccount # NoAccount
     THEN reading' = reading \cup {activeAccount} ELSE UNCHANGED reading
  /\ IF s.kind = "read" THEN Concludes(s)
     ELSE syncs' = (syncs \ {s}) \cup {[s EXCEPT !.pc = "opens", !.account = activeAccount]}
  /\ UNCHANGED <<ticking, streams, bursts>>

Answered(s, yes) ==
  /\ IF yes THEN Allowed(s) ELSE Refused(s) /\ UNCHANGED reading
  /\ IF s.kind = "read" THEN UNCHANGED <<unheard, misled>>
     ELSE unheard' = (unheard /\ ~yes) /\ misled' = (MayRead /\ ~yes)
  /\ UNCHANGED <<activeAccount, arrivals, sessionChanges, changeCount, up, liveBalances,
                 settingsChanged, readsPermitted, saving, rows, noting, followUps>>

\* A kept answer that is not too old decides.
AsksCache(s) ==
  /\ s.pc = "asks" /\ readsCache # "none"
  /\ Answered(s, readsCache = "yes")
  /\ UNCHANGED readsCache

\* Otherwise the setting, which may refuse alone.
AsksSetting(s) ==
  /\ s.pc = "asks"
  /\ \/ liveBalances /\ Moves(s, "permits")
        /\ UNCHANGED <<disk, up, allowance, streams, bursts, rows, noting, reading, followUps>>
     \/ ~liveBalances /\ readsCache' = "no" /\ Answered(s, FALSE)

\* hasLiveBalancePermission
AsksPermission(s) ==
  /\ s.pc = "permits"
  /\ readsCache' = IF readsPermitted THEN "yes" ELSE "no"
  /\ Answered(s, readsPermitted)

\* The chains that get a stream: enabled, with an RPC host, access granted, in the cap.
Reconciled(account, live) == [c \in ChainIds |-> IF c \in live THEN account ELSE NoAccount]
\* The alarm is left to the next sync.
OpensAndIsDone(s) ==
  /\ s.pc = "opens"
  /\ \E live \in SUBSET ChainIds : streams' = Reconciled(s.account, live)
  /\ Concludes(s)
  /\ UNCHANGED <<disk, up, allowance, bursts, rows, noting, reading, followUps>>

OpensStreams(s) ==
  /\ s.pc = "opens"
  /\ \E live \in SUBSET ChainIds : streams' = Reconciled(s.account, live)
  /\ Moves(s, "looks")
  /\ UNCHANGED <<disk, up, allowance, bursts, rows, noting, reading, followUps>>

\* ensureAlarm: looks the alarm up, and sets it when there is none.
Looks(s) ==
  /\ s.pc = "looks"
  /\ IF ticking THEN Concludes(s) ELSE Moves(s, "creates")
  /\ UNCHANGED <<disk, up, allowance, streams, bursts, rows, noting, reading, followUps>>

Creates(s) ==
  /\ s.pc = "creates"
  /\ ticking' = TRUE
  /\ Concludes(s)
  /\ UNCHANGED <<activeAccount, arrivals, sessionChanges, changeCount, up, allowance,
                 streams, bursts, rows, noting, reading, followUps>>

-----------------------------------------------------------------------------
(* Chain events and balances *)

\* A transaction of the watched account; an incoming one is remembered first.
ChainEvent(c) ==
  /\ streams[c] # NoAccount /\ CountsIt
  /\ \E pc \in {"reads", "arms"} :
       noting' = noting \cup {[pc |-> pc, chain |-> c, account |-> streams[c], read |-> {}]}
  /\ UNCHANGED <<activeAccount, ticking, arrivals, sessionChanges, up, allowance, streams,
                 bursts, rows, syncs, reading, followUps>>

ArrivalReads(n) ==
  /\ n.pc = "reads"
  /\ noting' = (noting \ {n}) \cup {[n EXCEPT !.pc = "writes", !.read = arrivals]}
  /\ UNCHANGED <<disk, up, allowance, streams, bursts, rows, syncs, reading, followUps>>

ArrivalWrites(n) ==
  /\ n.pc = "writes"
  /\ arrivals' = n.read \cup {n.account}
  /\ noting' = (noting \ {n}) \cup {[n EXCEPT !.pc = "arms", !.read = {}]}
  /\ UNCHANGED <<activeAccount, ticking, sessionChanges, changeCount, up, allowance,
                 streams, bursts, rows, syncs, reading, followUps>>

BurstBegins(n) ==
  /\ n.pc = "arms"
  /\ bursts' = [bursts EXCEPT ![n.chain] = n.account]
  /\ noting' = noting \ {n}
  /\ UNCHANGED <<disk, up, allowance, streams, rows, syncs, reading, followUps>>

BurstEnds(c) ==
  /\ bursts[c] # NoAccount
  /\ bursts' = [bursts EXCEPT ![c] = NoAccount]
  /\ reading' = reading \cup {bursts[c]}
  /\ UNCHANGED <<disk, up, allowance, streams, rows, syncs, noting, followUps>>

\* The chains that answered are merged into what surfaces are handed.
BalancesArrive(a) ==
  /\ a \in reading
  /\ reading' = reading \ {a}
  /\ \E read \in SUBSET ChainIds :
       rows' = [c \in ChainIds |-> IF c \in read THEN a ELSE rows[c]]
  /\ UNCHANGED <<disk, up, allowance, streams, bursts, syncs, noting, followUps>>

-----------------------------------------------------------------------------
(* The browser *)

RealtimeWorkerStops ==
  /\ up
  /\ up' = FALSE
  /\ streams' = Nobody /\ bursts' = Nobody /\ rows' = Nobody
  /\ syncs' = {} /\ noting' = {} /\ reading' = {} /\ followUps' = {}
  /\ readsCache' = "none" /\ saving' = "nothing"
  /\ UNCHANGED <<disk, liveBalances, settingsChanged, readsPermitted, unheard, misled>>

RealtimeNext ==
  \/ SessionChanges \/ SaveBegins \/ SettingWrites \/ PermissionFlips
  \/ ChangeIsHeard \/ SettingIsHeard \/ SwitchFollowsUp \/ SurfaceOpens \/ AlarmTicks
  \/ \E s \in syncs : \/ Clears(s) \/ Begins(s) \/ AsksCache(s) \/ AsksSetting(s)
                      \/ AsksPermission(s) \/ OpensStreams(s) \/ Looks(s) \/ Creates(s)
  \/ \E c \in ChainIds : ChainEvent(c) \/ BurstEnds(c)
  \/ \E n \in noting : ArrivalReads(n) \/ ArrivalWrites(n) \/ BurstBegins(n)
  \/ \E a \in AccountIds : BalancesArrive(a)
  \/ RealtimeWorkerStops

RealtimeSpec == RealtimeInit /\ [][RealtimeNext]_realtimeVars

-----------------------------------------------------------------------------
(* Properties *)

Syncs == [pc : {"clears", "begins", "asks", "permits", "opens", "looks", "creates"},
          kind : {"sync", "read", "both"}, account : MaybeAccount]
Notes == [pc : {"reads", "writes", "arms"}, chain : ChainIds, account : AccountIds,
          read : SUBSET AccountIds]

\* The worker, the browser and storage hold values of their types.
RealtimeTypeOK ==
  /\ activeAccount \in MaybeAccount /\ arrivals \subseteq AccountIds
  /\ sessionChanges \in Seq([from : MaybeAccount, to : MaybeAccount])
  /\ {ticking, up, liveBalances, settingsChanged, readsPermitted, unheard, misled} \subseteq BOOLEAN
  /\ readsCache \in {"none", "yes", "no"} /\ saving \in {"nothing", "on", "off"}
  /\ {streams, bursts, rows} \subseteq [ChainIds -> MaybeAccount]
  /\ syncs \subseteq Syncs /\ noting \subseteq Notes
  /\ reading \subseteq AccountIds /\ followUps \subseteq AccountIds
  /\ changeCount \in 0 .. MaxEvents

(* ensureAlarm: whatever runs beside it, an open stream has an alarm that    *)
(* will look at it again, or a sync about to set one: a stream that a late   *)
(* sync opens for a locked or a former account ends with the next tick.      *)
StreamsAreTicked ==
  (\E c \in ChainIds : streams[c] # NoAccount)
    => ticking \/ \E s \in syncs : s.pc \in {"looks", "creates"}

(* When the worker has nothing left to hear or do, an unlocked wallet that   *)
(* may read has the alarm that polls, after any locks, switches, settings    *)
(* changes and worker stops in any order, but for two ways the gate has to   *)
(* leave it without: a permission given while the setting is on, of which    *)
(* no sync has heard, and a kept answer that told the last sync no.  The     *)
(* second happens although SET_SETTINGS drops the answer: it does so before  *)
(* the setting is written, and a read in between keeps the old one again.    *)
NothingToDo == up /\ syncs = {} /\ sessionChanges = <<>> /\ ~settingsChanged
UnlockedIsPolled ==
  NothingToDo /\ activeAccount # NoAccount /\ MayRead => ticking \/ unheard \/ misled

(* clearArrivals is "Called on lock, reset and account switch: the feed      *)
(* belongs to one account." At rest, the arrivals an unlocked wallet keeps   *)
(* are its active account's, whatever locks and unlocks came before.         *)
AtRest == up /\ syncs = {} /\ sessionChanges = <<>> /\ noting = {} /\ followUps = {}
FeedOfOneAccount == AtRest /\ activeAccount # NoAccount => arrivals \subseteq {activeAccount}
=============================================================================
