------------------------------- MODULE Session -------------------------------
(***************************************************************************)
(* The keyring (lib/session.ts): what is sealed on disk, the account list   *)
(* beside it, and the unlocked session, under the operations the wallet     *)
(* runs on them.  Every storage call of an operation is a step of its own;  *)
(* operations are not serialized, and the worker may stop between two       *)
(* steps, which leaves storage as it is.                                    *)
(*                                                                         *)
(* A recovery phrase is a seed; a row of the account list shows the address *)
(* of its seed.  Every row has a seed of its own, as all the code adds.     *)
(***************************************************************************)
EXTENDS Naturals, FiniteSets

CONSTANTS Tasks,     \* operations in flight
          Seeds,
          MaxIndex,  \* bound: indexes given to accounts
          Kinds,     \* operations of this instance
          Beside,    \* operations that may run beside others
          Crashes    \* how often the worker may stop

ASSUME BoundsAssumption == MaxIndex \in Nat /\ Crashes \in Nat

NoSeed == "no seed"
ASSUME SeedsAssumption == NoSeed \notin Seeds

VARIABLES
  envelope,  \* storage.local: the sealed phrase of the wallet
  extras,    \* storage.local: the sealed phrases of added accounts, by index
  accounts,  \* storage.local: the account list, each row's seed, by index
  session,   \* storage.session: phrase, phrase map, password, active account
  alarm,     \* the auto-lock alarm is set
  task,      \* each operation: where it stands and what it has read
  crashes,   \* worker stops so far
  reopened   \* history: since the last unlock a switch wrote to a session a lock had closed

local == <<envelope, extras, accounts>>
vars == <<local, session, alarm, task, crashes, reopened>>

Indexes == 0 .. MaxIndex
MaybeSeed == Seeds \cup {NoSeed}
Rows == [Indexes -> MaybeSeed]
NoRows == [i \in Indexes |-> NoSeed]
Listed(rows) == {i \in Indexes : rows[i] # NoSeed}
First(rows) == CHOOSE i \in Listed(rows) : \A j \in Listed(rows) : i <= j
Only(i, seed) == [NoRows EXCEPT ![i] = seed]
Without(rows, i) == [rows EXCEPT ![i] = NoSeed]

\* The phrase map: the wallet's phrase, and one per account.
NoMap == [primary |-> NoSeed, rows |-> NoRows]
Maps == [primary : MaybeSeed, rows : Rows]
MapOf(seed) == [primary |-> seed, rows |-> Only(0, seed)]

\* phraseFor taken for an account of the main phrase.
PhraseForMain(i, map) == map.primary
PhraseFor(i, map) == IF map.rows[i] # NoSeed THEN map.rows[i] ELSE map.primary

Locked == [phrase |-> NoSeed, map |-> NoMap, password |-> FALSE, active |-> 0]
Unlocked == session.phrase # NoSeed

\* getSessionMnemonicMap
SessionMap ==
  IF session.map # NoMap THEN session.map
  ELSE IF Unlocked THEN MapOf(session.phrase) ELSE NoMap

Idle == [kind |-> "none", pc |-> "idle", seed |-> NoSeed, index |-> 0,
         rows |-> NoRows, extras |-> NoRows, map |-> NoMap, password |-> FALSE]

Init ==
  /\ envelope = NoSeed /\ extras = NoRows /\ accounts = NoRows
  /\ session = Locked /\ alarm = FALSE
  /\ task = [t \in Tasks |-> Idle]
  /\ crashes = 0 /\ reopened = FALSE

At(t, pc) == task[t].pc = pc
Becomes(t, record) == task' = [task EXCEPT ![t] = record]
Goes(t, pc) == Becomes(t, [task[t] EXCEPT !.pc = pc])
\* The operation returns or throws.
Ends(t) == Becomes(t, Idle)

\* A message, the alarm or the idle listener starts an operation.
Starts(t) ==
  /\ At(t, "idle")
  /\ \E kind \in Kinds, seed \in MaybeSeed, i \in Indexes :
       /\ kind \notin Beside => \A other \in Tasks : At(other, "idle")
       /\ \A other \in Tasks : task[other].kind \in Beside \cup {"none"}
       /\ kind \in {"create", "add"} <=> seed # NoSeed
       /\ kind \notin {"remove", "switch"} => i = 0
       /\ Becomes(t, [Idle EXCEPT !.kind = kind, !.pc = kind, !.seed = seed, !.index = i,
                                  !.password = kind \in {"create", "unlock"}])
  /\ UNCHANGED <<local, session, alarm, crashes, reopened>>

-----------------------------------------------------------------------------
(* unlockWithMnemonic, scheduleAutoLock and touchSession end many operations *)

\* unlockWithMnemonic without scheduleAutoLock.
OpensUntimed(t) ==
  /\ At(t, "open")
  /\ session' = [phrase |-> task[t].seed, map |-> task[t].map,
                 password |-> session.password \/ task[t].password,
                 active |-> task[t].index]
  /\ reopened' = (reopened /\ task[t].kind \notin {"create", "unlock"})
  /\ Ends(t)
  /\ UNCHANGED <<local, alarm, crashes>>

\* One storage call sets phrase, map, password and active account.
Opens(t) ==
  /\ At(t, "open")
  /\ session' = [phrase |-> task[t].seed, map |-> task[t].map,
                 password |-> session.password \/ task[t].password,
                 active |-> task[t].index]
  /\ reopened' = (reopened /\ task[t].kind \notin {"create", "unlock"})
  /\ Goes(t, "unschedule")
  /\ UNCHANGED <<local, alarm, crashes>>

\* scheduleAutoLock
AlarmCleared(t) ==
  /\ At(t, "unschedule")
  /\ alarm' = FALSE
  /\ Goes(t, "schedule")
  /\ UNCHANGED <<local, session, crashes, reopened>>

AlarmSet(t) ==
  /\ At(t, "schedule")
  /\ alarm' = TRUE
  /\ Ends(t)
  /\ UNCHANGED <<local, session, crashes, reopened>>

\* touchSession: its own check, then the alarm again.
Touches(t) ==
  /\ At(t, "touch")
  /\ IF Unlocked THEN Goes(t, "unschedule") ELSE Ends(t)
  /\ UNCHANGED <<local, session, alarm, crashes, reopened>>

-----------------------------------------------------------------------------
(* createWallet and importWallet *)

CreateChecks(t) ==
  /\ At(t, "create")
  /\ IF envelope # NoSeed THEN Ends(t) ELSE Goes(t, "create.seal")
  /\ UNCHANGED <<local, session, alarm, crashes, reopened>>

CreateSeals(t) ==
  /\ At(t, "create.seal")
  /\ envelope' = task[t].seed
  /\ Goes(t, "create.list")
  /\ UNCHANGED <<extras, accounts, session, alarm, crashes, reopened>>

CreateLists(t) ==
  /\ At(t, "create.list")
  /\ accounts' = Only(0, task[t].seed)
  /\ Becomes(t, [task[t] EXCEPT !.pc = "open", !.map = MapOf(task[t].seed)])
  /\ UNCHANGED <<envelope, extras, session, alarm, crashes, reopened>>

-----------------------------------------------------------------------------
(* unlockWallet, with the right password *)

\* firstSealedEnvelope
UnlockOpensFirst(t) ==
  LET primary == IF envelope # NoSeed \/ Listed(extras) = {} THEN envelope
                 ELSE extras[First(extras)]
  IN /\ At(t, "unlock")
     /\ IF primary = NoSeed THEN Ends(t)
        ELSE Becomes(t, [task[t] EXCEPT !.pc = "unlock.extras", !.map = MapOf(primary)])
     /\ UNCHANGED <<local, session, alarm, crashes, reopened>>

UnlockOpensExtras(t) ==
  /\ At(t, "unlock.extras")
  /\ Becomes(t, [task[t] EXCEPT !.pc = "unlock.rows",
       !.map.rows = [i \in Indexes |-> IF extras[i] # NoSeed THEN extras[i] ELSE @[i]]])
  /\ UNCHANGED <<local, session, alarm, crashes, reopened>>

\* The account list, or a new one when there is none, and who is active.
UnlockReadsRows(t) ==
  LET active == IF 0 \in Listed(accounts) THEN 0 ELSE First(accounts)
  IN /\ At(t, "unlock.rows")
     /\ IF Listed(accounts) = {} THEN Goes(t, "unlock.list")
        ELSE Becomes(t, [task[t] EXCEPT !.pc = "open", !.index = active,
                                        !.seed = PhraseFor(active, task[t].map)])
     /\ UNCHANGED <<local, session, alarm, crashes, reopened>>

UnlockLists(t) ==
  /\ At(t, "unlock.list")
  /\ accounts' = Only(0, task[t].map.primary)
  /\ Becomes(t, [task[t] EXCEPT !.pc = "open", !.seed = PhraseFor(0, task[t].map)])
  /\ UNCHANGED <<envelope, extras, session, alarm, crashes, reopened>>

-----------------------------------------------------------------------------
(* lockWallet and resetWallet *)

\* Leaves the index of no account as the active one.
LockForgetsActive(t) ==
  /\ task[t].pc \in {"lock", "reset"}
  /\ session' = [Locked EXCEPT !.active = MaxIndex + 1]
  /\ Goes(t, "lock.alarm")
  /\ UNCHANGED <<local, alarm, crashes, reopened>>

LockRemoves(t) ==
  /\ task[t].pc \in {"lock", "reset"}
  /\ session' = Locked
  /\ Goes(t, "lock.alarm")
  /\ UNCHANGED <<local, alarm, crashes, reopened>>

LockClearsAlarm(t) ==
  /\ At(t, "lock.alarm")
  /\ alarm' = FALSE
  /\ IF task[t].kind = "reset" THEN Goes(t, "wipe") ELSE Ends(t)
  /\ UNCHANGED <<local, session, crashes, reopened>>

ResetWipes(t) ==
  /\ At(t, "wipe")
  /\ envelope' = NoSeed /\ extras' = NoRows /\ accounts' = NoRows
  /\ Ends(t)
  /\ UNCHANGED <<session, alarm, crashes, reopened>>

-----------------------------------------------------------------------------
(* addAccountSeed *)

AddChecks(t) ==
  /\ At(t, "add")
  /\ IF Unlocked /\ session.password
     THEN Becomes(t, [task[t] EXCEPT !.pc = "add.map", !.password = TRUE])
     ELSE Ends(t)
  /\ UNCHANGED <<local, session, alarm, crashes, reopened>>

\* The check that compares with the active account only.
AddReadsActive(t) ==
  /\ At(t, "add.map")
  /\ IF session.phrase = task[t].seed THEN Ends(t)
     ELSE Becomes(t, [task[t] EXCEPT !.pc = "add.rows", !.map = SessionMap])
  /\ UNCHANGED <<local, session, alarm, crashes, reopened>>

\* A phrase the session holds is not added again.
AddReadsMap(t) ==
  /\ At(t, "add.map")
  /\ IF task[t].seed \in {SessionMap.primary} \cup {SessionMap.rows[i] : i \in Indexes}
     THEN Ends(t)
     ELSE Becomes(t, [task[t] EXCEPT !.pc = "add.rows", !.map = SessionMap])
  /\ UNCHANGED <<local, session, alarm, crashes, reopened>>

\* One past the highest index in use.
NextIndex(rows) ==
  CHOOSE i \in 0 .. MaxIndex + 1 :
    (\A j \in Listed(rows) : j < i) /\ (i = 0 \/ i - 1 \in Listed(rows))

AddReadsRows(t) ==
  LET i == NextIndex(accounts)
  IN /\ At(t, "add.rows")
     /\ IF i > MaxIndex THEN Ends(t)
        ELSE Becomes(t, [task[t] EXCEPT !.pc = "add.extras", !.rows = accounts, !.index = i])
     /\ UNCHANGED <<local, session, alarm, crashes, reopened>>

AddReadsExtras(t) ==
  /\ At(t, "add.extras")
  /\ Becomes(t, [task[t] EXCEPT !.pc = "add.seal", !.extras = extras])
  /\ UNCHANGED <<local, session, alarm, crashes, reopened>>

AddSeals(t) ==
  /\ At(t, "add.seal")
  /\ extras' = [task[t].extras EXCEPT ![task[t].index] = task[t].seed]
  /\ Goes(t, "add.list")
  /\ UNCHANGED <<envelope, accounts, session, alarm, crashes, reopened>>

AddLists(t) ==
  /\ At(t, "add.list")
  /\ accounts' = [task[t].rows EXCEPT ![task[t].index] = task[t].seed]
  /\ Becomes(t, [task[t] EXCEPT !.pc = "open", !.map.rows[task[t].index] = task[t].seed])
  /\ UNCHANGED <<envelope, extras, session, alarm, crashes, reopened>>

-----------------------------------------------------------------------------
(* removeAccount *)

RemoveChecks(t) ==
  /\ At(t, "remove")
  /\ IF Cardinality(Listed(accounts)) <= 1 \/ task[t].index \notin Listed(accounts)
     THEN Ends(t)
     ELSE Becomes(t, [task[t] EXCEPT !.pc = "remove.list",
                                     !.rows = Without(accounts, task[t].index)])
  /\ UNCHANGED <<local, session, alarm, crashes, reopened>>

RemoveLists(t) ==
  /\ At(t, "remove.list")
  /\ accounts' = task[t].rows
  /\ Goes(t, IF task[t].index = 0 THEN "remove.map" ELSE "remove.extras")
  /\ UNCHANGED <<envelope, extras, session, alarm, crashes, reopened>>

RemoveReadsExtras(t) ==
  /\ At(t, "remove.extras")
  /\ Becomes(t, [task[t] EXCEPT !.pc = "remove.unseal",
                                !.extras = Without(extras, task[t].index)])
  /\ UNCHANGED <<local, session, alarm, crashes, reopened>>

RemoveUnseals(t) ==
  /\ At(t, "remove.unseal")
  /\ extras' = task[t].extras
  /\ Goes(t, "remove.map")
  /\ UNCHANGED <<envelope, accounts, session, alarm, crashes, reopened>>

RemoveReadsMap(t) ==
  /\ At(t, "remove.map")
  /\ Becomes(t, [task[t] EXCEPT
       !.pc = IF task[t].index = 0 THEN "promote" ELSE "remove.session",
       !.map = [SessionMap EXCEPT !.rows = Without(@, task[t].index)]])
  /\ UNCHANGED <<local, session, alarm, crashes, reopened>>

\* The first added phrase leaves the extras before it is sealed as the wallet's.
PromoteUnsealsFirst(t) ==
  /\ At(t, "promote")
  /\ IF Listed(extras) = {}
     THEN Goes(t, "remove.session") /\ UNCHANGED extras
     ELSE /\ Becomes(t, [task[t] EXCEPT !.pc = "promote.seal", !.extras = extras])
          /\ extras' = Without(extras, First(extras))
  /\ UNCHANGED <<envelope, accounts, session, alarm, crashes, reopened>>

\* With the first account gone, the first added phrase becomes the wallet's.
PromoteReads(t) ==
  /\ At(t, "promote")
  /\ IF Listed(extras) = {} THEN Goes(t, "remove.session")
     ELSE Becomes(t, [task[t] EXCEPT !.pc = "promote.seal", !.extras = extras])
  /\ UNCHANGED <<local, session, alarm, crashes, reopened>>

PromoteSeals(t) ==
  /\ At(t, "promote.seal")
  /\ envelope' = task[t].extras[First(task[t].extras)]
  /\ Goes(t, "promote.unseal")
  /\ UNCHANGED <<extras, accounts, session, alarm, crashes, reopened>>

PromoteUnseals(t) ==
  LET promoted == First(task[t].extras)
      phrase == task[t].map.rows[promoted]
  IN /\ At(t, "promote.unseal")
     /\ extras' = Without(task[t].extras, promoted)
     /\ Becomes(t, [task[t] EXCEPT !.pc = "remove.session",
                      !.map.primary = IF phrase # NoSeed THEN phrase ELSE @])
     /\ UNCHANGED <<envelope, accounts, session, alarm, crashes, reopened>>

RemoveReadsActive(t) ==
  LET active == IF session.active \in Listed(task[t].rows) THEN session.active
                ELSE First(task[t].rows)
      phrase == PhraseFor(active, task[t].map)
  IN /\ At(t, "remove.session")
     /\ IF phrase = NoSeed THEN Ends(t)
        ELSE Becomes(t, [task[t] EXCEPT !.pc = "remove.password", !.index = active,
                                        !.seed = phrase])
     /\ UNCHANGED <<local, session, alarm, crashes, reopened>>

RemoveReadsPassword(t) ==
  /\ At(t, "remove.password")
  /\ Becomes(t, [task[t] EXCEPT !.pc = "open", !.password = session.password])
  /\ UNCHANGED <<local, session, alarm, crashes, reopened>>

-----------------------------------------------------------------------------
(* setActiveAccount, renameAccount *)

SwitchReadsRow(t) ==
  /\ At(t, "switch")
  /\ IF task[t].index \in Listed(accounts) THEN Goes(t, "switch.map") ELSE Ends(t)
  /\ UNCHANGED <<local, session, alarm, crashes, reopened>>

SwitchReadsMap(t) ==
  LET phrase == PhraseFor(task[t].index, SessionMap)
  IN /\ At(t, "switch.map")
     /\ IF phrase = NoSeed THEN Goes(t, "switch.phrase")
        ELSE Becomes(t, [task[t] EXCEPT !.pc = "switch.write", !.seed = phrase])
     /\ UNCHANGED <<local, session, alarm, crashes, reopened>>

SwitchReadsPhrase(t) ==
  /\ At(t, "switch.phrase")
  /\ IF Unlocked
     THEN Becomes(t, [task[t] EXCEPT !.pc = "switch.write", !.seed = session.phrase])
     ELSE Ends(t)
  /\ UNCHANGED <<local, session, alarm, crashes, reopened>>

\* The active account without its phrase.
SwitchWritesRow(t) ==
  /\ At(t, "switch.write")
  /\ session' = [session EXCEPT !.active = task[t].index]
  /\ reopened' = (reopened \/ ~Unlocked)
  /\ Goes(t, "touch")
  /\ UNCHANGED <<local, alarm, crashes>>

SwitchWrites(t) ==
  /\ At(t, "switch.write")
  /\ session' = [session EXCEPT !.active = task[t].index, !.phrase = task[t].seed]
  /\ reopened' = (reopened \/ ~Unlocked)
  /\ Goes(t, "touch")
  /\ UNCHANGED <<local, alarm, crashes>>

\* The list is read, and written back with a new name in it.
RenameReads(t) ==
  /\ At(t, "rename")
  /\ Becomes(t, [task[t] EXCEPT !.pc = "rename.list", !.rows = accounts])
  /\ UNCHANGED <<local, session, alarm, crashes, reopened>>

RenameLists(t) ==
  /\ At(t, "rename.list")
  /\ accounts' = task[t].rows
  /\ Ends(t)
  /\ UNCHANGED <<envelope, extras, session, alarm, crashes, reopened>>

-----------------------------------------------------------------------------
(* revealMnemonic, with the right password *)

RevealReadsRows(t) ==
  /\ At(t, "reveal")
  /\ IF envelope = NoSeed /\ Listed(extras) = {} THEN Ends(t)
     ELSE Becomes(t, [task[t] EXCEPT !.pc = "reveal.active", !.rows = accounts])
  /\ UNCHANGED <<local, session, alarm, crashes, reopened>>

RevealReadsActive(t) ==
  LET rows == task[t].rows
  IN /\ At(t, "reveal.active")
     /\ IF Listed(rows) = {} THEN Ends(t)
        ELSE Becomes(t, [task[t] EXCEPT !.pc = "reveal.open",
               !.index = IF session.active \in Listed(rows) THEN session.active
                         ELSE First(rows)])
     /\ UNCHANGED <<local, session, alarm, crashes, reopened>>

\* The wallet's envelope for every account.
RevealOpensMain(t) ==
  /\ At(t, "reveal.open")
  /\ Becomes(t, [task[t] EXCEPT !.pc = "revealed", !.seed = envelope])
  /\ UNCHANGED <<local, session, alarm, crashes, reopened>>

\* The phrase on screen, NoSeed when there is none stored for the account.
RevealOpens(t) ==
  /\ At(t, "reveal.open")
  /\ Becomes(t, [task[t] EXCEPT !.pc = "revealed",
       !.seed = IF task[t].index = 0 THEN envelope ELSE extras[task[t].index]])
  /\ UNCHANGED <<local, session, alarm, crashes, reopened>>

RevealEnds(t) ==
  /\ At(t, "revealed")
  /\ Ends(t)
  /\ UNCHANGED <<local, session, alarm, crashes, reopened>>

-----------------------------------------------------------------------------
(* The browser *)

WorkerStops ==
  /\ crashes < Crashes
  /\ \E t \in Tasks : ~ At(t, "idle")
  /\ task' = [t \in Tasks |-> Idle]
  /\ crashes' = crashes + 1
  /\ UNCHANGED <<local, session, alarm, reopened>>

\* storage.session does not outlive the browser, alarms may.
BrowserCloses ==
  /\ crashes < Crashes
  /\ task' = [t \in Tasks |-> Idle]
  /\ session' = Locked
  /\ alarm' \in {alarm, FALSE}
  /\ crashes' = crashes + 1
  /\ UNCHANGED <<local, reopened>>

-----------------------------------------------------------------------------
Wallet(t) ==
  \/ CreateChecks(t) \/ CreateSeals(t) \/ CreateLists(t)
  \/ UnlockOpensFirst(t) \/ UnlockOpensExtras(t) \/ UnlockReadsRows(t) \/ UnlockLists(t)
  \/ LockRemoves(t) \/ LockClearsAlarm(t) \/ ResetWipes(t)
  \/ Opens(t) \/ AlarmCleared(t) \/ AlarmSet(t) \/ Touches(t)

Account(t) ==
  \/ AddChecks(t) \/ AddReadsMap(t) \/ AddReadsRows(t) \/ AddReadsExtras(t)
  \/ AddSeals(t) \/ AddLists(t)
  \/ RemoveChecks(t) \/ RemoveLists(t) \/ RemoveReadsExtras(t) \/ RemoveUnseals(t)
  \/ RemoveReadsMap(t) \/ PromoteReads(t) \/ PromoteSeals(t) \/ PromoteUnseals(t)
  \/ RemoveReadsActive(t) \/ RemoveReadsPassword(t)
  \/ SwitchReadsRow(t) \/ SwitchReadsMap(t) \/ SwitchReadsPhrase(t) \/ SwitchWrites(t)
  \/ RenameReads(t) \/ RenameLists(t)
  \/ RevealReadsRows(t) \/ RevealReadsActive(t) \/ RevealOpens(t) \/ RevealEnds(t)

Next ==
  \/ \E t \in Tasks : Starts(t) \/ Wallet(t) \/ Account(t)
  \/ WorkerStops \/ BrowserCloses

Spec == Init /\ [][Next]_vars

-----------------------------------------------------------------------------
(* Properties *)

AllKinds == {"create", "unlock", "lock", "reset", "add", "remove", "switch", "touch",
             "rename", "reveal"}

\* Storage, session and operations have their types.
TypeOK ==
  /\ envelope \in MaybeSeed /\ extras \in Rows /\ accounts \in Rows
  /\ session \in [phrase : MaybeSeed, map : Maps, password : BOOLEAN, active : Indexes]
  /\ alarm \in BOOLEAN
  /\ \A t \in Tasks :
       /\ task[t].kind \in AllKinds \cup {"none"}
       /\ task[t].seed \in MaybeSeed /\ task[t].index \in Indexes
       /\ task[t].rows \in Rows /\ task[t].extras \in Rows /\ task[t].map \in Maps
       /\ task[t].password \in BOOLEAN
  /\ crashes \in 0 .. Crashes /\ reopened \in BOOLEAN

Sealed(seed) == seed = envelope \/ \E i \in Indexes : extras[i] = seed

\* The order of the writes: an account the wallet lists can be opened again from disk,
\* between any two storage calls, so wherever the worker stops.
ListedIsSealed ==
  \A i \in Listed(accounts) : Sealed(accounts[i])

\* What the session holds is kept up by operations that ran to their end, and no switch
\* wrote to it after a lock.
Uninterrupted == crashes = 0
Undisturbed == Uninterrupted /\ ~reopened
Resting == \A t \in Tasks : At(t, "idle")

\* The session signs with the phrase of the account it says is active, when no operation
\* is half done and no switch outlived a lock.
SessionMatchesRow ==
  Undisturbed /\ Resting /\ Unlocked =>
    /\ session.active \in Listed(accounts)
    /\ session.phrase = accounts[session.active]

\* setActiveAccount writes row and phrase in one storage call: the same between the
\* steps of switches, locks, renames, reveals and activity that run side by side.
SwitchMatchesRow ==
  /\ Undisturbed /\ Unlocked
  /\ \A t \in Tasks : task[t].kind \in Beside \cup {"none"}
  => session.phrase = accounts[session.active]

\* scheduleAutoLock: an unlocked wallet has its auto-lock alarm set, when no operation is
\* half done and no switch outlived a lock.
UnlockedIsTimed ==
  Undisturbed /\ Resting /\ Unlocked => alarm

\* The same whatever a switch did after a lock.
OpenIsTimed ==
  Uninterrupted /\ Resting /\ Unlocked => alarm

\* addAccountSeed: no recovery phrase is in the list twice.
NoSeedTwice ==
  Uninterrupted =>
    \A i, j \in Listed(accounts) : accounts[i] = accounts[j] => i = j

Revealed(t) == At(t, "revealed")

\* revealMnemonic never shows another account's words.
RevealShowsOwn ==
  \A t \in Tasks : Revealed(t) /\ task[t].seed # NoSeed =>
    task[t].seed = task[t].rows[task[t].index]

\* The reveal screen: "This is the recovery phrase of the account that is active now."
\* The words of an account in the list can be shown.
RevealShowsWords ==
  \A t \in Tasks : Revealed(t) => task[t].seed = task[t].rows[task[t].index]
=============================================================================
