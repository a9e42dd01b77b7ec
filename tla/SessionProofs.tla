--------------------------- MODULE SessionProofs ---------------------------
(***************************************************************************)
(* Theorems about Session, for every number of phrases, indexes and         *)
(* operations and wherever the worker stops.                                *)
(*                                                                          *)
(* The argument: what an operation has read is still so when it writes,     *)
(* since the operations that change a list run alone and the others leave   *)
(* what they read of it.  Knows says what each stage knows, StoreInv how    *)
(* the phrases on disk and the list fit together after every write, MapKept *)
(* and RowKept how the session fits them when nothing stopped the worker.   *)
(***************************************************************************)
EXTENDS Session, FiniteSetTheorems, WellFoundedInduction, TLAPS

USE DEF Undisturbed, Uninterrupted

Sharing == {"switch", "lock", "touch", "rename", "reveal"}
\* What runs beside one another are those five: creating, unlocking, resetting, adding and
\* removing run alone.
SideBySide == Beside \subseteq Sharing /\ Kinds \subseteq AllKinds

-----------------------------------------------------------------------------
(* Operations *)

\* The operations, and the stages of those that run alone.
Alones == {"create", "unlock", "reset", "add", "remove"}
RemoveStages == {"remove.extras", "remove.unseal", "remove.map", "promote", "promote.seal",
                 "promote.unseal", "remove.session", "remove.password"}
AloneStages ==
  Alones \cup RemoveStages \cup
  {"create.seal", "create.list", "open", "unlock.extras", "unlock.rows", "unlock.list",
   "wipe", "add.map", "add.rows", "add.extras", "add.seal", "add.list",
   "remove.list"}
Stages == AloneStages \cup
  {"idle", "touch", "unschedule", "schedule", "lock", "lock.alarm", "switch", "switch.map", "switch.phrase",
   "switch.write", "rename", "rename.list", "reveal", "reveal.active", "reveal.open", "revealed"}

Operations == [kind : AllKinds \cup {"none"}, pc : Stages, seed : MaybeSeed, index : Indexes,
               rows : Rows, extras : Rows, map : Maps, password : BOOLEAN]

Alone(r) == r.kind \in Alones

\* A phrase map names the phrase of every account, and that of each added one by itself as
\* long as the first account is there.
Owned(map, rows) == \A i \in Indexes : i # 0 /\ rows[i] # NoSeed => map.rows[i] = rows[i]
Fits(map, rows) ==
  /\ \A i \in Indexes : rows[i] # NoSeed => PhraseFor(i, map) = rows[i]
  /\ rows[0] # NoSeed => Owned(map, rows)
\* Every added account has a phrase sealed by itself.
KeptApart == \A i \in Indexes : i # 0 /\ accounts[i] # NoSeed => accounts[i] = extras[i]
\* A map that has every phrase that is sealed.
Opened(map) ==
  /\ map.primary = envelope
  /\ \A i \in Indexes : map.rows[i] = IF extras[i] # NoSeed THEN extras[i]
                                     ELSE IF i = 0 THEN envelope ELSE NoSeed

\* What it opens replaces the session, whatever that was.
Opening(r) == r.kind \in {"create", "unlock"}

\* What an operation knows at each of its stages, by its kind.
AboutCreate(r) ==
  /\ r.pc \in {"create", "create.seal", "create.list"} => Opening(r)
  /\ r.pc \in {"create", "create.seal", "create.list"} => r.seed # NoSeed /\ r.index = 0
  /\ r.pc \in {"create.seal", "create.list"} => ~Unlocked /\ accounts = NoRows /\ extras = NoRows
  /\ r.pc = "create.seal" => envelope = NoSeed
  /\ r.pc = "create.list" => envelope = r.seed
AboutUnlock(r) ==
  /\ r.pc \in {"unlock", "unlock.extras", "unlock.rows", "unlock.list"} => Opening(r)
  /\ r.pc \in {"unlock", "unlock.extras", "unlock.rows", "unlock.list"} => r.index = 0
  /\ r.pc \in {"unlock.extras", "unlock.rows", "unlock.list"} => envelope # NoSeed
  /\ r.pc = "unlock.extras" => r.map = MapOf(envelope)
  /\ r.pc \in {"unlock.rows", "unlock.list"} => Opened(r.map)
  /\ r.pc = "unlock.list" => accounts = NoRows
AboutLock(r) ==
  /\ r.pc = "lock" => ~Alone(r)
  /\ r.pc = "lock.alarm" /\ (Undisturbed \/ Alone(r)) => ~Unlocked
  /\ r.pc = "wipe" => ~Unlocked
AboutAdd(r) ==
  /\ r.pc \in {"add", "add.map", "add.rows", "add.extras", "add.seal", "add.list"} => r.seed # NoSeed
  /\ r.pc \in {"add.map", "add.rows", "add.extras", "add.seal", "add.list"} => Unlocked /\ ~reopened
  /\ r.pc \in {"add.rows", "add.extras", "add.seal", "add.list"} /\ Undisturbed =>
       Fits(r.map, accounts) /\ \A i \in Indexes : accounts[i] # r.seed
  /\ r.pc \in {"add.extras", "add.seal", "add.list"} =>
       r.rows = accounts /\ r.index # 0 /\ accounts[r.index] = NoSeed
  /\ r.pc = "add.seal" => r.extras = extras
  /\ r.pc = "add.list" => extras[r.index] = r.seed
AboutRemove(r) ==
  /\ r.pc \in {"remove", "remove.list"} \cup RemoveStages => ~Opening(r)
  /\ r.pc = "remove.list" =>
       r.rows = Without(accounts, r.index) /\ accounts[r.index] # NoSeed /\ r.rows # NoRows
  /\ r.pc \in RemoveStages \ {"remove.password"} =>
       r.rows = accounts /\ accounts # NoRows /\ accounts[r.index] = NoSeed
  /\ r.pc \in {"remove.extras", "remove.unseal"} => r.index # 0
  /\ r.pc = "remove.unseal" => r.extras = Without(extras, r.index)
  /\ r.pc = "remove.map" /\ r.index = 0 =>
       KeptApart /\ (Undisturbed /\ Unlocked => Owned(session.map, accounts))
  /\ r.pc \in {"promote", "promote.seal"} => KeptApart
  /\ r.pc \in {"promote", "promote.seal", "promote.unseal"} =>
       r.index = 0 /\ (Undisturbed /\ Unlocked => Owned(r.map, accounts))
  /\ r.pc \in {"promote.seal", "promote.unseal"} => r.extras = extras /\ extras # NoRows
  /\ r.pc = "promote.unseal" => envelope = extras[First(extras)]
                                /\ \A i \in Indexes : i # 0 /\ accounts[i] # NoSeed => accounts[i] = extras[i]
  /\ r.pc \in {"promote", "promote.seal", "promote.unseal", "remove.session"} /\ ~Unlocked => r.map = NoMap
  /\ r.pc = "remove.session" /\ Undisturbed /\ Unlocked => Fits(r.map, accounts)
AboutOpen(r) ==
  r.pc \in {"remove.password", "open"} =>
    /\ r.seed # NoSeed /\ r.map # NoMap /\ envelope # NoSeed /\ accounts # NoRows
    /\ Undisturbed \/ (Uninterrupted /\ Opening(r)) =>
         Fits(r.map, accounts) /\ r.seed = accounts[r.index]
    /\ r.pc = "open" /\ r.password => ~reopened \/ Opening(r)
AboutSwitch(r) ==
  /\ r.pc \in {"switch", "switch.map", "switch.phrase", "switch.write"} => ~Alone(r)
  /\ r.pc \in {"switch.map", "switch.phrase", "switch.write"} => accounts[r.index] # NoSeed
  /\ r.pc = "switch.phrase" /\ Undisturbed => ~Unlocked
  /\ r.pc = "switch.write" => r.seed # NoSeed /\ (Undisturbed => r.seed = accounts[r.index])
AboutRows(r) ==
  /\ r.pc \in {"rename.list", "reveal.active", "reveal.open"} => r.rows = accounts
  /\ r.pc = "reveal.open" => accounts[r.index] # NoSeed
  /\ r.pc = "revealed" => r.seed \in {NoSeed, r.rows[r.index]}

Knows(r) ==
  /\ r.pc = "idle" => r = Idle
  /\ r.pc \in AloneStages => Alone(r)
  /\ AboutCreate(r) /\ AboutUnlock(r) /\ AboutLock(r) /\ AboutAdd(r) /\ AboutRemove(r)
  /\ AboutOpen(r) /\ AboutSwitch(r) /\ AboutRows(r)

\* What is on disk: a listed phrase is the wallet's or sealed by itself, at its index.
StoreInv ==
  /\ envelope \in MaybeSeed /\ extras \in Rows /\ accounts \in Rows
  /\ envelope = NoSeed => extras = NoRows /\ accounts = NoRows
  /\ extras[0] = NoSeed
  /\ \A i \in Indexes : accounts[i] # NoSeed =>
       accounts[i] \in {envelope, extras[i]} /\ extras[i] \in {NoSeed, accounts[i]}
  /\ accounts[0] # NoSeed => KeptApart
SeedsApart == Uninterrupted =>
  \A i, j \in Indexes : accounts[i] # NoSeed /\ accounts[i] = accounts[j] => i = j

SessionInv ==
  /\ session \in [phrase : MaybeSeed, map : Maps, password : BOOLEAN, active : Indexes]
  /\ session.map # NoMap => Unlocked
  /\ Unlocked /\ ~reopened => session.map # NoMap
  /\ session.password => Unlocked /\ ~reopened
  /\ Unlocked => envelope # NoSeed /\ accounts # NoRows
\* Of an unlocked wallet: its alarm, the phrases its session holds and the active one.
Timed == Undisturbed /\ Unlocked => alarm \/ \E t \in Tasks : task[t].pc \in {"unschedule", "schedule"}
MapKept == Undisturbed /\ Unlocked /\ (\A t \in Tasks : task[t].pc # "open") => Fits(session.map, accounts)
RowKept ==
  Undisturbed /\ Unlocked /\ (\A t \in Tasks : task[t].pc \notin {"open"} \cup RemoveStages) =>
    accounts[session.active] = session.phrase
\* An operation that runs alone does, and each knows what its stage says.
OneAlone == \A t, u \in Tasks : Alone(task[t]) /\ t # u => task[u] = Idle
TasksInv == task \in [Tasks -> Operations] /\ \A t \in Tasks : Knows(task[t])

IInv == /\ StoreInv /\ SessionInv /\ SeedsApart /\ Timed /\ MapKept /\ RowKept /\ OneAlone /\ TasksInv
        /\ alarm \in BOOLEAN /\ crashes \in 0 .. Crashes /\ reopened \in BOOLEAN

-----------------------------------------------------------------------------
(* Rows, maps and records *)

\* A set of natural numbers has a least one.
LEMMA LeastNatural ==
  ASSUME NEW S \in SUBSET Nat, S # {}
  PROVE  \E m \in S : \A n \in S : m <= n
<1> DEFINE R == OpToRel(<, Nat)
<1>1. IsWellFoundedOn(R, Nat)
  BY NatLessThanWellFounded
<1>2. \A x, y \in Nat : x < y => <<x, y>> \in R
  BY DEF OpToRel
<1> HIDE DEF R
<1>3. PICK m \in S : \A n \in S : ~ (<<n, m>> \in R)
  BY <1>1, WFMin
<1>4. \A n \in S : ~ (n < m)
  BY <1>2, <1>3, Zenon
<1> QED
  BY <1>4

LEMMA FirstIsListed ==
  ASSUME NEW rows \in Rows, rows # NoRows
  PROVE  First(rows) \in Indexes /\ rows[First(rows)] # NoSeed
<1>1. Listed(rows) # {} /\ Listed(rows) \in SUBSET Nat
  BY BoundsAssumption DEF Listed, Indexes, Rows, NoRows
<1>2. \E m \in Listed(rows) : \A n \in Listed(rows) : m <= n
  BY <1>1, LeastNatural
<1> QED
  BY <1>2 DEF First, Listed

\* The index of a new account is above all others.
LEMMA NextIsNew ==
  ASSUME NEW rows \in Rows, ~ (NextIndex(rows) > MaxIndex)
  PROVE  /\ NextIndex(rows) \in Indexes /\ rows[NextIndex(rows)] = NoSeed
         /\ rows # NoRows => NextIndex(rows) # 0
<1> DEFINE Above == {n \in Nat : \A j \in Listed(rows) : j < n}
<1> DEFINE P(i) == (\A j \in Listed(rows) : j < i) /\ (i = 0 \/ i - 1 \in Listed(rows))
<1>1. Listed(rows) \subseteq 0 .. MaxIndex
  BY DEF Listed, Indexes
<1>2. MaxIndex + 1 \in Above
  BY <1>1, BoundsAssumption
<1>3. Above \in SUBSET Nat /\ Above # {}
  BY <1>2
<1>4. PICK m \in Above : \A n \in Above : m <= n
  BY <1>3, LeastNatural
<1>5. m \in 0 .. MaxIndex + 1
  BY <1>2, <1>4, BoundsAssumption
<1>6. m = 0 \/ m - 1 \in Listed(rows)
  <2> SUFFICES ASSUME m # 0, m - 1 \notin Listed(rows) PROVE FALSE
    OBVIOUS
  <2>1. m - 1 \in Nat /\ \A j \in Listed(rows) : j < m - 1
    BY <1>1, <1>5, BoundsAssumption
  <2>2. m - 1 \in Above
    BY <2>1
  <2> QED
    BY <1>4, <1>5, <2>2, BoundsAssumption
<1>7. \E i \in 0 .. MaxIndex + 1 : P(i)
  BY <1>5, <1>6
<1>8. NextIndex(rows) \in 0 .. MaxIndex + 1 /\ P(NextIndex(rows))
  BY <1>7 DEF NextIndex
<1>9. NextIndex(rows) \in Indexes
  BY <1>8, BoundsAssumption DEF Indexes
<1>10. NextIndex(rows) \notin Listed(rows)
  BY <1>8, <1>9, BoundsAssumption DEF Indexes
<1>11. rows # NoRows => \E j \in Indexes : rows[j] # NoSeed
  BY DEF Rows, NoRows
<1>12. rows # NoRows => NextIndex(rows) # 0
  BY <1>8, <1>11, BoundsAssumption DEF Listed, Indexes
<1> QED
  BY <1>9, <1>10, <1>12 DEF Listed

\* Rows with one added or taken away.
LEMMA RowChanges ==
  ASSUME NEW rows \in Rows, NEW i \in Indexes, NEW seed \in MaybeSeed
  PROVE  /\ NoRows \in Rows /\ \A j \in Indexes : NoRows[j] = NoSeed
         /\ Only(i, seed) \in Rows
         /\ \A j \in Indexes : Only(i, seed)[j] = IF j = i THEN seed ELSE NoSeed
         /\ Without(rows, i) \in Rows
         /\ \A j \in Indexes : Without(rows, i)[j] = IF j = i THEN NoSeed ELSE rows[j]
         /\ [rows EXCEPT ![i] = seed] \in Rows
         /\ \A j \in Indexes : [rows EXCEPT ![i] = seed][j] = IF j = i THEN seed ELSE rows[j]
<1>1. NoRows \in Rows /\ (\A j \in Indexes : NoRows[j] = NoSeed) /\ NoSeed \in MaybeSeed
  BY DEF NoRows, Rows, MaybeSeed
<1>2. [rows EXCEPT ![i] = seed] \in Rows
      /\ \A j \in Indexes : [rows EXCEPT ![i] = seed][j] = IF j = i THEN seed ELSE rows[j]
  BY DEF Rows
<1>3. Without(rows, i) \in Rows
      /\ \A j \in Indexes : Without(rows, i)[j] = IF j = i THEN NoSeed ELSE rows[j]
  BY <1>1 DEF Rows, Without
<1>4. Only(i, seed) \in Rows
      /\ \A j \in Indexes : Only(i, seed)[j] = IF j = i THEN seed ELSE NoSeed
  BY <1>1 DEF Rows, Only
<1> QED
  BY <1>1, <1>2, <1>3, <1>4

LEMMA RowsDiffer ==
  ASSUME NEW rows \in Rows
  PROVE  rows # NoRows <=> \E i \in Indexes : rows[i] # NoSeed
  BY DEF Rows, NoRows

LEMMA ZeroIsAnIndex == 0 \in Indexes /\ NoSeed \in MaybeSeed /\ Seeds \subseteq MaybeSeed
  BY BoundsAssumption DEF Indexes, MaybeSeed

LEMMA NoMapIsAMap == NoMap \in Maps /\ NoRows \in Rows
  BY ZeroIsAnIndex DEF NoMap, Maps, NoRows, Rows

LEMMA MapChanges ==
  ASSUME NEW map \in Maps, NEW rows \in Rows, NEW seed \in MaybeSeed
  PROVE  /\ map.primary \in MaybeSeed /\ map.rows \in Rows
         /\ NoMap \in Maps /\ NoMap.primary = NoSeed /\ NoMap.rows = NoRows
         /\ map # NoMap <=> map.primary # NoSeed \/ map.rows # NoRows
         /\ MapOf(seed) \in Maps /\ MapOf(seed).primary = seed /\ MapOf(seed).rows = Only(0, seed)
         /\ [map EXCEPT !.rows = rows] \in Maps
         /\ [map EXCEPT !.rows = rows].rows = rows
         /\ [map EXCEPT !.rows = rows].primary = map.primary
         /\ [map EXCEPT !.primary = seed] \in Maps
         /\ [map EXCEPT !.primary = seed].rows = map.rows
         /\ [map EXCEPT !.primary = seed].primary = seed
<1>1. NoRows \in Rows /\ Only(0, seed) \in Rows
  BY ZeroIsAnIndex, RowChanges
<1> QED
  BY <1>1, ZeroIsAnIndex DEF Maps, NoMap, MapOf

LEMMA MapOfOne ==
  ASSUME NEW seed \in MaybeSeed
  PROVE  /\ MapOf(seed) \in Maps /\ MapOf(seed).primary = seed
         /\ \A i \in Indexes : MapOf(seed).rows[i] = IF i = 0 THEN seed ELSE NoSeed
         /\ seed # NoSeed => MapOf(seed) # NoMap
<1>1. NoRows \in Rows /\ (\A j \in Indexes : NoRows[j] = NoSeed) /\ 0 \in Indexes
  BY ZeroIsAnIndex DEF NoRows, Rows, MaybeSeed
<1>2. Only(0, seed) \in Rows /\ \A j \in Indexes : Only(0, seed)[j] = IF j = 0 THEN seed ELSE NoSeed
  BY <1>1 DEF Only, Rows
<1> QED
  BY <1>1, <1>2 DEF MapOf, Maps, NoMap

LEMMA MapRowsChange ==
  ASSUME NEW map \in Maps, NEW rows \in Rows
  PROVE  /\ [map EXCEPT !.rows = rows] \in Maps
         /\ [map EXCEPT !.rows = rows].rows = rows
         /\ [map EXCEPT !.rows = rows].primary = map.primary
  BY DEF Maps

LEMMA PhraseIsMaybe ==
  ASSUME NEW map \in Maps, NEW i \in Indexes
  PROVE  /\ PhraseFor(i, map) \in MaybeSeed
         /\ PhraseFor(i, map) # NoSeed => map # NoMap
<1>1. NoMap.primary = NoSeed /\ NoMap.rows[i] = NoSeed
  BY DEF NoMap, NoRows
<1>2. map.rows[i] \in MaybeSeed /\ map.primary \in MaybeSeed
  BY DEF Maps, Rows
<1> QED
  BY <1>1, <1>2 DEF PhraseFor

\* A phrase map with one account's phrase taken away.
LEMMA MapWithout ==
  ASSUME NEW map \in Maps, NEW i \in Indexes
  PROVE  /\ [map EXCEPT !.rows = Without(@, i)] \in Maps
         /\ [map EXCEPT !.rows = Without(@, i)].primary = map.primary
         /\ \A j \in Indexes :
              [map EXCEPT !.rows = Without(@, i)].rows[j] = IF j = i THEN NoSeed ELSE map.rows[j]
         /\ map = NoMap => [map EXCEPT !.rows = Without(@, i)] = NoMap
<1>1. map.rows \in Rows
  BY DEF Maps
<1>2. PICK rows \in Rows : /\ rows = Without(map.rows, i)
                          /\ \A j \in Indexes : rows[j] = IF j = i THEN NoSeed ELSE map.rows[j]
  <2>1. Without(map.rows, i) \in Rows
        /\ \A j \in Indexes : Without(map.rows, i)[j] = IF j = i THEN NoSeed ELSE map.rows[j]
    BY <1>1, ZeroIsAnIndex DEF Rows, Without
  <2> QED
    BY <2>1
<1>3. map.rows = NoRows => rows = NoRows
  BY <1>1, <1>2 DEF NoRows, Rows
<1> QED
  BY <1>2, <1>3 DEF Maps, NoMap

LEMMA IdleIsAnOperation ==
  /\ Idle \in Operations /\ Idle.pc = "idle" /\ Idle.kind = "none" /\ ~Alone(Idle)
<1>1. NoRows \in Rows /\ NoMap \in Maps
  BY ZeroIsAnIndex, MapChanges, RowChanges DEF NoRows, Rows, NoMap, Maps
<1> QED
  BY <1>1, ZeroIsAnIndex DEF Idle, Operations, Stages, AloneStages, Alone, Alones

\* An operation changes in one step.
LEMMA BecomesOne ==
  ASSUME TasksInv, NEW t \in Tasks, NEW r \in Operations, Becomes(t, r)
  PROVE  /\ task' \in [Tasks -> Operations] /\ task'[t] = r
         /\ \A u \in Tasks : u # t => task'[u] = task[u]
  BY DEF TasksInv, Becomes

\* What an operation knows depends on what is stored, and on the session's map.
LEMMA KnowsStill ==
  ASSUME UNCHANGED <<local, crashes, reopened>>, session'.map = session.map, Unlocked' <=> Unlocked,
         NEW r \in Operations, Knows(r)
  PROVE  Knows(r)'
<1> USE DEF local
<1>1. AboutCreate(r)'
  BY DEF Knows, AboutCreate
<1>2. AboutUnlock(r)'
  BY DEF Knows, AboutUnlock, Opened
<1>3. AboutLock(r)' /\ AboutOpen(r)' /\ AboutSwitch(r)' /\ AboutRows(r)'
  BY DEF Knows, AboutLock, AboutOpen, AboutSwitch, AboutRows, Opening, Fits, Owned
<1>4. AboutAdd(r)'
  BY DEF Knows, AboutAdd, Fits, Owned
<1>5. AboutRemove(r)'
  BY DEF Knows, AboutRemove, Fits, Owned, KeptApart
<1> QED
  BY <1>1, <1>2, <1>3, <1>4, <1>5 DEF Knows
\* One that shares knows nothing of a session that is closed, or written to after that.
LEMMA SharesStill ==
  ASSUME UNCHANGED <<local, crashes>>, reopened' \/ (reopened' = reopened /\ ~Unlocked'),
         NEW r \in Operations, ~Alone(r), Knows(r)
  PROVE  Knows(r)'
<1> USE DEF local
<1>1. r.pc \notin AloneStages
  BY DEF Knows
<1>2. AboutCreate(r)' /\ AboutUnlock(r)' /\ AboutAdd(r)' /\ AboutRemove(r)' /\ AboutOpen(r)'
  BY <1>1 DEF AloneStages, Alones, RemoveStages, AboutCreate, AboutUnlock, AboutAdd, AboutRemove, AboutOpen
<1>3. AboutLock(r)' /\ AboutSwitch(r)' /\ AboutRows(r)'
  BY <1>1 DEF Knows, AloneStages, AboutLock, AboutSwitch, AboutRows
<1> QED
  BY <1>1, <1>2, <1>3 DEF Knows

-----------------------------------------------------------------------------
(* Steps *)

LEMMA KindKept ==
  ASSUME TasksInv, OneAlone, NEW t \in Tasks, NEW r \in Operations, Becomes(t, r),
         task[t].pc # "idle", r.kind = task[t].kind \/ r = Idle
  PROVE  OneAlone'
<1>1. \A u \in Tasks : task'[u] = IF u = t THEN r ELSE task[u]
  BY BecomesOne
<1>2. Alone(r) => Alone(task[t])
  BY IdleIsAnOperation DEF Alone
<1>3. task[t] # Idle
  BY IdleIsAnOperation
<1> QED
  BY <1>1, <1>2, <1>3, IdleIsAnOperation DEF OneAlone, Alone

\* A step that reads, or sets the alarm.
LEMMA ReadKeeps ==
  ASSUME IInv, NEW t \in Tasks, NEW r \in Operations, Becomes(t, r), Knows(r), OneAlone',
         UNCHANGED <<local, session, crashes, reopened>>, alarm' \in BOOLEAN,
         \/ alarm' \/ r.pc \in {"unschedule", "schedule"}
         \/ alarm' = alarm /\ task[t].pc \notin {"unschedule", "schedule"}
         \/ Undisturbed => ~Unlocked,
         task[t].pc # "open",
         task[t].pc \in RemoveStages /\ r.pc \notin {"open"} \cup RemoveStages /\ Undisturbed => ~Unlocked
  PROVE  IInv'
<1> USE DEF IInv
<1>1. \A u \in Tasks : task'[u] = IF u = t THEN r ELSE task[u]
  BY BecomesOne, Zenon
<1>2. TasksInv'
  <2>1. \A u \in Tasks : Knows(task[u])'
    <3> SUFFICES ASSUME NEW u \in Tasks PROVE Knows(task[u])'
      OBVIOUS
    <3>1. PICK q \in Operations : q = (IF u = t THEN r ELSE task[u]) /\ Knows(q)
      BY DEF TasksInv
    <3>2. Unlocked' <=> Unlocked
      BY DEF Unlocked
    <3>3. Knows(q)'
      BY <3>1, <3>2, KnowsStill
    <3> QED
      BY <1>1, <3>1, <3>3
  <2> QED
    BY <2>1, BecomesOne DEF TasksInv
<1>3. StoreInv' /\ SessionInv' /\ SeedsApart'
  BY DEF local, StoreInv, SessionInv, SeedsApart, Unlocked, KeptApart
<1>4. Timed'
  BY <1>1 DEF Timed, Unlocked
<1>5. MapKept'
  BY <1>1 DEF MapKept, Unlocked, Fits, Owned, local
<1>6. RowKept'
  BY <1>1 DEF RowKept, Unlocked, local
<1> QED
  BY <1>2, <1>3, <1>4, <1>5, <1>6

LEMMA IdleKnows == Knows(Idle)
  BY IdleIsAnOperation DEF Knows, AloneStages, Alones, RemoveStages, AboutCreate, AboutUnlock, AboutLock, AboutAdd,
     AboutRemove, AboutOpen, AboutSwitch, AboutRows, Opening

LEMMA GoesOn ==
  ASSUME IInv, NEW t \in Tasks, NEW r \in Operations, Becomes(t, r), Knows(r),
         UNCHANGED <<local, session, alarm, crashes, reopened>>,
         task[t].pc \notin {"idle", "unschedule", "schedule", "open"},
         r.kind = task[t].kind \/ r = Idle,
         task[t].pc \in RemoveStages /\ r.pc \notin {"open"} \cup RemoveStages /\ Undisturbed => ~Unlocked
  PROVE  IInv'
<1>1. OneAlone'
  BY KindKept DEF IInv
<1>2. alarm' \in BOOLEAN /\ alarm' = alarm
  BY DEF IInv
<1> QED
  BY <1>1, <1>2, ReadKeeps

LEMMA EndsHere ==
  ASSUME IInv, NEW t \in Tasks, Ends(t), UNCHANGED <<local, session, alarm, crashes, reopened>>,
         task[t].pc \notin {"idle", "unschedule", "schedule", "open"},
         task[t].pc \in RemoveStages /\ Undisturbed => ~Unlocked
  PROVE  IInv'
<1>1. Becomes(t, Idle) /\ Knows(Idle) /\ Idle \in Operations
  BY IdleKnows, IdleIsAnOperation DEF Ends
<1> QED
  BY <1>1, GoesOn

LEMMA HasIt ==
  ASSUME IInv, NEW t \in Tasks
  PROVE  /\ task[t] \in Operations /\ Knows(task[t])
         /\ task[t].kind \in AllKinds \cup {"none"} /\ task[t].pc \in Stages
         /\ task[t].seed \in MaybeSeed /\ task[t].index \in Indexes /\ task[t].rows \in Rows
         /\ task[t].extras \in Rows /\ task[t].map \in Maps /\ task[t].password \in BOOLEAN
<1>1. task[t] \in Operations /\ Knows(task[t])
  BY DEF IInv, TasksInv
<1> QED
  BY <1>1 DEF Operations

LEMMA SessionMapIs ==
  ASSUME IInv
  PROVE  /\ SessionMap \in Maps /\ session.map \in Maps
         /\ ~reopened => SessionMap = session.map
         /\ session.phrase \in MaybeSeed /\ session.active \in Indexes /\ session.password \in BOOLEAN
         /\ SessionMap # NoMap <=> Unlocked
<1>1. /\ session.map \in Maps /\ session.phrase \in MaybeSeed
      /\ session.active \in Indexes /\ session.password \in BOOLEAN
  BY DEF IInv, SessionInv
<1>2. MapOf(session.phrase) \in Maps /\ (Unlocked => MapOf(session.phrase) # NoMap)
  BY <1>1, MapOfOne DEF Unlocked
<1> QED
  BY <1>1, <1>2, NoMapIsAMap DEF IInv, SessionInv, SessionMap

\* Beside an operation that is under way, none opens the session.
LEMMA NoneOpens ==
  ASSUME IInv, NEW t \in Tasks, task[t].pc \notin {"idle", "open"}
  PROVE  /\ \A u \in Tasks : task[u].pc # "open"
         /\ Undisturbed /\ Unlocked => Fits(session.map, accounts)
<1>1. ASSUME NEW u \in Tasks, task[u].pc = "open" PROVE FALSE
  <2>1. Alone(task[u])
    BY <1>1, HasIt DEF Knows, AloneStages
  <2>2. task[t] = Idle
    BY <1>1, <2>1 DEF IInv, OneAlone
  <2> QED
    BY <2>2, IdleIsAnOperation
<1> QED
  BY <1>1 DEF IInv, MapKept

LEMMA OpenedFits ==
  ASSUME IInv, NEW map \in Maps, Opened(map)
  PROVE  Fits(map, accounts)
  BY DEF IInv, StoreInv, Opened, Fits, Owned, PhraseFor, KeptApart

LEMMA ListedRows ==
  ASSUME NEW rows \in Rows
  PROVE  /\ Listed(rows) = {} <=> rows = NoRows
         /\ rows # NoRows => First(rows) \in Indexes /\ rows[First(rows)] # NoSeed
  BY FirstIsListed, RowsDiffer DEF Listed

LEMMA RowWithout ==
  ASSUME NEW rows \in Rows, NEW i \in Indexes
  PROVE  /\ Without(rows, i) \in Rows
         /\ \A j \in Indexes : Without(rows, i)[j] = IF j = i THEN NoSeed ELSE rows[j]
  BY ZeroIsAnIndex DEF Rows, Without

\* Of two listed accounts one is left.
LEMMA WithoutLeavesOne ==
  ASSUME NEW rows \in Rows, NEW i \in Indexes, ~ (Cardinality(Listed(rows)) <= 1)
  PROVE  Without(rows, i) # NoRows
<1>1. SUFFICES ASSUME Without(rows, i) = NoRows PROVE FALSE
  OBVIOUS
<1>2. Listed(rows) \subseteq {i}
  BY <1>1, RowWithout, RowsDiffer DEF Listed
<1>3. IsFiniteSet({i}) /\ Cardinality({i}) = 1
  BY FS_Singleton
<1>4. Cardinality(Listed(rows)) \in Nat /\ Cardinality(Listed(rows)) <= 1
  BY <1>2, <1>3, FS_Subset, FS_CardinalityType
<1> QED
  BY <1>4

LEMMA OnlyOne ==
  ASSUME NEW i \in Indexes, NEW seed \in MaybeSeed
  PROVE  /\ Only(i, seed) \in Rows
         /\ \A j \in Indexes : Only(i, seed)[j] = IF j = i THEN seed ELSE NoSeed
<1>1. NoRows \in Rows /\ \A j \in Indexes : NoRows[j] = NoSeed
  BY ZeroIsAnIndex DEF NoRows, Rows
<1> QED
  BY <1>1 DEF Only, Rows

LEMMA MapTypes ==
  ASSUME NEW map \in Maps
  PROVE  map.primary \in MaybeSeed /\ map.rows \in Rows
  BY DEF Maps

LEMMA LockedIsLocked ==
  ASSUME session' = Locked
  PROVE  ~Unlocked' /\ SessionInv'
<1>1. /\ session' \in [phrase : MaybeSeed, map : Maps, password : BOOLEAN, active : Indexes]
      /\ session'.phrase = NoSeed /\ session'.map = NoMap /\ ~session'.password
  BY ZeroIsAnIndex, NoMapIsAMap DEF Locked
<1> QED
  BY <1>1 DEF SessionInv, Unlocked

LEMMA CreateChecksKeeps ==
  ASSUME IInv, NEW t \in Tasks, CreateChecks(t)
  PROVE  IInv'
<1> USE DEF CreateChecks, At
<1>1. CASE envelope # NoSeed
  BY <1>1, EndsHere DEF RemoveStages
<1>2. CASE envelope = NoSeed
  <2> DEFINE r == [task[t] EXCEPT !.pc = "create.seal"]
  <2>1. /\ r \in Operations /\ r.kind = task[t].kind
        /\ r.pc = "create.seal" /\ r.seed = task[t].seed /\ r.index = task[t].index
    BY HasIt DEF Operations, Stages, AloneStages, Alones, RemoveStages
  <2>2. Becomes(t, r)
    BY <1>2, HasIt DEF Goes, Becomes, Operations
  <2>3. Knows(task[t])
    BY HasIt
  <2> HIDE DEF r
  <2>4. ~Unlocked /\ accounts = NoRows /\ extras = NoRows
    BY <1>2, <2>1, <2>3 DEF IInv, StoreInv, SessionInv
  <2>5. Knows(r)
    BY <1>2, <2>1, <2>3, <2>4
    DEF Knows, AloneStages, Alones, RemoveStages, AboutCreate, AboutUnlock, AboutLock,
      AboutAdd, AboutRemove, AboutOpen, AboutSwitch, AboutRows, Alone, Opening
  <2> QED
    BY <1>2, <2>4, <2>1, <2>2, <2>5, GoesOn DEF RemoveStages
<1> QED
  BY <1>1, <1>2

LEMMA UnlockReadsRowsKeeps ==
  ASSUME IInv, NEW t \in Tasks, UnlockReadsRows(t)
  PROVE  IInv'
<1> USE DEF UnlockReadsRows, At
<1>1. CASE Listed(accounts) = {}
  <2> DEFINE r == [task[t] EXCEPT !.pc = "unlock.list"]
  <2>1. /\ r \in Operations /\ r.kind = task[t].kind
        /\ r.pc = "unlock.list" /\ r.map = task[t].map /\ r.index = task[t].index
    BY HasIt DEF Operations, Stages, AloneStages, Alones, RemoveStages
  <2>2. Becomes(t, r)
    BY <1>1, HasIt DEF Goes, Becomes, Operations
  <2>3. Knows(task[t])
    BY HasIt
  <2> HIDE DEF r
  <2>4. accounts = NoRows
    BY <1>1, <2>1, <2>3, ListedRows DEF IInv, StoreInv
  <2>5. Knows(r)
    BY <1>1, <2>1, <2>3, <2>4
    DEF Knows, AloneStages, Alones, RemoveStages, AboutCreate, AboutUnlock, AboutLock,
      AboutAdd, AboutRemove, AboutOpen, AboutSwitch, AboutRows, Alone, Opening
  <2> QED
    BY <1>1, <2>4, <2>1, <2>2, <2>5, GoesOn DEF RemoveStages
<1>2. CASE Listed(accounts) # {}
  <2> DEFINE active == IF 0 \in Listed(accounts) THEN 0 ELSE First(accounts)
  <2>1. active \in Indexes /\ accounts[active] # NoSeed
    BY <1>2, ListedRows DEF Listed, IInv, StoreInv
  <2>2. PhraseFor(active, task[t].map) \in MaybeSeed
    BY HasIt, PhraseIsMaybe, <2>1
  <2> DEFINE r == [task[t] EXCEPT !.pc = "open", !.index = active, !.seed = PhraseFor(active, task[t].map)]
  <2>3. /\ r \in Operations /\ r.kind = task[t].kind
        /\ r.pc = "open" /\ r.index = active /\ r.seed = PhraseFor(active, task[t].map) /\ r.map = task[t].map
    BY <2>1, <2>2, HasIt DEF Operations, Stages, AloneStages, Alones, RemoveStages
  <2>4. Becomes(t, r)
    BY <1>2, <2>1, <2>2, HasIt DEF Goes, Becomes, Operations
  <2>5. Knows(task[t])
    BY HasIt
  <2> HIDE DEF r
  <2>6. Opened(r.map) /\ Fits(r.map, accounts)
    BY <1>2, <2>1, <2>2, <2>3, <2>5, OpenedFits, HasIt DEF Knows, AboutUnlock
  <2>7. r.seed = accounts[r.index] /\ r.seed # NoSeed /\ r.map # NoMap
    BY <1>2, <2>1, <2>2, <2>3, <2>5, <2>6, PhraseIsMaybe, HasIt DEF Fits, Operations
  <2>8. accounts # NoRows
    BY <1>2, <2>1, <2>2, <2>3, <2>5, <2>6, <2>7, ListedRows DEF IInv, StoreInv
  <2>9. Knows(r)
    BY <1>2, <2>1, <2>2, <2>3, <2>5, <2>6, <2>7, <2>8
    DEF Knows, AloneStages, Alones, RemoveStages, AboutCreate, AboutUnlock, AboutLock,
      AboutAdd, AboutRemove, AboutOpen, AboutSwitch, AboutRows, Alone, Opening
  <2> QED
    BY <1>2, <2>6, <2>7, <2>8, <2>3, <2>4, <2>9, GoesOn DEF RemoveStages
<1> QED
  BY <1>1, <1>2

LEMMA AddChecksKeeps ==
  ASSUME IInv, NEW t \in Tasks, AddChecks(t)
  PROVE  IInv'
<1> USE DEF AddChecks, At
<1>1. CASE ~ (Unlocked /\ session.password)
  BY <1>1, EndsHere DEF RemoveStages
<1>2. CASE Unlocked /\ session.password
  <2> DEFINE r == [task[t] EXCEPT !.pc = "add.map", !.password = TRUE]
  <2>1. /\ r \in Operations /\ r.kind = task[t].kind
        /\ r.pc = "add.map" /\ r.seed = task[t].seed
    BY HasIt DEF Operations, Stages, AloneStages, Alones, RemoveStages
  <2>2. Becomes(t, r)
    BY <1>2, HasIt DEF Goes, Becomes, Operations
  <2>3. Knows(task[t]) /\ ~reopened
    BY <1>2, HasIt DEF IInv, SessionInv
  <2> HIDE DEF r
  <2>4. Knows(r)
    BY <1>2, <2>1, <2>3
    DEF Knows, AloneStages, Alones, RemoveStages, AboutCreate, AboutUnlock, AboutLock,
      AboutAdd, AboutRemove, AboutOpen, AboutSwitch, AboutRows, Alone, Opening
  <2> QED
    BY <1>2, <2>1, <2>2, <2>4, GoesOn DEF RemoveStages
<1> QED
  BY <1>1, <1>2

LEMMA AddReadsMapKeeps ==
  ASSUME IInv, NEW t \in Tasks, AddReadsMap(t)
  PROVE  IInv'
<1> USE DEF AddReadsMap, At
<1>1. CASE task[t].seed \in {SessionMap.primary} \cup {SessionMap.rows[i] : i \in Indexes}
  BY <1>1, EndsHere DEF RemoveStages
<1>2. CASE ~ (task[t].seed \in {SessionMap.primary} \cup {SessionMap.rows[i] : i \in Indexes})
  <2>1. SessionMap = session.map /\ session.map \in Maps
    BY SessionMapIs, HasIt DEF Knows, AboutAdd
  <2> DEFINE r == [task[t] EXCEPT !.pc = "add.rows", !.map = SessionMap]
  <2>2. /\ r \in Operations /\ r.kind = task[t].kind
        /\ r.pc = "add.rows" /\ r.seed = task[t].seed /\ r.map = session.map
    BY <2>1, HasIt DEF Operations, Stages, AloneStages, Alones, RemoveStages
  <2>3. Becomes(t, r)
    BY <1>2, <2>1, HasIt DEF Goes, Becomes, Operations
  <2>4. Knows(task[t])
    BY HasIt
  <2> HIDE DEF r
  <2>5. Unlocked /\ ~reopened /\ r.seed # NoSeed
    BY <1>2, <2>1, <2>2, <2>4, HasIt DEF Knows, AboutAdd
  <2>6. Undisturbed => Fits(r.map, accounts)
    BY <1>2, <2>1, <2>2, <2>4, <2>5, NoneOpens
  <2>7. Undisturbed => \A i \in Indexes : accounts[i] # r.seed
    BY <1>2, <2>1, <2>2, <2>4, <2>5, <2>6 DEF Fits, PhraseFor
  <2>8. Knows(r)
    BY <1>2, <2>1, <2>2, <2>4, <2>5, <2>6, <2>7
    DEF Knows, AloneStages, Alones, RemoveStages, AboutCreate, AboutUnlock, AboutLock,
      AboutAdd, AboutRemove, AboutOpen, AboutSwitch, AboutRows, Alone, Opening
  <2> QED
    BY <1>2, <2>5, <2>6, <2>7, <2>2, <2>3, <2>8, GoesOn DEF RemoveStages
<1> QED
  BY <1>1, <1>2

LEMMA AddReadsRowsKeeps ==
  ASSUME IInv, NEW t \in Tasks, AddReadsRows(t)
  PROVE  IInv'
<1> USE DEF AddReadsRows, At
<1>1. CASE NextIndex(accounts) > MaxIndex
  BY <1>1, EndsHere DEF RemoveStages
<1>2. CASE ~ (NextIndex(accounts) > MaxIndex)
  <2>1. accounts \in Rows
    BY DEF IInv, StoreInv
  <2>2. /\ NextIndex(accounts) \in Indexes /\ accounts[NextIndex(accounts)] = NoSeed
        /\ accounts # NoRows => NextIndex(accounts) # 0
    BY <1>2, NextIsNew, <2>1
  <2> DEFINE r == [task[t] EXCEPT !.pc = "add.extras", !.rows = accounts, !.index = NextIndex(accounts)]
  <2>3. /\ r \in Operations /\ r.kind = task[t].kind
        /\ r.pc = "add.extras" /\ r.seed = task[t].seed /\ r.map = task[t].map
        /\ r.rows = accounts /\ r.index = NextIndex(accounts)
    BY <2>1, <2>2, HasIt DEF Operations, Stages, AloneStages, Alones, RemoveStages
  <2>4. Becomes(t, r)
    BY <1>2, <2>1, <2>2, HasIt DEF Goes, Becomes, Operations
  <2>5. Knows(task[t])
    BY HasIt
  <2> HIDE DEF r
  <2>6. accounts # NoRows
    BY <1>2, <2>1, <2>2, <2>3, <2>5 DEF IInv, SessionInv, Knows, AboutAdd
  <2>7. r.index # 0
    BY <1>2, <2>1, <2>2, <2>3, <2>5, <2>6
  <2>8. Knows(r)
    BY <1>2, <2>1, <2>2, <2>3, <2>5, <2>6, <2>7
    DEF Knows, AloneStages, Alones, RemoveStages, AboutCreate, AboutUnlock, AboutLock,
      AboutAdd, AboutRemove, AboutOpen, AboutSwitch, AboutRows, Alone, Opening
  <2> QED
    BY <1>2, <2>6, <2>7, <2>3, <2>4, <2>8, GoesOn DEF RemoveStages
<1> QED
  BY <1>1, <1>2

LEMMA RemoveChecksKeeps ==
  ASSUME IInv, NEW t \in Tasks, RemoveChecks(t)
  PROVE  IInv'
<1> USE DEF RemoveChecks, At
<1>1. CASE Cardinality(Listed(accounts)) <= 1 \/ task[t].index \notin Listed(accounts)
  BY <1>1, EndsHere DEF RemoveStages
<1>2. CASE ~ (Cardinality(Listed(accounts)) <= 1 \/ task[t].index \notin Listed(accounts))
  <2>1. task[t].index \in Indexes /\ accounts \in Rows
    BY HasIt DEF IInv, StoreInv
  <2>2. Without(accounts, task[t].index) \in Rows
    BY RowWithout, <2>1
  <2> DEFINE r == [task[t] EXCEPT !.pc = "remove.list", !.rows = Without(accounts, task[t].index)]
  <2>3. /\ r \in Operations /\ r.kind = task[t].kind
        /\ r.pc = "remove.list" /\ r.index = task[t].index /\ r.rows = Without(accounts, task[t].index)
    BY <2>1, <2>2, HasIt DEF Operations, Stages, AloneStages, Alones, RemoveStages
  <2>4. Becomes(t, r)
    BY <1>2, <2>1, <2>2, HasIt DEF Goes, Becomes, Operations
  <2>5. Knows(task[t])
    BY HasIt
  <2> HIDE DEF r
  <2>6. r.rows # NoRows
    BY <1>2, <2>1, <2>2, <2>3, <2>5, WithoutLeavesOne DEF IInv, StoreInv
  <2>7. accounts[r.index] # NoSeed
    BY <1>2, <2>1, <2>2, <2>3, <2>5, <2>6 DEF Listed
  <2>8. Knows(r)
    BY <1>2, <2>1, <2>2, <2>3, <2>5, <2>6, <2>7
    DEF Knows, AloneStages, Alones, RemoveStages, AboutCreate, AboutUnlock, AboutLock,
      AboutAdd, AboutRemove, AboutOpen, AboutSwitch, AboutRows, Alone, Opening
  <2> QED
    BY <1>2, <2>6, <2>7, <2>3, <2>4, <2>8, GoesOn DEF RemoveStages
<1> QED
  BY <1>1, <1>2

LEMMA RemoveReadsExtrasKeeps ==
  ASSUME IInv, NEW t \in Tasks, RemoveReadsExtras(t)
  PROVE  IInv'
<1> USE DEF RemoveReadsExtras, At
<1>1. task[t].index \in Indexes /\ extras \in Rows
  BY HasIt DEF IInv, StoreInv
<1>2. Without(extras, task[t].index) \in Rows
  BY RowWithout, <1>1
<1> DEFINE r == [task[t] EXCEPT !.pc = "remove.unseal", !.extras = Without(extras, task[t].index)]
<1>3. /\ r \in Operations /\ r.kind = task[t].kind
      /\ r.pc = "remove.unseal" /\ r.index = task[t].index /\ r.rows = task[t].rows
      /\ r.extras = Without(extras, task[t].index)
  BY <1>1, <1>2, HasIt DEF Operations, Stages, AloneStages, Alones, RemoveStages
<1>4. Becomes(t, r)
  BY <1>1, <1>2, HasIt DEF Goes, Becomes, Operations
<1>5. Knows(task[t])
  BY HasIt
<1> HIDE DEF r
<1>6. Knows(r)
  BY <1>1, <1>2, <1>3, <1>5
  DEF Knows, AloneStages, Alones, RemoveStages, AboutCreate, AboutUnlock, AboutLock,
    AboutAdd, AboutRemove, AboutOpen, AboutSwitch, AboutRows, Alone, Opening
<1> QED
  BY <1>3, <1>4, <1>6, GoesOn DEF RemoveStages

LEMMA RemoveReadsPasswordKeeps ==
  ASSUME IInv, NEW t \in Tasks, RemoveReadsPassword(t)
  PROVE  IInv'
<1> USE DEF RemoveReadsPassword, At
<1>1. session.password \in BOOLEAN /\ (session.password => ~reopened)
  BY SessionMapIs DEF IInv, SessionInv
<1> DEFINE r == [task[t] EXCEPT !.pc = "open", !.password = session.password]
<1>2. /\ r \in Operations /\ r.kind = task[t].kind
      /\ r.pc = "open" /\ r.seed = task[t].seed /\ r.index = task[t].index /\ r.map = task[t].map
      /\ r.password = session.password
  BY <1>1, HasIt DEF Operations, Stages, AloneStages, Alones, RemoveStages
<1>3. Becomes(t, r)
  BY <1>1, HasIt DEF Goes, Becomes, Operations
<1>4. Knows(task[t])
  BY HasIt
<1> HIDE DEF r
<1>5. Knows(r)
  BY <1>1, <1>2, <1>4
  DEF Knows, AloneStages, Alones, RemoveStages, AboutCreate, AboutUnlock, AboutLock,
    AboutAdd, AboutRemove, AboutOpen, AboutSwitch, AboutRows, Alone, Opening
<1> QED
  BY <1>2, <1>3, <1>5, GoesOn DEF RemoveStages

LEMMA SwitchReadsRowKeeps ==
  ASSUME IInv, NEW t \in Tasks, SwitchReadsRow(t)
  PROVE  IInv'
<1> USE DEF SwitchReadsRow, At
<1>1. CASE task[t].index \notin Listed(accounts)
  BY <1>1, EndsHere DEF RemoveStages
<1>2. CASE task[t].index \in Listed(accounts)
  <2> DEFINE r == [task[t] EXCEPT !.pc = "switch.map"]
  <2>1. /\ r \in Operations /\ r.kind = task[t].kind
        /\ r.pc = "switch.map" /\ r.index = task[t].index
    BY HasIt DEF Operations, Stages, AloneStages, Alones, RemoveStages
  <2>2. Becomes(t, r)
    BY <1>2, HasIt DEF Goes, Becomes, Operations
  <2>3. Knows(task[t])
    BY HasIt
  <2> HIDE DEF r
  <2>4. accounts[r.index] # NoSeed
    BY <1>2, <2>1, <2>3 DEF Listed
  <2>5. Knows(r)
    BY <1>2, <2>1, <2>3, <2>4
    DEF Knows, AloneStages, Alones, RemoveStages, AboutCreate, AboutUnlock, AboutLock,
      AboutAdd, AboutRemove, AboutOpen, AboutSwitch, AboutRows, Alone, Opening
  <2> QED
    BY <1>2, <2>4, <2>1, <2>2, <2>5, GoesOn DEF RemoveStages
<1> QED
  BY <1>1, <1>2

LEMMA SwitchReadsPhraseKeeps ==
  ASSUME IInv, NEW t \in Tasks, SwitchReadsPhrase(t)
  PROVE  IInv'
<1> USE DEF SwitchReadsPhrase, At
<1>1. CASE ~Unlocked
  BY <1>1, EndsHere DEF RemoveStages
<1>2. CASE Unlocked
  <2>1. session.phrase \in MaybeSeed
    BY SessionMapIs
  <2> DEFINE r == [task[t] EXCEPT !.pc = "switch.write", !.seed = session.phrase]
  <2>2. /\ r \in Operations /\ r.kind = task[t].kind
        /\ r.pc = "switch.write" /\ r.seed = session.phrase /\ r.index = task[t].index
    BY <2>1, HasIt DEF Operations, Stages, AloneStages, Alones, RemoveStages
  <2>3. Becomes(t, r)
    BY <1>2, <2>1, HasIt DEF Goes, Becomes, Operations
  <2>4. Knows(task[t])
    BY HasIt
  <2> HIDE DEF r
  <2>5. ~Undisturbed /\ r.seed # NoSeed
    BY <1>2, <2>1, <2>2, <2>4 DEF Knows, AboutSwitch, Unlocked
  <2>6. Knows(r)
    BY <1>2, <2>1, <2>2, <2>4, <2>5
    DEF Knows, AloneStages, Alones, RemoveStages, AboutCreate, AboutUnlock, AboutLock,
      AboutAdd, AboutRemove, AboutOpen, AboutSwitch, AboutRows, Alone, Opening
  <2> QED
    BY <1>2, <2>5, <2>2, <2>3, <2>6, GoesOn DEF RemoveStages
<1> QED
  BY <1>1, <1>2

LEMMA RenameReadsKeeps ==
  ASSUME IInv, NEW t \in Tasks, RenameReads(t)
  PROVE  IInv'
<1> USE DEF RenameReads, At
<1>1. accounts \in Rows
  BY DEF IInv, StoreInv
<1> DEFINE r == [task[t] EXCEPT !.pc = "rename.list", !.rows = accounts]
<1>2. /\ r \in Operations /\ r.kind = task[t].kind
      /\ r.pc = "rename.list" /\ r.rows = accounts
  BY <1>1, HasIt DEF Operations, Stages, AloneStages, Alones, RemoveStages
<1>3. Becomes(t, r)
  BY <1>1, HasIt DEF Goes, Becomes, Operations
<1>4. Knows(task[t])
  BY HasIt
<1> HIDE DEF r
<1>5. Knows(r)
  BY <1>1, <1>2, <1>4
  DEF Knows, AloneStages, Alones, RemoveStages, AboutCreate, AboutUnlock, AboutLock,
    AboutAdd, AboutRemove, AboutOpen, AboutSwitch, AboutRows, Alone, Opening
<1> QED
  BY <1>2, <1>3, <1>5, GoesOn DEF RemoveStages

LEMMA RevealReadsRowsKeeps ==
  ASSUME IInv, NEW t \in Tasks, RevealReadsRows(t)
  PROVE  IInv'
<1> USE DEF RevealReadsRows, At
<1>1. CASE envelope = NoSeed /\ Listed(extras) = {}
  BY <1>1, EndsHere DEF RemoveStages
<1>2. CASE ~ (envelope = NoSeed /\ Listed(extras) = {})
  <2>1. accounts \in Rows
    BY DEF IInv, StoreInv
  <2> DEFINE r == [task[t] EXCEPT !.pc = "reveal.active", !.rows = accounts]
  <2>2. /\ r \in Operations /\ r.kind = task[t].kind
        /\ r.pc = "reveal.active" /\ r.rows = accounts
    BY <2>1, HasIt DEF Operations, Stages, AloneStages, Alones, RemoveStages
  <2>3. Becomes(t, r)
    BY <1>2, <2>1, HasIt DEF Goes, Becomes, Operations
  <2>4. Knows(task[t])
    BY HasIt
  <2> HIDE DEF r
  <2>5. Knows(r)
    BY <1>2, <2>1, <2>2, <2>4
    DEF Knows, AloneStages, Alones, RemoveStages, AboutCreate, AboutUnlock, AboutLock,
      AboutAdd, AboutRemove, AboutOpen, AboutSwitch, AboutRows, Alone, Opening
  <2> QED
    BY <1>2, <2>2, <2>3, <2>5, GoesOn DEF RemoveStages
<1> QED
  BY <1>1, <1>2

LEMMA RevealReadsActiveKeeps ==
  ASSUME IInv, NEW t \in Tasks, RevealReadsActive(t)
  PROVE  IInv'
<1> USE DEF RevealReadsActive, At
<1>1. CASE Listed(task[t].rows) = {}
  BY <1>1, EndsHere DEF RemoveStages
<1>2. CASE Listed(task[t].rows) # {}
  <2> DEFINE active == IF session.active \in Listed(task[t].rows) THEN session.active ELSE First(task[t].rows)
  <2>1. active \in Indexes /\ task[t].rows[active] # NoSeed
    BY <1>2, HasIt, ListedRows, SessionMapIs DEF Listed
  <2> DEFINE r == [task[t] EXCEPT !.pc = "reveal.open", !.index = active]
  <2>2. /\ r \in Operations /\ r.kind = task[t].kind
        /\ r.pc = "reveal.open" /\ r.rows = task[t].rows /\ r.index = active
    BY <2>1, HasIt DEF Operations, Stages, AloneStages, Alones, RemoveStages
  <2>3. Becomes(t, r)
    BY <1>2, <2>1, HasIt DEF Goes, Becomes, Operations
  <2>4. Knows(task[t])
    BY HasIt
  <2> HIDE DEF r
  <2>5. r.rows = accounts
    BY <1>2, <2>1, <2>2, <2>4 DEF Knows, AboutRows
  <2>6. Knows(r)
    BY <1>2, <2>1, <2>2, <2>4, <2>5
    DEF Knows, AloneStages, Alones, RemoveStages, AboutCreate, AboutUnlock, AboutLock,
      AboutAdd, AboutRemove, AboutOpen, AboutSwitch, AboutRows, Alone, Opening
  <2> QED
    BY <1>2, <2>5, <2>2, <2>3, <2>6, GoesOn DEF RemoveStages
<1> QED
  BY <1>1, <1>2

LEMMA RevealOpensKeeps ==
  ASSUME IInv, NEW t \in Tasks, RevealOpens(t)
  PROVE  IInv'
<1> USE DEF RevealOpens, At
<1> DEFINE seed == IF task[t].index = 0 THEN envelope ELSE extras[task[t].index]
<1>1. seed \in MaybeSeed
  BY HasIt DEF IInv, StoreInv, Rows
<1> DEFINE r == [task[t] EXCEPT !.pc = "revealed", !.seed = seed]
<1>2. /\ r \in Operations /\ r.kind = task[t].kind
      /\ r.pc = "revealed" /\ r.rows = task[t].rows /\ r.index = task[t].index /\ r.seed = seed
  BY <1>1, HasIt DEF Operations, Stages, AloneStages, Alones, RemoveStages
<1>3. Becomes(t, r)
  BY <1>1, HasIt DEF Goes, Becomes, Operations
<1>4. Knows(task[t])
  BY HasIt
<1> HIDE DEF r
<1>5. r.rows = accounts /\ accounts[r.index] # NoSeed
  BY <1>1, <1>2, <1>4 DEF Knows, AboutRows
<1>6. r.seed \in {NoSeed, r.rows[r.index]}
  BY <1>1, <1>2, <1>4, <1>5, HasIt DEF IInv, StoreInv
<1>7. Knows(r)
  BY <1>1, <1>2, <1>4, <1>5, <1>6
  DEF Knows, AloneStages, Alones, RemoveStages, AboutCreate, AboutUnlock, AboutLock,
    AboutAdd, AboutRemove, AboutOpen, AboutSwitch, AboutRows, Alone, Opening
<1> QED
  BY <1>5, <1>6, <1>2, <1>3, <1>7, GoesOn DEF RemoveStages

LEMMA RevealEndsKeeps ==
  ASSUME IInv, NEW t \in Tasks, RevealEnds(t)
  PROVE  IInv'
<1> USE DEF RevealEnds, At
<1> QED
  BY EndsHere DEF RemoveStages

LEMMA AddReadsExtrasKeeps ==
  ASSUME IInv, NEW t \in Tasks, AddReadsExtras(t)
  PROVE  IInv'
<1> USE DEF AddReadsExtras, At
<1> DEFINE r == [task[t] EXCEPT !.pc = "add.seal", !.extras = extras]
<1>1. /\ r \in Operations /\ r.kind = task[t].kind
      /\ r.pc = "add.seal" /\ r.seed = task[t].seed /\ r.index = task[t].index
      /\ r.rows = task[t].rows /\ r.map = task[t].map /\ r.extras = extras
  BY HasIt DEF Operations, Stages, AloneStages, Alones, RemoveStages, IInv, StoreInv
<1>2. Becomes(t, r)
  BY HasIt DEF Goes, Becomes, Operations
<1>3. Knows(task[t])
  BY HasIt
<1> HIDE DEF r
<1>4. Knows(r)
  BY <1>1, <1>3
  DEF Knows, AloneStages, Alones, RemoveStages, AboutCreate, AboutUnlock, AboutLock,
    AboutAdd, AboutRemove, AboutOpen, AboutSwitch, AboutRows, Alone, Opening
<1> QED
  BY <1>1, <1>2, <1>4, GoesOn DEF RemoveStages

LEMMA UnlockOpensFirstKeeps ==
  ASSUME IInv, NEW t \in Tasks, UnlockOpensFirst(t)
  PROVE  IInv'
<1> USE DEF At
<1>1. CASE envelope = NoSeed
  <2>1. extras \in Rows /\ extras = NoRows
    BY <1>1 DEF IInv, StoreInv
  <2>2. Listed(extras) = {}
    BY <2>1, RowsDiffer DEF Listed
  <2>3. Ends(t) /\ UNCHANGED <<local, session, alarm, crashes, reopened>> /\ task[t].pc = "unlock"
    BY <1>1, <2>2 DEF UnlockOpensFirst
  <2> QED
    BY <2>3, EndsHere DEF RemoveStages
<1>2. CASE envelope # NoSeed
  <2>1. MapOf(envelope) \in Maps
    BY MapOfOne DEF IInv, StoreInv
  <2> DEFINE r == [task[t] EXCEPT !.pc = "unlock.extras", !.map = MapOf(envelope)]
  <2>2. /\ r \in Operations /\ r.kind = task[t].kind
        /\ r.pc = "unlock.extras" /\ r.map = MapOf(envelope) /\ r.index = task[t].index
    BY <2>1, HasIt DEF Operations, Stages, AloneStages, Alones, RemoveStages
  <2>3. /\ Becomes(t, r)
        /\ task[t].pc = "unlock" /\ UNCHANGED <<local, session, alarm, crashes, reopened>>
    BY <1>2 DEF UnlockOpensFirst
  <2>4. Knows(task[t])
    BY HasIt
  <2> HIDE DEF r
  <2>5. Knows(r)
    BY <1>2, <2>2, <2>3, <2>4
    DEF Knows, AloneStages, Alones, RemoveStages, AboutCreate, AboutUnlock, AboutLock,
      AboutAdd, AboutRemove, AboutOpen, AboutSwitch, AboutRows, Alone, Opening
  <2> QED
    BY <2>2, <2>3, <2>5, GoesOn DEF RemoveStages
<1> QED
  BY <1>1, <1>2

LEMMA UnlockOpensExtrasKeeps ==
  ASSUME IInv, NEW t \in Tasks, UnlockOpensExtras(t)
  PROVE  IInv'
<1> USE DEF At
<1>1. PICK o \in Operations : o = task[t] /\ Knows(o) /\ o.map.rows \in Rows /\ o.map \in Maps
  BY HasIt, MapChanges, ZeroIsAnIndex
<1>2. PICK rows \in Rows : rows = [i \in Indexes |-> IF extras[i] # NoSeed THEN extras[i] ELSE o.map.rows[i]]
  BY <1>1 DEF Rows, IInv, StoreInv
<1>3. PICK map \in Maps : map = [o.map EXCEPT !.rows = rows] /\ map.rows = rows /\ map.primary = o.map.primary
  BY <1>1, <1>2, MapRowsChange
<1> DEFINE r == [o EXCEPT !.pc = "unlock.rows", !.map = map]
<1>4. r \in Operations /\ r.kind = task[t].kind /\ r.pc = "unlock.rows" /\ r.map = map /\ r.index = o.index
  BY <1>1, <1>3 DEF Operations, Stages, AloneStages, Alones, RemoveStages
<1>5. /\ Becomes(t, r)
      /\ task[t].pc = "unlock.extras" /\ UNCHANGED <<local, session, alarm, crashes, reopened>>
  BY <1>1, <1>2, <1>3 DEF UnlockOpensExtras, Becomes, Operations, Maps
<1> HIDE DEF r
<1>6. o.map = MapOf(envelope) /\ envelope # NoSeed
  BY <1>1, <1>5 DEF Knows, AboutUnlock
<1>7. o.map.primary = envelope /\ \A i \in Indexes : o.map.rows[i] = IF i = 0 THEN envelope ELSE NoSeed
  BY <1>6, MapOfOne DEF IInv, StoreInv
<1>10. \A i \in Indexes : map.rows[i] = IF extras[i] # NoSeed THEN extras[i]
                                        ELSE IF i = 0 THEN envelope ELSE NoSeed
  BY <1>2, <1>3, <1>7
<1>8. Opened(r.map)
  BY <1>3, <1>4, <1>7, <1>10 DEF Opened
<1>9. Knows(r)
  BY <1>1, <1>3, <1>4, <1>5, <1>6, <1>8
  DEF Knows, AloneStages, Alones, RemoveStages, AboutCreate, AboutUnlock, AboutLock,
    AboutAdd, AboutRemove, AboutOpen, AboutSwitch, AboutRows, Alone, Opening
<1> QED
  BY <1>4, <1>5, <1>9, GoesOn DEF RemoveStages

LEMMA RemoveReadsMapKeeps ==
  ASSUME IInv, NEW t \in Tasks, RemoveReadsMap(t)
  PROVE  IInv'
<1> USE DEF At
<1>1. PICK o \in Operations : /\ o = task[t] /\ Knows(o) /\ o.pc = "remove.map"
                              /\ o.index \in Indexes
  BY HasIt DEF RemoveReadsMap
<1>2. PICK held \in Maps : /\ held = SessionMap /\ (~Unlocked => held = NoMap)
                           /\ ~reopened => held = session.map
  BY SessionMapIs
<1>3. PICK map \in Maps :
         /\ map = [SessionMap EXCEPT !.rows = Without(@, o.index)]
         /\ map.primary = held.primary
         /\ \A j \in Indexes : map.rows[j] = IF j = o.index THEN NoSeed ELSE held.rows[j]
         /\ held = NoMap => map = NoMap
  <2> DEFINE map == [SessionMap EXCEPT !.rows = Without(@, o.index)]
  <2>1. /\ map \in Maps /\ map.primary = held.primary
        /\ \A j \in Indexes : map.rows[j] = IF j = o.index THEN NoSeed ELSE held.rows[j]
        /\ held = NoMap => map = NoMap
    BY <1>1, <1>2, MapWithout
  <2> HIDE DEF map
  <2> QED
    BY <2>1 DEF map
<1> DEFINE r == [o EXCEPT !.pc = IF o.index = 0 THEN "promote" ELSE "remove.session", !.map = map]
<1>4. /\ r \in Operations /\ r.kind = o.kind /\ r.rows = o.rows /\ r.index = o.index /\ r.map = map
      /\ r.pc = IF o.index = 0 THEN "promote" ELSE "remove.session"
  BY <1>1 DEF Operations, Stages, AloneStages, Alones, RemoveStages
<1>5. Becomes(t, r) /\ UNCHANGED <<local, session, alarm, crashes, reopened>>
  BY <1>1, <1>3 DEF RemoveReadsMap
<1> HIDE DEF r
<1>6. ~Unlocked => map = NoMap
  BY <1>2, <1>3
<1>7. r.rows = accounts /\ accounts # NoRows /\ accounts[o.index] = NoSeed
  BY <1>1, <1>4 DEF Knows, AboutRemove, RemoveStages
<1>8. Undisturbed /\ Unlocked => Fits(map, accounts) \/ o.index = 0
  <2>1. Undisturbed /\ Unlocked => Fits(held, accounts)
    BY <1>1, <1>2, NoneOpens
  <2> QED
    BY <1>1, <1>3, <1>7, <2>1, ZeroIsAnIndex DEF Fits, Owned, PhraseFor
<1>9. o.index = 0 => KeptApart /\ (Undisturbed /\ Unlocked => Owned(map, accounts))
  BY <1>1, <1>2, <1>3 DEF Knows, AboutRemove, Owned
<1>10. Knows(r)
  BY <1>1, <1>4, <1>6, <1>7, <1>8, <1>9
  DEF Knows, AloneStages, Alones, RemoveStages, AboutCreate, AboutUnlock, AboutLock,
    AboutAdd, AboutRemove, AboutOpen, AboutSwitch, AboutRows, Alone, Opening
<1> QED
  BY <1>1, <1>4, <1>5, <1>10, GoesOn DEF RemoveStages

LEMMA PromoteReadsKeeps ==
  ASSUME IInv, NEW t \in Tasks, PromoteReads(t)
  PROVE  IInv'
<1> USE DEF At
<1>1. PICK o \in Operations : o = task[t] /\ Knows(o) /\ o.pc = "promote"
  BY HasIt DEF PromoteReads
<1>2. /\ extras \in Rows /\ accounts \in Rows /\ accounts # NoRows /\ accounts[0] = NoSeed
      /\ KeptApart
  BY <1>1 DEF Knows, AboutRemove, RemoveStages, IInv, StoreInv
<1>3. extras # NoRows
  BY <1>2, RowsDiffer DEF KeptApart
<1> DEFINE r == [o EXCEPT !.pc = "promote.seal", !.extras = extras]
<1>4. /\ r \in Operations /\ r.kind = o.kind /\ r.rows = o.rows /\ r.index = o.index /\ r.map = o.map
      /\ r.pc = "promote.seal" /\ r.extras = extras
  BY <1>1, <1>2 DEF Operations, Stages, AloneStages, Alones, RemoveStages
<1>5. Becomes(t, r) /\ UNCHANGED <<local, session, alarm, crashes, reopened>>
  BY <1>1, <1>2, <1>3, ListedRows DEF PromoteReads
<1> HIDE DEF r
<1>6. Knows(r)
  BY <1>1, <1>3, <1>4
  DEF Knows, AloneStages, Alones, RemoveStages, AboutCreate, AboutUnlock, AboutLock,
    AboutAdd, AboutRemove, AboutOpen, AboutSwitch, AboutRows, Alone, Opening
<1> QED
  BY <1>1, <1>4, <1>5, <1>6, GoesOn DEF RemoveStages

LEMMA RemoveReadsActiveKeeps ==
  ASSUME IInv, NEW t \in Tasks, RemoveReadsActive(t)
  PROVE  IInv'
<1> USE DEF At
<1>1. PICK o \in Operations : /\ o = task[t] /\ Knows(o) /\ o.pc = "remove.session"
                              /\ o.rows \in Rows /\ o.map \in Maps
  BY HasIt DEF RemoveReadsActive
<1>2. /\ o.rows = accounts /\ accounts # NoRows /\ ~Opening(o)
      /\ ~Unlocked => o.map = NoMap
      /\ Undisturbed /\ Unlocked => Fits(o.map, accounts)
  BY <1>1 DEF Knows, AboutRemove, RemoveStages
<1>3. PICK active \in Indexes :
         /\ active = IF session.active \in Listed(o.rows) THEN session.active ELSE First(o.rows)
         /\ accounts[active] # NoSeed
  BY <1>1, <1>2, ListedRows, SessionMapIs DEF Listed
<1>4. PICK phrase \in MaybeSeed : phrase = PhraseFor(active, o.map) /\ (phrase # NoSeed => o.map # NoMap)
  BY <1>1, PhraseIsMaybe
<1>5. Undisturbed /\ Unlocked => phrase = accounts[active]
  BY <1>2, <1>3, <1>4 DEF Fits
<1>6. CASE phrase = NoSeed
  <2>1. Ends(t) /\ UNCHANGED <<local, session, alarm, crashes, reopened>>
    BY <1>1, <1>3, <1>4, <1>6 DEF RemoveReadsActive
  <2>2. Undisturbed => ~Unlocked
    BY <1>3, <1>5, <1>6
  <2> QED
    BY <1>1, <2>1, <2>2, EndsHere
<1>7. CASE phrase # NoSeed
  <2> DEFINE r == [o EXCEPT !.pc = "remove.password", !.index = active, !.seed = phrase]
  <2>1. /\ r \in Operations /\ r.kind = o.kind /\ r.index = active /\ r.map = o.map
        /\ r.pc = "remove.password" /\ r.seed = phrase
    BY <1>1, <1>2 DEF Operations, Stages, AloneStages, Alones, RemoveStages
  <2>2. Becomes(t, r) /\ UNCHANGED <<local, session, alarm, crashes, reopened>>
    BY <1>1, <1>3, <1>4, <1>7 DEF RemoveReadsActive
  <2> HIDE DEF r
  <2>3. Unlocked /\ envelope # NoSeed
    BY <1>2, <1>4, <1>7 DEF IInv, SessionInv
  <2>4. Knows(r)
    BY <1>1, <1>2, <1>4, <1>5, <1>7, <2>1, <2>3
    DEF Knows, AloneStages, Alones, RemoveStages, AboutCreate, AboutUnlock, AboutLock,
      AboutAdd, AboutRemove, AboutOpen, AboutSwitch, AboutRows, Alone, Opening
  <2> QED
    BY <1>1, <2>1, <2>2, <2>4, GoesOn DEF RemoveStages
<1> QED
  BY <1>6, <1>7

LEMMA SwitchReadsMapKeeps ==
  ASSUME IInv, NEW t \in Tasks, SwitchReadsMap(t)
  PROVE  IInv'
<1> USE DEF At
<1>1. PICK o \in Operations : /\ o = task[t] /\ Knows(o) /\ o.pc = "switch.map" /\ o.index \in Indexes
                              /\ accounts[o.index] # NoSeed
  BY HasIt DEF SwitchReadsMap, Knows, AboutSwitch
<1>2. /\ SessionMap \in Maps
      /\ Undisturbed /\ Unlocked => Fits(SessionMap, accounts)
      /\ SessionMap # NoMap <=> Unlocked
  BY <1>1, SessionMapIs, NoneOpens
<1>3. PICK phrase \in MaybeSeed :
         /\ phrase = PhraseFor(o.index, SessionMap)
         /\ phrase # NoSeed => Unlocked
         /\ Undisturbed /\ Unlocked => phrase = accounts[o.index]
  BY <1>1, <1>2, PhraseIsMaybe DEF Fits
<1> DEFINE r == IF phrase = NoSeed THEN [o EXCEPT !.pc = "switch.phrase"]
                ELSE [o EXCEPT !.pc = "switch.write", !.seed = phrase]
<1>4. /\ r \in Operations /\ r.kind = o.kind /\ r.index = o.index
      /\ r.pc = IF phrase = NoSeed THEN "switch.phrase" ELSE "switch.write"
      /\ phrase # NoSeed => r.seed = phrase
  BY <1>1 DEF Operations, Stages, AloneStages, Alones, RemoveStages
<1>5. Becomes(t, r) /\ UNCHANGED <<local, session, alarm, crashes, reopened>>
  BY <1>1, <1>3 DEF SwitchReadsMap, Goes
<1> HIDE DEF r
<1>6. Knows(r)
  BY <1>1, <1>3, <1>4
  DEF Knows, AloneStages, Alones, RemoveStages, AboutCreate, AboutUnlock, AboutLock,
    AboutAdd, AboutRemove, AboutOpen, AboutSwitch, AboutRows, Alone, Opening
<1> QED
  BY <1>1, <1>4, <1>5, <1>6, GoesOn DEF RemoveStages

\* The list is still what the operation read, so writing it back changes nothing.
LEMMA RenameListsKeeps ==
  ASSUME IInv, NEW t \in Tasks, RenameLists(t)
  PROVE  IInv'
<1>1. task[t].pc = "rename.list" /\ Knows(task[t])
  BY HasIt DEF RenameLists, At
<1>2. task[t].rows = accounts
  BY <1>1 DEF Knows, AboutRows
<1>3. Ends(t) /\ UNCHANGED <<local, session, alarm, crashes, reopened>>
  BY <1>2 DEF RenameLists, local
<1> QED
  BY <1>1, <1>3, EndsHere DEF RemoveStages

LEMMA TouchesKeeps ==
  ASSUME IInv, NEW t \in Tasks, Touches(t)
  PROVE  IInv'
<1>1. PICK o \in Operations : o = task[t] /\ Knows(o) /\ o.pc = "touch"
  BY HasIt DEF Touches, At
<1>2. UNCHANGED <<local, session, alarm, crashes, reopened>>
  BY DEF Touches
<1>3. CASE ~Unlocked
  BY <1>1, <1>2, <1>3, EndsHere DEF RemoveStages, Touches
<1>4. CASE Unlocked
  <2> DEFINE r == [o EXCEPT !.pc = "unschedule"]
  <2>1. r \in Operations /\ r.kind = o.kind /\ r.pc = "unschedule" /\ Becomes(t, r)
    BY <1>1, <1>4 DEF Operations, Stages, Touches, Goes
  <2> HIDE DEF r
  <2>2. Knows(r)
    BY <2>1
    DEF Knows, AloneStages, Alones, RemoveStages, AboutCreate, AboutUnlock, AboutLock,
      AboutAdd, AboutRemove, AboutOpen, AboutSwitch, AboutRows, Alone, Opening
  <2> QED
    BY <1>1, <1>2, <2>1, <2>2, GoesOn DEF RemoveStages
<1> QED
  BY <1>3, <1>4

LEMMA AlarmClearedKeeps ==
  ASSUME IInv, NEW t \in Tasks, AlarmCleared(t)
  PROVE  IInv'
<1>1. PICK o \in Operations : o = task[t] /\ Knows(o) /\ o.pc = "unschedule"
  BY HasIt DEF AlarmCleared, At
<1> DEFINE r == [o EXCEPT !.pc = "schedule"]
<1>2. r \in Operations /\ r.kind = o.kind /\ r.pc = "schedule" /\ Becomes(t, r)
  BY <1>1 DEF Operations, Stages, AlarmCleared, Goes
<1>3. UNCHANGED <<local, session, crashes, reopened>> /\ alarm' = FALSE
  BY DEF AlarmCleared
<1> HIDE DEF r
<1>4. Knows(r)
  BY <1>2
  DEF Knows, AloneStages, Alones, RemoveStages, AboutCreate, AboutUnlock, AboutLock,
    AboutAdd, AboutRemove, AboutOpen, AboutSwitch, AboutRows, Alone, Opening
<1>5. OneAlone'
  BY <1>1, <1>2, KindKept DEF IInv
<1> QED
  BY <1>1, <1>2, <1>3, <1>4, <1>5, ReadKeeps DEF RemoveStages

LEMMA AlarmSetKeeps ==
  ASSUME IInv, NEW t \in Tasks, AlarmSet(t)
  PROVE  IInv'
<1>1. task[t].pc = "schedule" /\ Becomes(t, Idle) /\ alarm' = TRUE /\ UNCHANGED <<local, session, crashes, reopened>>
  BY DEF AlarmSet, At, Ends
<1>2. Idle \in Operations /\ Knows(Idle)
  BY IdleIsAnOperation, IdleKnows
<1>3. OneAlone'
  BY <1>1, <1>2, KindKept DEF IInv
<1> QED
  BY <1>1, <1>2, <1>3, ReadKeeps DEF RemoveStages

LEMMA StartsKeeps ==
  ASSUME SideBySide, IInv, NEW t \in Tasks, Starts(t)
  PROVE  IInv'
<1>1. /\ task[t].pc = "idle" /\ UNCHANGED <<local, session, alarm, crashes, reopened>>
      /\ \A other \in Tasks : task[other].kind \in Beside \cup {"none"}
  BY DEF Starts, At
<1>2. PICK kind \in Kinds, seed \in MaybeSeed, i \in Indexes :
         /\ kind \notin Beside => \A other \in Tasks : task[other].pc = "idle"
         /\ kind \in {"create", "add"} <=> seed # NoSeed
         /\ kind \notin {"remove", "switch"} => i = 0
         /\ Becomes(t, [Idle EXCEPT !.kind = kind, !.pc = kind, !.seed = seed, !.index = i,
                                    !.password = kind \in {"create", "unlock"}])
  BY DEF Starts, At
<1> DEFINE r == [Idle EXCEPT !.kind = kind, !.pc = kind, !.seed = seed, !.index = i,
                             !.password = kind \in {"create", "unlock"}]
<1>3. r \in Operations /\ r.kind = kind /\ r.pc = kind /\ r.seed = seed /\ r.index = i
  <2>1. kind \in AllKinds /\ kind \in Stages /\ (kind \in {"create", "unlock"}) \in BOOLEAN
    BY <1>2 DEF Stages, AloneStages, Alones, SideBySide, AllKinds
  <2>2. PICK password \in BOOLEAN : password = (kind \in {"create", "unlock"})
    BY <2>1
  <2>3. PICK o \in Operations : o = Idle
    BY IdleIsAnOperation
  <2>4. r = [o EXCEPT !.kind = kind, !.pc = kind, !.seed = seed, !.index = i, !.password = password]
    BY <2>2, <2>3, Zenon
  <2> QED
    BY <1>2, <2>1, <2>4 DEF Operations
<1>4. Becomes(t, r)
  BY <1>2
<1> HIDE DEF r
<1>5. kind \in AllKinds /\ (kind \in Beside => kind \in Sharing)
  BY DEF SideBySide
<1>6. Knows(r)
  BY <1>2, <1>3, <1>5
  DEF Knows, AloneStages, Alones, RemoveStages, AboutCreate, AboutUnlock, AboutLock, AllKinds, Sharing,
    AboutAdd, AboutRemove, AboutOpen, AboutSwitch, AboutRows, Alone, Opening
<1>7. OneAlone'
  <2>1. \A u \in Tasks : task'[u] = IF u = t THEN r ELSE task[u]
    BY <1>3, <1>4, BecomesOne DEF IInv
  <2>2. \A u \in Tasks : ~ Alone(task[u])
    BY <1>1, <1>5 DEF SideBySide, Sharing, Alone, Alones
  <2>3. Alone(r) => \A u \in Tasks : task[u] = Idle
    <3>1. Alone(r) => kind \notin Beside
      BY <1>3, <1>5 DEF Sharing, Alone, Alones
    <3> QED
      BY <1>2, <3>1, HasIt DEF Knows
  <2> QED
    BY <2>1, <2>2, <2>3 DEF OneAlone
<1> QED
  BY <1>1, <1>3, <1>4, <1>5, <1>6, <1>7, ReadKeeps DEF RemoveStages, AllKinds, IInv

-----------------------------------------------------------------------------
(* Operations that write run alone *)

LEMMA OthersIdle ==
  ASSUME IInv, NEW t \in Tasks, Alone(task[t])
  PROVE  /\ \A u \in Tasks : u # t => task[u] = Idle
         /\ task[t].pc # "idle"
         /\ task[t].pc \notin {"unschedule", "schedule"} /\ Undisturbed /\ Unlocked => alarm
         /\ task[t].pc # "open" /\ Undisturbed /\ Unlocked => Fits(session.map, accounts)
<1>1. \A u \in Tasks : u # t => task[u] = Idle
  BY DEF IInv, OneAlone
<1>2. task[t].pc # "idle"
  BY HasIt, IdleIsAnOperation DEF Knows
<1>3. \A u \in Tasks : u # t => task[u].pc = "idle"
  BY <1>1, IdleIsAnOperation
<1> QED
  BY <1>1, <1>2, <1>3 DEF IInv, Timed, MapKept

LEMMA AloneKeeps ==
  ASSUME IInv, NEW t \in Tasks, Alone(task[t]),
         NEW r \in Operations, Becomes(t, r), r.kind = task[t].kind \/ r = Idle, Knows(r)',
         UNCHANGED crashes, reopened' \in BOOLEAN, alarm' \in BOOLEAN,
         StoreInv', SessionInv', SeedsApart',
         Undisturbed' /\ Unlocked' => alarm' \/ r.pc \in {"unschedule", "schedule"},
         Undisturbed' /\ Unlocked' /\ r.pc # "open" => Fits(session'.map, accounts'),
         Undisturbed' /\ Unlocked' /\ r.pc \notin {"open"} \cup RemoveStages =>
           accounts'[session'.active] = session'.phrase
  PROVE  IInv'
<1>1. \A u \in Tasks : task'[u] = IF u = t THEN r ELSE Idle
  BY BecomesOne, OthersIdle DEF IInv
<1>2. Knows(Idle)'
  BY IdleIsAnOperation DEF Knows, AloneStages, Alones, RemoveStages, AboutCreate, AboutUnlock, AboutLock, AboutAdd,
     AboutRemove, AboutOpen, AboutSwitch, AboutRows, Opening
<1>3. TasksInv'
  <2>1. ASSUME NEW u \in Tasks PROVE Knows(task[u])'
    <3>1. CASE u = t
      BY <1>1, <3>1
    <3>2. CASE u # t
      BY <1>1, <1>2, <3>2
    <3> QED
      BY <3>1, <3>2
  <2> QED
    BY <2>1, BecomesOne DEF TasksInv, IInv
<1>4. OneAlone'
  BY OthersIdle, KindKept DEF IInv
<1>5. Timed' /\ MapKept' /\ RowKept'
  BY <1>1 DEF Timed, MapKept, RowKept
<1> QED
  BY <1>3, <1>4, <1>5 DEF IInv

\* The session and the alarm stay.
LEMMA StoreKeeps ==
  ASSUME IInv, NEW t \in Tasks, Alone(task[t]), task[t].pc \notin {"unschedule", "schedule", "open"},
         NEW r \in Operations, Becomes(t, r), r.kind = task[t].kind \/ r = Idle, Knows(r)',
         UNCHANGED <<session, alarm, crashes, reopened>>, StoreInv', SeedsApart',
         Unlocked => envelope' # NoSeed /\ accounts' # NoRows,
         Undisturbed /\ Unlocked /\ r.pc # "open" => Fits(session.map, accounts'),
         Undisturbed /\ Unlocked => \/ r.pc \in {"open"} \cup RemoveStages
                                    \/ accounts'[session.active] = session.phrase
  PROVE  IInv'
<1>1. Unlocked' <=> Unlocked
  BY DEF Unlocked
<1>2. SessionInv'
  BY <1>1 DEF IInv, SessionInv
<1>3. alarm' \in BOOLEAN /\ reopened' \in BOOLEAN /\ (Undisturbed /\ Unlocked' => alarm')
  BY <1>1, OthersIdle DEF IInv
<1> QED
  BY <1>1, <1>2, <1>3, AloneKeeps

LEMMA CreateSealsKeeps ==
  ASSUME IInv, NEW t \in Tasks, CreateSeals(t)
  PROVE  IInv'
<1>1. PICK o \in Operations : /\ o = task[t] /\ Knows(o) /\ o.pc = "create.seal" /\ Alone(o)
                              /\ o.seed \in MaybeSeed
  BY HasIt DEF CreateSeals, At, Knows, AloneStages
<1>2. PICK r \in Operations : /\ Becomes(t, r) /\ r.kind = o.kind /\ r.pc = "create.list"
                              /\ r.seed = o.seed /\ r.index = o.index
  <2> DEFINE r == [o EXCEPT !.pc = "create.list"]
  <2>1. /\ r \in Operations /\ Becomes(t, r) /\ r.kind = o.kind /\ r.pc = "create.list"
        /\ r.seed = o.seed /\ r.index = o.index
    BY <1>1 DEF Operations, Stages, AloneStages, CreateSeals, Goes
  <2> HIDE DEF r
  <2> QED
    BY <2>1
<1>3. envelope' = o.seed /\ UNCHANGED <<extras, accounts, session, alarm, crashes, reopened>>
  BY <1>1 DEF CreateSeals
<1>4. o.seed # NoSeed /\ o.index = 0 /\ ~Unlocked /\ accounts = NoRows /\ extras = NoRows
  BY <1>1 DEF Knows, AboutCreate
<1>5. StoreInv' /\ SeedsApart'
  BY <1>1, <1>3, <1>4, RowsDiffer DEF IInv, StoreInv, SeedsApart, KeptApart
<1>6. Knows(r)'
  BY <1>1, <1>2, <1>3, <1>4
  DEF Knows, AloneStages, Alones, RemoveStages, AboutCreate, AboutUnlock, AboutLock,
    AboutAdd, AboutRemove, AboutOpen, AboutSwitch, AboutRows, Alone, Opening, Unlocked
<1> QED
  BY <1>1, <1>2, <1>3, <1>4, <1>5, <1>6, StoreKeeps

LEMMA CreateListsKeeps ==
  ASSUME IInv, NEW t \in Tasks, CreateLists(t)
  PROVE  IInv'
<1>1. PICK o \in Operations : /\ o = task[t] /\ Knows(o) /\ o.pc = "create.list" /\ Alone(o)
                              /\ o.seed \in MaybeSeed
  BY HasIt DEF CreateLists, At, Knows, AloneStages
<1>2. PICK map \in Maps : /\ map = MapOf(o.seed) /\ map.primary = o.seed
                          /\ \A i \in Indexes : map.rows[i] = IF i = 0 THEN o.seed ELSE NoSeed
                          /\ (o.seed # NoSeed => map # NoMap)
  BY <1>1, MapOfOne
<1>3. PICK r \in Operations : /\ Becomes(t, r) /\ r.kind = o.kind /\ r.pc = "open"
                              /\ r.seed = o.seed /\ r.index = o.index /\ r.map = map
  <2> DEFINE r == [o EXCEPT !.pc = "open", !.map = map]
  <2>1. /\ r \in Operations /\ Becomes(t, r) /\ r.kind = o.kind /\ r.pc = "open"
        /\ r.seed = o.seed /\ r.index = o.index /\ r.map = map
    BY <1>1, <1>2 DEF Operations, Stages, AloneStages, CreateLists
  <2> HIDE DEF r
  <2> QED
    BY <2>1
<1>4. UNCHANGED <<envelope, extras, session, alarm, crashes, reopened>>
      /\ accounts' = Only(0, o.seed)
  BY <1>1 DEF CreateLists
<1>5. accounts' \in Rows /\ \A i \in Indexes : accounts'[i] = IF i = 0 THEN o.seed ELSE NoSeed
  BY <1>1, <1>4, OnlyOne, ZeroIsAnIndex
<1>6. o.seed # NoSeed /\ o.index = 0 /\ ~Unlocked /\ accounts = NoRows /\ extras = NoRows /\ envelope = o.seed
  BY <1>1 DEF Knows, AboutCreate
<1>7. StoreInv' /\ SeedsApart'
  BY <1>1, <1>4, <1>5, <1>6, ZeroIsAnIndex DEF IInv, StoreInv, SeedsApart, KeptApart
<1>8. accounts' # NoRows /\ Fits(map, accounts')
  BY <1>2, <1>5, <1>6, RowsDiffer, ZeroIsAnIndex DEF Fits, Owned, PhraseFor
<1>9. Knows(r)'
  BY <1>1, <1>2, <1>3, <1>4, <1>5, <1>6, <1>8, ZeroIsAnIndex
  DEF Knows, AloneStages, Alones, RemoveStages, AboutCreate, AboutUnlock, AboutLock,
    AboutAdd, AboutRemove, AboutOpen, AboutSwitch, AboutRows, Alone, Opening
<1> QED
  BY <1>1, <1>3, <1>4, <1>6, <1>7, <1>9, StoreKeeps

LEMMA UnlockListsKeeps ==
  ASSUME IInv, NEW t \in Tasks, UnlockLists(t)
  PROVE  IInv'
<1>1. PICK o \in Operations : /\ o = task[t] /\ Knows(o) /\ o.pc = "unlock.list" /\ Alone(o)
                              /\ o.map \in Maps /\ o.map.primary \in MaybeSeed
  BY HasIt, MapTypes DEF UnlockLists, At, Knows, AloneStages
<1>2. /\ envelope # NoSeed /\ accounts = NoRows /\ Opened(o.map) /\ o.index = 0
      /\ envelope \in MaybeSeed /\ extras \in Rows /\ extras[0] = NoSeed
  BY <1>1 DEF Knows, AboutUnlock, IInv, StoreInv
<1>3. PICK seed \in MaybeSeed : seed = PhraseFor(0, o.map) /\ seed = envelope /\ o.map # NoMap
  BY <1>1, <1>2, PhraseIsMaybe, ZeroIsAnIndex DEF Opened, PhraseFor
<1>4. PICK r \in Operations : /\ Becomes(t, r) /\ r.kind = o.kind /\ r.pc = "open"
                              /\ r.seed = seed /\ r.index = o.index /\ r.map = o.map
  <2> DEFINE r == [o EXCEPT !.pc = "open", !.seed = seed]
  <2>1. /\ r \in Operations /\ Becomes(t, r) /\ r.kind = o.kind /\ r.pc = "open"
        /\ r.seed = seed /\ r.index = o.index /\ r.map = o.map
    BY <1>1, <1>3 DEF Operations, Stages, AloneStages, UnlockLists
  <2> HIDE DEF r
  <2> QED
    BY <2>1
<1>5. UNCHANGED <<envelope, extras, session, alarm, crashes, reopened>>
      /\ accounts' = Only(0, seed)
  BY <1>1, <1>2, <1>3 DEF UnlockLists, Opened
<1>6. accounts' \in Rows /\ \A i \in Indexes : accounts'[i] = IF i = 0 THEN seed ELSE NoSeed
  BY <1>5, OnlyOne, ZeroIsAnIndex
<1>7. StoreInv' /\ SeedsApart'
  BY <1>2, <1>3, <1>5, <1>6, ZeroIsAnIndex DEF StoreInv, SeedsApart, KeptApart
<1>8. accounts' # NoRows /\ Fits(o.map, accounts')
  BY <1>2, <1>3, <1>6, RowsDiffer, ZeroIsAnIndex DEF Fits, Owned, PhraseFor
<1>9. Knows(r)'
  BY <1>1, <1>2, <1>3, <1>4, <1>5, <1>6, <1>8, ZeroIsAnIndex
  DEF Knows, AloneStages, Alones, RemoveStages, AboutCreate, AboutUnlock, AboutLock,
    AboutAdd, AboutRemove, AboutOpen, AboutSwitch, AboutRows, Alone, Opening
<1>10. envelope' # NoSeed
  BY <1>2, <1>5
<1> QED
  BY <1>1, <1>4, <1>5, <1>7, <1>8, <1>9, <1>10, StoreKeeps

LEMMA ResetWipesKeeps ==
  ASSUME IInv, NEW t \in Tasks, ResetWipes(t)
  PROVE  IInv'
<1>1. task[t].pc = "wipe" /\ Alone(task[t]) /\ ~Unlocked
  BY HasIt DEF ResetWipes, At, Knows, AloneStages, AboutLock
<1>2. /\ envelope' = NoSeed /\ extras' = NoRows /\ accounts' = NoRows
      /\ Becomes(t, Idle) /\ UNCHANGED <<session, alarm, crashes, reopened>>
  BY DEF ResetWipes, Ends
<1>3. NoRows \in Rows /\ (\A i \in Indexes : NoRows[i] = NoSeed)
  BY ZeroIsAnIndex DEF NoRows, Rows
<1>4. StoreInv' /\ SeedsApart'
  BY <1>2, <1>3, ZeroIsAnIndex DEF StoreInv, SeedsApart, KeptApart
<1>5. Idle \in Operations /\ Knows(Idle)'
  BY IdleIsAnOperation DEF Knows, AloneStages, Alones, RemoveStages, AboutCreate, AboutUnlock, AboutLock, AboutAdd,
     AboutRemove, AboutOpen, AboutSwitch, AboutRows, Opening
<1> QED
  BY <1>1, <1>2, <1>4, <1>5, StoreKeeps

LEMMA AddSealsKeeps ==
  ASSUME IInv, NEW t \in Tasks, AddSeals(t)
  PROVE  IInv'
<1>1. PICK o \in Operations : /\ o = task[t] /\ Knows(o) /\ o.pc = "add.seal" /\ Alone(o)
                              /\ o.seed \in MaybeSeed /\ o.index \in Indexes
  BY HasIt DEF AddSeals, At, Knows, AloneStages
<1>2. PICK r \in Operations : /\ Becomes(t, r) /\ r.kind = o.kind /\ r.pc = "add.list"
                              /\ r.seed = o.seed /\ r.index = o.index /\ r.rows = o.rows
                              /\ r.map = o.map
  <2> DEFINE r == [o EXCEPT !.pc = "add.list"]
  <2>1. /\ r \in Operations /\ Becomes(t, r) /\ r.kind = o.kind /\ r.pc = "add.list"
        /\ r.seed = o.seed /\ r.index = o.index /\ r.rows = o.rows /\ r.map = o.map
    BY <1>1 DEF Operations, Stages, AloneStages, AddSeals, Goes
  <2> HIDE DEF r
  <2> QED
    BY <2>1
<1>3. /\ o.seed # NoSeed /\ Unlocked /\ o.rows = accounts /\ o.index # 0 /\ accounts[o.index] = NoSeed
      /\ o.extras = extras
      /\ Undisturbed => Fits(o.map, accounts) /\ \A i \in Indexes : accounts[i] # o.seed
  BY <1>1 DEF Knows, AboutAdd
<1>4. extras' = [extras EXCEPT ![o.index] = o.seed] /\ UNCHANGED <<envelope, accounts, session, alarm, crashes, reopened>>
  BY <1>1, <1>3 DEF AddSeals
<1>5. extras' \in Rows /\ \A i \in Indexes : extras'[i] = IF i = o.index THEN o.seed ELSE extras[i]
  BY <1>1, <1>4 DEF IInv, StoreInv, Rows
<1>6. envelope # NoSeed /\ accounts # NoRows
  BY <1>3 DEF IInv, SessionInv
<1>7. StoreInv' /\ SeedsApart'
  BY <1>1, <1>3, <1>4, <1>5, <1>6, ZeroIsAnIndex DEF IInv, StoreInv, SeedsApart, KeptApart
<1>8. Unlocked'
  BY <1>3, <1>4 DEF Unlocked
<1>9. Knows(r)'
  BY <1>1, <1>2, <1>3, <1>4, <1>5, <1>8
  DEF Knows, AloneStages, Alones, RemoveStages, AboutCreate, AboutUnlock, AboutLock,
    AboutAdd, AboutRemove, AboutOpen, AboutSwitch, AboutRows, Alone, Opening
<1>10. Undisturbed => Fits(session.map, accounts) /\ accounts[session.active] = session.phrase
  BY <1>1, <1>3, OthersIdle, IdleIsAnOperation DEF IInv, RowKept, RemoveStages
<1> QED
  BY <1>1, <1>2, <1>4, <1>6, <1>7, <1>9, <1>10, StoreKeeps

LEMMA AddListsKeeps ==
  ASSUME IInv, NEW t \in Tasks, AddLists(t)
  PROVE  IInv'
<1>1. PICK o \in Operations : /\ o = task[t] /\ Knows(o) /\ o.pc = "add.list" /\ Alone(o)
                              /\ o.seed \in MaybeSeed /\ o.index \in Indexes
                              /\ o.map \in Maps /\ o.map.rows \in Rows
  BY HasIt, MapTypes DEF AddLists, At, Knows, AloneStages
<1>2. PICK rows \in Rows : /\ rows = [o.map.rows EXCEPT ![o.index] = o.seed]
                           /\ \A i \in Indexes : rows[i] = IF i = o.index THEN o.seed ELSE o.map.rows[i]
  <2> DEFINE rows == [o.map.rows EXCEPT ![o.index] = o.seed]
  <2>1. rows \in Rows /\ \A i \in Indexes : rows[i] = IF i = o.index THEN o.seed ELSE o.map.rows[i]
    BY <1>1 DEF Rows
  <2> HIDE DEF rows
  <2> QED
    BY <2>1 DEF rows
<1>3. PICK map \in Maps : map = [o.map EXCEPT !.rows = rows] /\ map.rows = rows /\ map.primary = o.map.primary
  <2> DEFINE map == [o.map EXCEPT !.rows = rows]
  <2>1. map \in Maps /\ map.rows = rows /\ map.primary = o.map.primary
    BY <1>1, <1>2, MapRowsChange
  <2> HIDE DEF map
  <2> QED
    BY <2>1 DEF map
<1>4. PICK r \in Operations : /\ Becomes(t, r) /\ r.kind = o.kind /\ r.pc = "open"
                              /\ r.seed = o.seed /\ r.index = o.index /\ r.map = map
  <2> DEFINE r == [o EXCEPT !.pc = "open", !.map = map]
  <2>1. /\ r \in Operations /\ r.kind = o.kind /\ r.pc = "open"
        /\ r.seed = o.seed /\ r.index = o.index /\ r.map = map
    BY <1>1, <1>3 DEF Operations, Stages, AloneStages
  <2>2. Becomes(t, r)
    BY <1>1, <1>2, <1>3 DEF AddLists, Becomes, Operations, Maps
  <2> HIDE DEF r
  <2> QED
    BY <2>1, <2>2
<1>5. /\ o.seed # NoSeed /\ Unlocked /\ o.rows = accounts /\ o.index # 0 /\ accounts[o.index] = NoSeed
      /\ extras[o.index] = o.seed /\ ~reopened
      /\ Undisturbed => Fits(o.map, accounts) /\ \A i \in Indexes : accounts[i] # o.seed
  BY <1>1 DEF Knows, AboutAdd
<1>6. accounts' = [accounts EXCEPT ![o.index] = o.seed] /\ UNCHANGED <<envelope, extras, session, alarm, crashes, reopened>>
  BY <1>1, <1>5 DEF AddLists
<1>7. accounts' \in Rows /\ \A i \in Indexes : accounts'[i] = IF i = o.index THEN o.seed ELSE accounts[i]
  BY <1>1, <1>6 DEF IInv, StoreInv, Rows
<1>8. envelope # NoSeed /\ accounts' # NoRows /\ map # NoMap
  <2>1. map # NoMap
    BY <1>1, <1>2, <1>3, <1>5 DEF NoMap, NoRows
  <2> QED
    BY <1>1, <1>5, <1>7, <2>1, RowsDiffer DEF IInv, SessionInv
<1>9. StoreInv' /\ SeedsApart'
  BY <1>1, <1>5, <1>6, <1>7, <1>8, ZeroIsAnIndex DEF IInv, StoreInv, SeedsApart, KeptApart
<1>10. Undisturbed => Fits(map, accounts')
  BY <1>1, <1>2, <1>3, <1>5, <1>7, ZeroIsAnIndex DEF Fits, Owned, PhraseFor
<1>11. Knows(r)'
  BY <1>1, <1>4, <1>5, <1>6, <1>7, <1>8, <1>10
  DEF Knows, AloneStages, Alones, RemoveStages, AboutCreate, AboutUnlock, AboutLock,
    AboutAdd, AboutRemove, AboutOpen, AboutSwitch, AboutRows, Alone, Opening
<1>12. envelope' # NoSeed
  BY <1>6, <1>8
<1> QED
  BY <1>1, <1>4, <1>6, <1>8, <1>9, <1>11, <1>12, StoreKeeps

LEMMA RemoveListsKeeps ==
  ASSUME IInv, NEW t \in Tasks, RemoveLists(t)
  PROVE  IInv'
<1>1. PICK o \in Operations : /\ o = task[t] /\ Knows(o) /\ o.pc = "remove.list" /\ Alone(o)
                              /\ o.index \in Indexes
  BY HasIt DEF RemoveLists, At, Knows, AloneStages
<1>2. PICK r \in Operations : /\ Becomes(t, r) /\ r.kind = o.kind
                              /\ r.pc = IF o.index = 0 THEN "remove.map" ELSE "remove.extras"
                              /\ r.index = o.index /\ r.rows = o.rows
  <2> DEFINE r == [o EXCEPT !.pc = IF o.index = 0 THEN "remove.map" ELSE "remove.extras"]
  <2>1. /\ r \in Operations /\ Becomes(t, r) /\ r.kind = o.kind
        /\ r.pc = IF o.index = 0 THEN "remove.map" ELSE "remove.extras"
        /\ r.index = o.index /\ r.rows = o.rows
    BY <1>1 DEF Operations, Stages, AloneStages, RemoveStages, RemoveLists, Goes
  <2> HIDE DEF r
  <2> QED
    BY <2>1
<1>3. /\ o.rows = Without(accounts, o.index) /\ accounts[o.index] # NoSeed /\ o.rows # NoRows
      /\ accounts' = o.rows /\ UNCHANGED <<envelope, extras, session, alarm, crashes, reopened>>
  BY <1>1 DEF Knows, AboutRemove, RemoveLists
<1>4. accounts' \in Rows /\ \A i \in Indexes : accounts'[i] = IF i = o.index THEN NoSeed ELSE accounts[i]
  BY <1>1, <1>3, RowWithout DEF IInv, StoreInv
<1>5. envelope # NoSeed /\ accounts # NoRows
  BY <1>1, <1>3, RowsDiffer DEF IInv, StoreInv
<1>6. StoreInv' /\ SeedsApart'
  BY <1>1, <1>3, <1>4, <1>5, ZeroIsAnIndex DEF IInv, StoreInv, SeedsApart, KeptApart
<1>7. Undisturbed /\ Unlocked => Fits(session.map, accounts)
  BY <1>1, NoneOpens
<1>8. Undisturbed /\ Unlocked => Fits(session.map, accounts')
  BY <1>4, <1>7, ZeroIsAnIndex DEF Fits, Owned
<1>9. o.index = 0 => KeptApart' /\ (Undisturbed /\ Unlocked => Owned(session.map, accounts'))
  BY <1>1, <1>3, <1>4, <1>7, ZeroIsAnIndex DEF Fits, Owned, KeptApart, IInv, StoreInv
<1>10. Unlocked' <=> Unlocked
  BY <1>3 DEF Unlocked
<1>11. Knows(r)'
  BY <1>1, <1>2, <1>3, <1>4, <1>9, <1>10
  DEF Knows, AloneStages, Alones, RemoveStages, AboutCreate, AboutUnlock, AboutLock,
    AboutAdd, AboutRemove, AboutOpen, AboutSwitch, AboutRows, Alone, Opening
<1>12. envelope' # NoSeed /\ accounts' # NoRows /\ r.pc \in RemoveStages
  BY <1>2, <1>3, <1>5 DEF RemoveStages
<1> QED
  BY <1>1, <1>2, <1>3, <1>6, <1>8, <1>11, <1>12, StoreKeeps

LEMMA RemoveUnsealsKeeps ==
  ASSUME IInv, NEW t \in Tasks, RemoveUnseals(t)
  PROVE  IInv'
<1>1. PICK o \in Operations : /\ o = task[t] /\ Knows(o) /\ o.pc = "remove.unseal" /\ Alone(o)
                              /\ o.index \in Indexes
  BY HasIt DEF RemoveUnseals, At, Knows, AloneStages, RemoveStages
<1>2. PICK r \in Operations : /\ Becomes(t, r) /\ r.kind = o.kind /\ r.pc = "remove.map"
                              /\ r.index = o.index /\ r.rows = o.rows
  <2> DEFINE r == [o EXCEPT !.pc = "remove.map"]
  <2>1. /\ r \in Operations /\ Becomes(t, r) /\ r.kind = o.kind /\ r.pc = "remove.map"
        /\ r.index = o.index /\ r.rows = o.rows
    BY <1>1 DEF Operations, Stages, AloneStages, RemoveStages, RemoveUnseals, Goes
  <2> HIDE DEF r
  <2> QED
    BY <2>1
<1>3. /\ o.rows = accounts /\ accounts # NoRows /\ accounts[o.index] = NoSeed /\ o.index # 0
      /\ extras' = Without(extras, o.index) /\ UNCHANGED <<envelope, accounts, session, alarm, crashes, reopened>>
  BY <1>1 DEF Knows, AboutRemove, RemoveUnseals, RemoveStages
<1>4. extras' \in Rows /\ \A i \in Indexes : extras'[i] = IF i = o.index THEN NoSeed ELSE extras[i]
  BY <1>1, <1>3, RowWithout DEF IInv, StoreInv
<1>5. envelope # NoSeed
  BY <1>3 DEF IInv, StoreInv
<1>6. StoreInv' /\ SeedsApart'
  BY <1>1, <1>3, <1>4, <1>5, ZeroIsAnIndex DEF IInv, StoreInv, SeedsApart, KeptApart
<1>7. Undisturbed /\ Unlocked => Fits(session.map, accounts')
  BY <1>1, <1>3, NoneOpens
<1>8. Knows(r)'
  BY <1>1, <1>2, <1>3, <1>4
  DEF Knows, AloneStages, Alones, RemoveStages, AboutCreate, AboutUnlock, AboutLock,
    AboutAdd, AboutRemove, AboutOpen, AboutSwitch, AboutRows, Alone, Opening
<1>9. envelope' # NoSeed /\ accounts' # NoRows /\ r.pc \in RemoveStages
  BY <1>2, <1>3, <1>5 DEF RemoveStages
<1> QED
  BY <1>1, <1>2, <1>3, <1>6, <1>7, <1>8, <1>9, StoreKeeps

\* The first added phrase is that of the first account left, or of none.
LEMMA PromoteSealsKeeps ==
  ASSUME IInv, NEW t \in Tasks, PromoteSeals(t)
  PROVE  IInv'
<1>1. PICK o \in Operations : o = task[t] /\ Knows(o) /\ o.pc = "promote.seal" /\ Alone(o)
  BY HasIt DEF PromoteSeals, At, Knows, AloneStages, RemoveStages
<1>2. PICK r \in Operations : /\ Becomes(t, r) /\ r.kind = o.kind /\ r.pc = "promote.unseal"
                              /\ r.index = o.index /\ r.rows = o.rows /\ r.map = o.map /\ r.extras = o.extras
  <2> DEFINE r == [o EXCEPT !.pc = "promote.unseal"]
  <2>1. /\ r \in Operations /\ Becomes(t, r) /\ r.kind = o.kind /\ r.pc = "promote.unseal"
        /\ r.index = o.index /\ r.rows = o.rows /\ r.map = o.map /\ r.extras = o.extras
    BY <1>1 DEF Operations, Stages, AloneStages, RemoveStages, PromoteSeals, Goes
  <2> HIDE DEF r
  <2> QED
    BY <2>1
<1>3. /\ o.rows = accounts /\ accounts # NoRows /\ accounts[o.index] = NoSeed /\ o.index = 0
      /\ KeptApart /\ o.extras = extras /\ extras # NoRows
      /\ Undisturbed /\ Unlocked => Owned(o.map, accounts)
      /\ ~Unlocked => o.map = NoMap
  BY <1>1 DEF Knows, AboutRemove, RemoveStages
<1>4. /\ envelope' = extras[First(extras)] /\ UNCHANGED <<extras, accounts, session, alarm, crashes, reopened>>
  BY <1>1, <1>3 DEF PromoteSeals
<1>5. envelope' \in MaybeSeed /\ envelope' # NoSeed
  BY <1>3, <1>4, FirstIsListed DEF IInv, StoreInv, Rows
<1>6. \A i \in Indexes : i # 0 /\ accounts[i] # NoSeed => accounts[i] = extras[i]
  BY <1>3 DEF KeptApart
<1>7. StoreInv' /\ SeedsApart'
  BY <1>3, <1>4, <1>5, <1>6, ZeroIsAnIndex DEF IInv, StoreInv, SeedsApart, KeptApart
<1>8. Undisturbed /\ Unlocked => Fits(session.map, accounts')
  BY <1>1, <1>4, NoneOpens
<1>9. Unlocked' <=> Unlocked
  BY <1>4 DEF Unlocked
<1>10. Knows(r)'
  BY <1>1, <1>2, <1>3, <1>4, <1>6, <1>9
  DEF Knows, AloneStages, Alones, RemoveStages, AboutCreate, AboutUnlock, AboutLock,
    AboutAdd, AboutRemove, AboutOpen, AboutSwitch, AboutRows, Alone, Opening
<1>11. accounts' # NoRows /\ r.pc \in RemoveStages
  BY <1>2, <1>3, <1>4 DEF RemoveStages
<1> QED
  BY <1>1, <1>2, <1>4, <1>5, <1>7, <1>8, <1>10, <1>11, StoreKeeps

LEMMA PromoteUnsealsKeeps ==
  ASSUME IInv, NEW t \in Tasks, PromoteUnseals(t)
  PROVE  IInv'
<1>1. PICK o \in Operations : /\ o = task[t] /\ Knows(o) /\ o.pc = "promote.unseal" /\ Alone(o)
                              /\ o.map \in Maps /\ o.map.rows \in Rows /\ o.map.primary \in MaybeSeed
  BY HasIt, MapTypes DEF PromoteUnseals, At, Knows, AloneStages, RemoveStages
<1>2. /\ o.rows = accounts /\ accounts # NoRows /\ accounts[0] = NoSeed /\ o.index = 0
      /\ o.extras = extras /\ extras # NoRows
      /\ envelope = extras[First(extras)]
      /\ \A i \in Indexes : i # 0 /\ accounts[i] # NoSeed => accounts[i] = extras[i]
      /\ Undisturbed /\ Unlocked => Owned(o.map, accounts)
      /\ ~Unlocked => o.map = NoMap
  BY <1>1 DEF Knows, AboutRemove, RemoveStages
<1>3. PICK promoted \in Indexes : promoted = First(extras) /\ extras[promoted] # NoSeed
  BY <1>2, FirstIsListed DEF IInv, StoreInv
<1>4. PICK primary \in MaybeSeed :
         primary = IF o.map.rows[promoted] # NoSeed THEN o.map.rows[promoted] ELSE o.map.primary
  BY <1>1 DEF Rows
<1>5. PICK map \in Maps : /\ map = [o.map EXCEPT !.primary = primary]
                          /\ map.rows = o.map.rows /\ map.primary = primary
  <2> DEFINE map == [o.map EXCEPT !.primary = primary]
  <2>1. map \in Maps /\ map.rows = o.map.rows /\ map.primary = primary
    BY <1>1 DEF Maps
  <2> HIDE DEF map
  <2> QED
    BY <2>1 DEF map
<1>6. PICK r \in Operations : /\ Becomes(t, r) /\ r.kind = o.kind /\ r.pc = "remove.session"
                              /\ r.index = o.index /\ r.rows = o.rows /\ r.map = map
  <2> DEFINE r == [o EXCEPT !.pc = "remove.session", !.map = map]
  <2>1. /\ r \in Operations /\ r.kind = o.kind /\ r.pc = "remove.session"
        /\ r.index = o.index /\ r.rows = o.rows /\ r.map = map
    BY <1>1 DEF Operations, Stages, AloneStages, RemoveStages
  <2>2. Becomes(t, r)
    BY <1>1, <1>2, <1>3, <1>4, <1>5 DEF PromoteUnseals, Becomes, Operations, Maps
  <2> HIDE DEF r
  <2> QED
    BY <2>1, <2>2
<1>7. extras' = Without(extras, promoted) /\ UNCHANGED <<envelope, accounts, session, alarm, crashes, reopened>>
  BY <1>1, <1>2, <1>3 DEF PromoteUnseals
<1>8. extras' \in Rows /\ \A i \in Indexes : extras'[i] = IF i = promoted THEN NoSeed ELSE extras[i]
  BY <1>7, RowWithout DEF IInv, StoreInv
<1>9. StoreInv' /\ SeedsApart'
  BY <1>2, <1>3, <1>7, <1>8, ZeroIsAnIndex DEF IInv, StoreInv, SeedsApart, KeptApart
<1>10. Undisturbed /\ Unlocked => Fits(session.map, accounts')
  BY <1>1, <1>7, NoneOpens
<1>11. Undisturbed /\ Unlocked => Fits(map, accounts)
  BY <1>2, <1>5 DEF Fits, Owned, PhraseFor
<1>12. ~Unlocked => map = NoMap
  BY <1>1, <1>2, <1>4, <1>5 DEF NoMap, NoRows, Maps
<1>13. Unlocked' <=> Unlocked
  BY <1>7 DEF Unlocked
<1>14. Knows(r)'
  BY <1>1, <1>2, <1>6, <1>7, <1>11, <1>12, <1>13
  DEF Knows, AloneStages, Alones, RemoveStages, AboutCreate, AboutUnlock, AboutLock,
    AboutAdd, AboutRemove, AboutOpen, AboutSwitch, AboutRows, Alone, Opening
<1>15. envelope' # NoSeed /\ accounts' # NoRows /\ r.pc \in RemoveStages
  BY <1>2, <1>3, <1>6, <1>7 DEF RemoveStages
<1> QED
  BY <1>1, <1>6, <1>7, <1>9, <1>10, <1>14, <1>15, StoreKeeps

-----------------------------------------------------------------------------
(* The session and the alarm *)

LEMMA OpensKeeps ==
  ASSUME IInv, NEW t \in Tasks, Opens(t)
  PROVE  IInv'
<1>1. PICK o \in Operations : /\ o = task[t] /\ Knows(o) /\ o.pc = "open" /\ Alone(o)
                              /\ o.index \in Indexes /\ o.seed \in MaybeSeed /\ o.map \in Maps
                              /\ o.password \in BOOLEAN
  BY HasIt DEF Opens, At, Knows, AloneStages
<1>2. PICK r \in Operations : Becomes(t, r) /\ r.kind = o.kind /\ r.pc = "unschedule"
  <2> DEFINE r == [o EXCEPT !.pc = "unschedule"]
  <2>1. r \in Operations /\ Becomes(t, r) /\ r.kind = o.kind /\ r.pc = "unschedule"
    BY <1>1 DEF Operations, Stages, Opens, Goes
  <2> HIDE DEF r
  <2> QED
    BY <2>1
<1>3. /\ o.seed # NoSeed /\ o.map # NoMap /\ envelope # NoSeed /\ accounts # NoRows
      /\ Undisturbed \/ (Uninterrupted /\ Opening(o)) =>
           Fits(o.map, accounts) /\ o.seed = accounts[o.index]
      /\ o.password => ~reopened \/ Opening(o)
  BY <1>1 DEF Knows, AboutOpen
<1>4. PICK password \in BOOLEAN : password = (session.password \/ o.password)
  OBVIOUS
<1>5. session' = [phrase |-> o.seed, map |-> o.map, password |-> password, active |-> o.index]
  BY <1>1, <1>4, Zenon DEF Opens
<1>6. UNCHANGED <<envelope, extras, accounts, alarm, crashes>>
      /\ reopened' = (reopened /\ ~Opening(o))
  BY <1>1 DEF Opens, local, Opening
<1>7. Unlocked'
  BY <1>3, <1>5 DEF Unlocked
<1>8. SessionInv'
  BY <1>1, <1>3, <1>4, <1>5, <1>6, <1>7 DEF IInv, SessionInv
<1>9. StoreInv' /\ SeedsApart'
  BY <1>6 DEF IInv, StoreInv, SeedsApart, KeptApart
<1>10. Knows(r)'
  BY <1>2
  DEF Knows, AloneStages, Alones, RemoveStages, AboutCreate, AboutUnlock, AboutLock,
    AboutAdd, AboutRemove, AboutOpen, AboutSwitch, AboutRows, Alone, Opening
<1>11. Undisturbed' => Fits(session'.map, accounts') /\ accounts'[session'.active] = session'.phrase
  BY <1>3, <1>5, <1>6
<1>12. alarm' \in BOOLEAN /\ reopened' \in BOOLEAN
  BY <1>6 DEF IInv
<1> QED
  BY <1>1, <1>2, <1>6, <1>8, <1>9, <1>10, <1>11, <1>12, AloneKeeps

LEMMA LockRemovesKeeps ==
  ASSUME IInv, NEW t \in Tasks, LockRemoves(t)
  PROVE  IInv'
<1>1. PICK o \in Operations : o = task[t] /\ Knows(o) /\ o.pc \in {"lock", "reset"}
  BY HasIt DEF LockRemoves
<1>2. PICK r \in Operations : Becomes(t, r) /\ r.kind = o.kind /\ r.pc = "lock.alarm"
  <2> DEFINE r == [o EXCEPT !.pc = "lock.alarm"]
  <2>1. r \in Operations /\ Becomes(t, r) /\ r.kind = o.kind /\ r.pc = "lock.alarm"
    BY <1>1 DEF Operations, Stages, LockRemoves, Goes
  <2> HIDE DEF r
  <2> QED
    BY <2>1
<1>3. session' = Locked /\ UNCHANGED <<local, alarm, crashes, reopened>>
  BY DEF LockRemoves
<1>4. ~Unlocked' /\ SessionInv'
  BY <1>3, LockedIsLocked
<1>5. StoreInv' /\ SeedsApart'
  BY <1>3 DEF IInv, StoreInv, SeedsApart, KeptApart, local
<1>6. Knows(r)'
  BY <1>1, <1>2, <1>4
  DEF Knows, AloneStages, Alones, RemoveStages, AboutCreate, AboutUnlock, AboutLock,
    AboutAdd, AboutRemove, AboutOpen, AboutSwitch, AboutRows, Alone, Opening
<1>7. \A u \in Tasks : task'[u] = IF u = t THEN r ELSE task[u]
  BY <1>2, BecomesOne DEF IInv
<1>8. TasksInv'
  <2>1. ASSUME NEW u \in Tasks PROVE Knows(task[u])'
    <3>1. CASE u = t
      BY <1>6, <1>7, <3>1
    <3>2. CASE u # t
      <4>1. PICK q \in Operations : q = task[u] /\ Knows(q) /\ ~Alone(q)
        BY <1>1, <3>2, HasIt, IdleIsAnOperation DEF IInv, OneAlone
      <4>2. Knows(q)'
        BY <1>3, <1>4, <4>1, SharesStill
      <4> QED
        BY <1>7, <3>2, <4>1, <4>2
    <3> QED
      BY <3>1, <3>2
  <2> QED
    BY <1>2, <2>1, BecomesOne DEF TasksInv, IInv
<1>9. OneAlone'
  BY <1>1, <1>2, KindKept DEF IInv
<1>10. Timed' /\ MapKept' /\ RowKept'
  BY <1>4 DEF Timed, MapKept, RowKept
<1> QED
  BY <1>3, <1>4, <1>5, <1>8, <1>9, <1>10 DEF IInv

LEMMA LockClearsAlarmKeeps ==
  ASSUME IInv, NEW t \in Tasks, LockClearsAlarm(t)
  PROVE  IInv'
<1>1. PICK o \in Operations : /\ o = task[t] /\ Knows(o) /\ o.pc = "lock.alarm"
                              /\ (Undisturbed \/ Alone(o)) => ~Unlocked
  BY HasIt DEF LockClearsAlarm, At, Knows, AboutLock
<1>2. PICK r \in Operations : /\ Becomes(t, r)
                              /\ (r = Idle \/ (r.kind = o.kind /\ r.kind = "reset" /\ r.pc = "wipe"))
  <2> DEFINE r == IF o.kind = "reset" THEN [o EXCEPT !.pc = "wipe"] ELSE Idle
  <2>1. /\ r \in Operations /\ Becomes(t, r)
        /\ (r = Idle \/ (r.kind = o.kind /\ r.kind = "reset" /\ r.pc = "wipe"))
    BY <1>1, IdleIsAnOperation DEF Operations, Stages, AloneStages, LockClearsAlarm, Goes, Ends
  <2> HIDE DEF r
  <2> QED
    BY <2>1
<1>3. alarm' = FALSE /\ UNCHANGED <<local, session, crashes, reopened>>
  BY DEF LockClearsAlarm
<1>4. Knows(r)
  <2>1. CASE r = Idle
    BY <2>1, IdleKnows
  <2>2. CASE r.kind = o.kind /\ r.kind = "reset" /\ r.pc = "wipe"
    <3>1. Alone(o) /\ Alone(r)
      BY <2>2 DEF Alone, Alones
    <3> QED
      BY <1>1, <2>2, <3>1
      DEF Knows, AloneStages, Alones, RemoveStages, AboutCreate, AboutUnlock, AboutLock,
        AboutAdd, AboutRemove, AboutOpen, AboutSwitch, AboutRows, Opening
  <2> QED
    BY <1>2, <2>1, <2>2
<1>5. OneAlone'
  BY <1>1, <1>2, KindKept DEF IInv
<1> QED
  BY <1>1, <1>2, <1>3, <1>4, <1>5, ReadKeeps DEF RemoveStages

\* Row and phrase of the session change in one step, beside operations that share.
LEMMA SwitchWritesKeeps ==
  ASSUME IInv, NEW t \in Tasks, SwitchWrites(t)
  PROVE  IInv'
<1>1. PICK o \in Operations : /\ o = task[t] /\ Knows(o) /\ o.pc = "switch.write"
                              /\ o.index \in Indexes /\ o.seed \in MaybeSeed
  BY HasIt DEF SwitchWrites, At
<1>2. /\ o.seed # NoSeed /\ accounts[o.index] # NoSeed
      /\ Undisturbed => o.seed = accounts[o.index]
  BY <1>1 DEF Knows, AboutSwitch
<1>3. PICK r \in Operations : Becomes(t, r) /\ r.kind = o.kind /\ r.pc = "touch"
  <2> DEFINE r == [o EXCEPT !.pc = "touch"]
  <2>1. r \in Operations /\ Becomes(t, r) /\ r.kind = o.kind /\ r.pc = "touch"
    BY <1>1 DEF Operations, Stages, SwitchWrites, Goes
  <2> HIDE DEF r
  <2> QED
    BY <2>1
<1>4. /\ session' = [session EXCEPT !.active = o.index, !.phrase = o.seed]
      /\ UNCHANGED <<local, alarm, crashes>> /\ reopened' = (reopened \/ ~Unlocked)
  BY <1>1 DEF SwitchWrites
<1>5. /\ session' \in [phrase : MaybeSeed, map : Maps, password : BOOLEAN, active : Indexes]
      /\ session'.phrase = o.seed /\ session'.active = o.index
      /\ session'.map = session.map /\ session'.password = session.password
  BY <1>1, <1>4 DEF IInv, SessionInv
<1>6. Unlocked'
  BY <1>2, <1>5 DEF Unlocked
<1>7. SessionInv'
  <2>1. envelope # NoSeed /\ accounts # NoRows
    BY <1>1, <1>2, RowsDiffer DEF IInv, StoreInv
  <2> QED
    BY <1>4, <1>5, <1>6, <2>1 DEF IInv, SessionInv, local
<1>8. /\ StoreInv' /\ SeedsApart' /\ alarm' \in BOOLEAN
      /\ crashes' \in 0 .. Crashes /\ reopened' \in BOOLEAN
  BY <1>4 DEF IInv, StoreInv, SeedsApart, KeptApart, local
<1>9. Knows(r) /\ ~Alone(r) /\ ~Alone(o)
  <2>1. ~Alone(o) 
    BY <1>1 DEF Knows, AboutSwitch
  <2> QED
    BY <1>3, <2>1
    DEF Knows, AloneStages, Alones, RemoveStages, AboutCreate, AboutUnlock, AboutLock,
      AboutAdd, AboutRemove, AboutOpen, AboutSwitch, AboutRows, Alone, Opening
<1>10. \A u \in Tasks : task'[u] = IF u = t THEN r ELSE task[u]
  BY <1>3, BecomesOne DEF IInv
<1>11. TasksInv'
  <2>1. ASSUME NEW u \in Tasks PROVE Knows(task[u])'
    <3>1. PICK q \in Operations : q = (IF u = t THEN r ELSE task[u]) /\ Knows(q) /\ ~Alone(q)
      BY <1>1, <1>9, HasIt, IdleIsAnOperation DEF IInv, OneAlone
    <3>2. CASE Unlocked
      <4>1. reopened' = reopened
        BY <1>4, <3>2 DEF IInv
      <4> QED
        BY <1>4, <1>5, <1>6, <1>10, <3>1, <3>2, <4>1, KnowsStill
    <3>3. CASE ~Unlocked
      BY <1>4, <1>10, <3>1, <3>3, SharesStill
    <3> QED
      BY <3>2, <3>3
  <2> QED
    BY <1>3, <2>1, BecomesOne DEF TasksInv, IInv
<1>12. OneAlone'
  BY <1>1, <1>3, KindKept DEF IInv
<1>13. Timed'
  BY <1>1, <1>4, <1>10 DEF IInv, Timed
<1>14. Undisturbed /\ Unlocked => Fits(session.map, accounts)
  BY <1>1, NoneOpens
<1>15. MapKept' /\ RowKept'
  BY <1>2, <1>4, <1>5, <1>14 DEF MapKept, RowKept, local
<1> QED
  BY <1>7, <1>8, <1>11, <1>12, <1>13, <1>15 DEF IInv

-----------------------------------------------------------------------------
(* The browser *)

\* After a stop no operation is under way.
LEMMA StopKeeps ==
  ASSUME IInv, task' = [t \in Tasks |-> Idle], crashes' = crashes + 1, crashes < Crashes,
         UNCHANGED <<local, reopened>>, SessionInv', alarm' \in BOOLEAN
  PROVE  IInv'
<1>1. crashes' \in 0 .. Crashes /\ crashes' # 0
  BY BoundsAssumption DEF IInv
<1>2. Knows(Idle)'
  BY IdleIsAnOperation DEF Knows, AloneStages, Alones, RemoveStages, AboutCreate, AboutUnlock, AboutLock, AboutAdd,
     AboutRemove, AboutOpen, AboutSwitch, AboutRows, Opening
<1>3. ASSUME NEW t \in Tasks PROVE Knows(task[t])'
  BY <1>2
<1>4. TasksInv' /\ OneAlone'
  BY <1>3, IdleIsAnOperation DEF TasksInv, OneAlone
<1>5. StoreInv'
  BY DEF IInv, StoreInv, KeptApart, local
<1>6. SeedsApart' /\ Timed' /\ MapKept' /\ RowKept'
  BY <1>1 DEF SeedsApart, Timed, MapKept, RowKept
<1> QED
  BY <1>1, <1>4, <1>5, <1>6 DEF IInv

LEMMA WorkerStopsKeeps ==
  ASSUME IInv, WorkerStops
  PROVE  IInv'
<1>1. SessionInv' /\ alarm' \in BOOLEAN
  BY DEF WorkerStops, IInv, SessionInv, Unlocked, local
<1> QED
  BY <1>1, StopKeeps DEF WorkerStops

LEMMA BrowserClosesKeeps ==
  ASSUME IInv, BrowserCloses
  PROVE  IInv'
<1>1. SessionInv' /\ alarm' \in BOOLEAN
  BY LockedIsLocked DEF BrowserCloses, IInv
<1> QED
  BY <1>1, StopKeeps DEF BrowserCloses

-----------------------------------------------------------------------------
(* The invariant *)

LEMMA InitKeeps ==
  ASSUME Init
  PROVE  IInv
<1>1. SessionInv /\ ~Unlocked
  <2>1. session = Locked
    BY DEF Init
  <2>2. /\ session \in [phrase : MaybeSeed, map : Maps, password : BOOLEAN, active : Indexes]
        /\ session.phrase = NoSeed /\ session.map = NoMap /\ ~session.password
    BY <2>1, ZeroIsAnIndex, NoMapIsAMap DEF Locked
  <2> QED
    BY <2>2 DEF SessionInv, Unlocked
<1>2. NoRows \in Rows /\ (\A i \in Indexes : NoRows[i] = NoSeed)
  BY ZeroIsAnIndex DEF NoRows, Rows
<1>3. StoreInv /\ SeedsApart
  BY <1>2, ZeroIsAnIndex DEF Init, StoreInv, SeedsApart, KeptApart
<1>4. \A t \in Tasks : task[t] = Idle
  BY DEF Init
<1>5. TasksInv /\ OneAlone
  BY <1>4, IdleIsAnOperation, IdleKnows DEF Init, TasksInv, OneAlone
<1>6. Timed /\ MapKept /\ RowKept
  BY <1>1 DEF Timed, MapKept, RowKept
<1>7. alarm \in BOOLEAN
  BY DEF Init
<1>8. crashes \in 0 .. Crashes
  BY BoundsAssumption DEF Init
<1>9. reopened \in BOOLEAN
  BY DEF Init
<1> QED
  BY <1>1, <1>3, <1>5, <1>6, <1>7, <1>8, <1>9 DEF IInv

LEMMA StutterKeeps ==
  ASSUME IInv, UNCHANGED vars
  PROVE  IInv'
<1>1. UNCHANGED <<local, session, alarm, task, crashes, reopened>> /\ (Unlocked' <=> Unlocked)
  BY DEF vars, Unlocked
<1>2. ASSUME NEW t \in Tasks PROVE Knows(task[t])'
  <2>1. PICK q \in Operations : q = task[t] /\ Knows(q)
    BY HasIt
  <2>2. Knows(q)'
    BY <1>1, <2>1, KnowsStill
  <2> QED
    BY <1>1, <2>1, <2>2
<1>3. TasksInv'
  BY <1>1, <1>2 DEF IInv, TasksInv
<1>4. StoreInv' /\ SessionInv' /\ SeedsApart'
  BY <1>1 DEF IInv, StoreInv, SessionInv, SeedsApart, KeptApart, local
<1>5. Timed' /\ MapKept' /\ RowKept' /\ OneAlone'
  BY <1>1 DEF IInv, Timed, MapKept, RowKept, OneAlone, local
<1> QED
  BY <1>1, <1>3, <1>4, <1>5 DEF IInv

LEMMA WalletKeeps ==
  ASSUME IInv, NEW t \in Tasks, Wallet(t)
  PROVE  IInv'
<1>1. CASE CreateChecks(t) \/ CreateSeals(t) \/ CreateLists(t)
  BY <1>1, CreateChecksKeeps, CreateSealsKeeps, CreateListsKeeps
<1>2. CASE UnlockOpensFirst(t) \/ UnlockOpensExtras(t) \/ UnlockReadsRows(t) \/ UnlockLists(t)
  BY <1>2, UnlockOpensFirstKeeps, UnlockOpensExtrasKeeps, UnlockReadsRowsKeeps, UnlockListsKeeps
<1>3. CASE LockRemoves(t) \/ LockClearsAlarm(t) \/ ResetWipes(t)
  BY <1>3, LockRemovesKeeps, LockClearsAlarmKeeps, ResetWipesKeeps
<1>4. CASE Opens(t) \/ AlarmCleared(t) \/ AlarmSet(t) \/ Touches(t)
  BY <1>4, OpensKeeps, AlarmClearedKeeps, AlarmSetKeeps, TouchesKeeps
<1> QED
  BY <1>1, <1>2, <1>3, <1>4 DEF Wallet

LEMMA AccountKeeps ==
  ASSUME IInv, NEW t \in Tasks, Account(t)
  PROVE  IInv'
<1>1. CASE AddChecks(t) \/ AddReadsMap(t) \/ AddReadsRows(t) \/ AddReadsExtras(t)
           \/ AddSeals(t) \/ AddLists(t)
  BY <1>1, AddChecksKeeps, AddReadsMapKeeps, AddReadsRowsKeeps, AddReadsExtrasKeeps,
     AddSealsKeeps, AddListsKeeps
<1>2. CASE RemoveChecks(t) \/ RemoveLists(t) \/ RemoveReadsExtras(t) \/ RemoveUnseals(t)
           \/ RemoveReadsMap(t) \/ RemoveReadsActive(t) \/ RemoveReadsPassword(t)
  BY <1>2, RemoveChecksKeeps, RemoveListsKeeps, RemoveReadsExtrasKeeps, RemoveUnsealsKeeps,
     RemoveReadsMapKeeps, RemoveReadsActiveKeeps, RemoveReadsPasswordKeeps
<1>3. CASE PromoteReads(t) \/ PromoteSeals(t) \/ PromoteUnseals(t)
  BY <1>3, PromoteReadsKeeps, PromoteSealsKeeps, PromoteUnsealsKeeps
<1>4. CASE SwitchReadsRow(t) \/ SwitchReadsMap(t) \/ SwitchReadsPhrase(t) \/ SwitchWrites(t)
  BY <1>4, SwitchReadsRowKeeps, SwitchReadsMapKeeps, SwitchReadsPhraseKeeps, SwitchWritesKeeps
<1>5. CASE RenameReads(t) \/ RenameLists(t)
  BY <1>5, RenameReadsKeeps, RenameListsKeeps
<1>6. CASE RevealReadsRows(t) \/ RevealReadsActive(t) \/ RevealOpens(t) \/ RevealEnds(t)
  BY <1>6, RevealReadsRowsKeeps, RevealReadsActiveKeeps, RevealOpensKeeps, RevealEndsKeeps
<1> QED
  BY <1>1, <1>2, <1>3, <1>4, <1>5, <1>6 DEF Account

LEMMA NextKeeps ==
  ASSUME SideBySide, IInv, [Next]_vars
  PROVE  IInv'
<1>1. ASSUME NEW t \in Tasks, Starts(t) \/ Wallet(t) \/ Account(t) PROVE IInv'
  BY <1>1, StartsKeeps, WalletKeeps, AccountKeeps
<1>2. CASE WorkerStops \/ BrowserCloses
  BY <1>2, WorkerStopsKeeps, BrowserClosesKeeps
<1>3. CASE UNCHANGED vars
  BY <1>3, StutterKeeps
<1> QED
  BY <1>1, <1>2, <1>3 DEF Next

LEMMA SessionInvariant ==
  ASSUME SideBySide
  PROVE  Spec => []IInv
<1>1. IInv /\ [Next]_vars => IInv'
  BY NextKeeps
<1>2. Init => IInv
  BY InitKeeps
<1> QED
  BY <1>1, <1>2, PTL DEF Spec

-----------------------------------------------------------------------------
(* What the wallet relies on *)

\* Storage, session and operations keep their types (lib/session.ts).
THEOREM SessionTypes ==
  ASSUME SideBySide
  PROVE  Spec => []TypeOK
<1>1. IInv => TypeOK
  BY HasIt DEF IInv, StoreInv, SessionInv, TypeOK
<1> QED
  BY <1>1, SessionInvariant, PTL

\* The order of the writes of createWallet, addAccountSeed and removeAccount: the phrase of
\* a listed account is sealed on disk between any two of them, wherever the worker stops.
THEOREM ListedStaysSealed ==
  ASSUME SideBySide
  PROVE  Spec => []ListedIsSealed
<1>1. IInv => ListedIsSealed
  BY DEF IInv, StoreInv, ListedIsSealed, Sealed, Listed
<1> QED
  BY <1>1, SessionInvariant, PTL

\* setActiveAccount: while switches, locks, renames, reveals and activity share the session
\* it signs for the active account, until a switch writes to it after a lock closed it.
THEOREM SwitchKeepsRow ==
  ASSUME SideBySide
  PROVE  Spec => []SwitchMatchesRow
<1>1. ASSUME IInv, NEW t \in Tasks, task[t].kind \in Beside \cup {"none"}
      PROVE  task[t].pc \notin {"open"} \cup RemoveStages
  BY <1>1, HasIt DEF Knows, AloneStages, Alone, Alones, SideBySide, Sharing
<1>2. IInv => SwitchMatchesRow
  BY <1>1 DEF IInv, RowKept, SwitchMatchesRow
<1> QED
  BY <1>2, SessionInvariant, PTL

\* unlockWithMnemonic, setActiveAccount and removeAccount: whatever locks, switches, renames
\* and activity ran side by side, at rest the session holds the phrase of the account it says
\* is active, as long as no switch wrote to it after a lock closed it.
THEOREM SessionKeepsRow ==
  ASSUME SideBySide
  PROVE  Spec => []SessionMatchesRow
<1>1. ASSUME IInv, Undisturbed, Resting, Unlocked
      PROVE  accounts[session.active] = session.phrase /\ session.active \in Indexes
  BY <1>1 DEF IInv, RowKept, SessionInv, Resting, At, RemoveStages
<1>2. IInv => SessionMatchesRow
  BY <1>1 DEF SessionMatchesRow, Listed, Unlocked
<1> QED
  BY <1>2, SessionInvariant, PTL

\* scheduleAutoLock and lockWallet: whatever of these ran side by side, an unlocked wallet at
\* rest has its alarm, as long as no switch wrote to the session after a lock closed it.
THEOREM UnlockedStaysTimed ==
  ASSUME SideBySide
  PROVE  Spec => []UnlockedIsTimed
<1>1. IInv => UnlockedIsTimed
  BY DEF IInv, Timed, UnlockedIsTimed, Resting, At
<1> QED
  BY <1>1, SessionInvariant, PTL

\* addAccountSeed and createWallet: no recovery phrase is listed twice.
THEOREM SeedsStayApart ==
  ASSUME SideBySide
  PROVE  Spec => []NoSeedTwice
<1>1. IInv => NoSeedTwice
  BY DEF IInv, SeedsApart, NoSeedTwice, Listed
<1> QED
  BY <1>1, SessionInvariant, PTL

\* revealMnemonic: the words shown are those of the account they were asked for.
THEOREM RevealStaysOwn ==
  ASSUME SideBySide
  PROVE  Spec => []RevealShowsOwn
<1>1. IInv => RevealShowsOwn
  BY HasIt DEF Knows, AboutRows, RevealShowsOwn, Revealed, At
<1> QED
  BY <1>1, SessionInvariant, PTL
=============================================================================
