---------------------------- MODULE GrantsProofs ----------------------------
(***************************************************************************)
(* Theorems about Grants, for every set of sites and chains, every number   *)
(* of calls, every time to live and every number of worker stops.          *)
(*                                                                         *)
(* Shapes is inductive however resets fall; while no reset runs beside the  *)
(* calls, a call's copy of the store is the store (SameRead), which makes   *)
(* its write one change of the book.  Linked follows the reported changes   *)
(* from the pages to the store, and Timed the alarm along with them.        *)
(***************************************************************************)
EXTENDS Grants, SequenceTheorems, WellFoundedInduction, TLAPS

-----------------------------------------------------------------------------
(* The inductive invariant *)

Grantings == [chains : SUBSET Chains, expires : Times, handed : SUBSET Chains]
NotedIsGranted(grants) == \A s \in Sites : grants[s].handed \subseteq grants[s].chains

CallRecords ==
  [st : {"idle", "waiting", "read", "listed"}, kind : Kinds, site : Sites \cup {NoSite},
   chains : SUBSET Chains, read : Stores, sweeps : BOOLEAN]

ReportRecords == [before : Reports, after : Reports]

\* Of a call that has read the store it is known what it was asked; it is the
\* first in line.
Reading(c) ==
  /\ line # <<>> /\ line[1] = c
  /\ Asked(call[c].kind, call[c].site, call[c].chains)
  /\ NotedIsGranted(call[c].read)
Shapes == TypeOK /\ \A c \in Calls : call[c].st = "read" => Reading(c)

\* The store is still as the call read it.
SameRead == \A c \in Calls : call[c].st = "read" => call[c].read = store

LEMMA NoGrantType ==
  /\ Stores = [Sites -> Grantings] /\ NoGrant \in Grantings
  /\ NoGrants \in Stores /\ NotedIsGranted(NoGrants)
BY TimeAssumption
DEF Stores, NoGrant, NoGrants, Book!NoGrant, Book!NoGrants, Grantings, Times, NotedIsGranted

LEMMA NoCallType ==
  /\ NoCall \in CallRecords /\ Sweep \in CallRecords /\ Listed \in CallRecords
  /\ NoCall.st = "idle" /\ Sweep.st = "waiting" /\ Listed.st = "listed"
  /\ NoCall.sweeps = FALSE /\ Sweep.sweeps = TRUE /\ Listed.sweeps = TRUE
<1>1. NoCall \in CallRecords /\ NoCall.st = "idle" /\ NoCall.sweeps = FALSE
  BY NoGrantType DEF NoCall, CallRecords, Kinds
<1>2. Sweep \in CallRecords /\ Sweep.st = "waiting" /\ Sweep.sweeps = TRUE
  BY <1>1 DEF Sweep, CallRecords
<1>3. Listed \in CallRecords /\ Listed.st = "listed" /\ Listed.sweeps = TRUE
  BY <1>1 DEF Listed, CallRecords
<1>. QED
  BY <1>1, <1>2, <1>3

LEMMA Typed ==
  ASSUME TypeOK
  PROVE  /\ store \in [Sites -> Grantings] /\ clock \in 0 .. MaxClock /\ clock \in Nat
         /\ call \in [Calls -> CallRecords] /\ line \in Seq(Calls) /\ NotedIsGranted(store)
BY NoGrantType, TimeAssumption DEF TypeOK, CallRecords, NotedIsGranted

\* What a call writes is a store.
LEMMA UpdatedType ==
  ASSUME Shapes, NEW c \in Calls, call[c].st = "read"
  PROVE  Updated(c) \in Stores /\ NotedIsGranted(Updated(c))
<1>. DEFINE read == call[c].read
            s == call[c].site
            cs == call[c].chains
<1>1. /\ read \in [Sites -> Grantings] /\ cs \in SUBSET Chains /\ call[c].kind \in Kinds
      /\ Asked(call[c].kind, s, cs) /\ NotedIsGranted(read) /\ s \in Sites \cup {NoSite}
      /\ clock \in 0 .. MaxClock
  BY Typed, NoGrantType DEF Shapes, CallRecords, Reading
<1>2. call[c].kind \notin {"revokeAll", "list"} => s \in Sites
  BY <1>1 DEF Asked
<1>. HIDE DEF read, s, cs
<1>3. CASE call[c].kind = "grant"
  <2>1. clock + Ttl \in Times
    BY <1>1, TimeAssumption DEF Times
  <2>2. Updated(c) = WithGrant(read, s, cs)
    BY <1>3 DEF Updated, read, s, cs
  <2>. DEFINE kept == IF Active(read[s]) THEN read[s] ELSE NoGrant
              new == [chains |-> kept.chains \cup cs, expires |-> clock + Ttl, handed |-> kept.handed]
  <2>3. kept \in Grantings /\ kept.handed \subseteq kept.chains
    BY <1>1, <1>2, <1>3, NoGrantType DEF NotedIsGranted, NoGrant, Book!NoGrant
  <2>4. new \in Grantings /\ new.handed \subseteq new.chains
    BY <1>1, <2>1, <2>3 DEF Grantings
  <2>5. Updated(c) = [read EXCEPT ![s] = new]
    BY <2>2 DEF WithGrant
  <2>. HIDE DEF new
  <2>. QED
    BY <1>1, <1>2, <1>3, <2>4, <2>5, NoGrantType DEF NotedIsGranted
<1>4. CASE call[c].kind = "touch"
  <2>1. Updated(c) = WithTouch(read, s, cs)
    BY <1>4 DEF Updated, read, s, cs
  <2>. DEFINE new == [read[s] EXCEPT !.handed = @ \cup (cs \cap read[s].chains)]
  <2>2. new \in Grantings /\ new.handed \subseteq new.chains
    BY <1>1, <1>2, <1>4 DEF Grantings, NotedIsGranted
  <2>3. Updated(c) = read \/ Updated(c) = [read EXCEPT ![s] = new]
    BY <1>1, <2>1 DEF WithTouch
  <2>. HIDE DEF new
  <2>. QED
    BY <1>1, <1>2, <1>4, <2>2, <2>3, NoGrantType DEF NotedIsGranted
<1>5. CASE call[c].kind = "revoke"
  BY <1>1, <1>2, <1>5, NoGrantType DEF Updated, NotedIsGranted, NoGrant, Book!NoGrant, read, s
<1>6. CASE call[c].kind = "revokeChain"
  <2>1. Updated(c) = WithoutChain(read, s, cs)
    BY <1>6 DEF Updated, read, s, cs
  <2>. DEFINE new == [chains |-> read[s].chains \ cs, expires |-> read[s].expires,
                      handed |-> read[s].handed \ cs]
  <2>2. new \in Grantings /\ new.handed \subseteq new.chains
    BY <1>1, <1>2, <1>6 DEF Grantings, NotedIsGranted
  <2>3. Updated(c) = [read EXCEPT ![s] = NoGrant] \/ Updated(c) = [read EXCEPT ![s] = new]
    BY <1>1, <2>1 DEF WithoutChain
  <2>. HIDE DEF new
  <2>4. NoGrant.handed \subseteq NoGrant.chains
    BY DEF NoGrant, Book!NoGrant
  <2>. QED
    BY <1>1, <1>2, <1>6, <2>2, <2>3, <2>4, NoGrantType DEF NotedIsGranted
<1>7. CASE call[c].kind = "revokeAll"
  BY <1>1, <1>7, NoGrantType DEF Updated
<1>8. CASE call[c].kind = "list"
  <2>1. Updated(c) = ActiveOnly(read)
    BY <1>8 DEF Updated, read
  <2>. QED
    BY <1>1, <2>1, NoGrantType DEF ActiveOnly, NotedIsGranted, NoGrant, Book!NoGrant
<1>. QED
  BY <1>1, <1>3, <1>4, <1>5, <1>6, <1>7, <1>8 DEF Kinds

LEMMA ReportedType ==
  ASSUME NEW grants \in Stores
  PROVE  /\ Reported(grants) \in Reports
         /\ \A s \in Sites : Reported(grants)[s].chains = grants[s].chains
                             /\ Reported(grants)[s].expires = grants[s].expires
BY DEF Stores, Reports, Reported

-----------------------------------------------------------------------------
(* When the alarm is due *)

\* A set of natural numbers has a least one.
LEMMA LeastTime ==
  ASSUME NEW times \in SUBSET Nat, times # {}
  PROVE  Min(times) \in times /\ \A t \in times : Min(times) <= t
<1>. DEFINE before == OpToRel(<, Nat)
<1>1. IsWellFoundedOn(before, Nat)
  BY NatLessThanWellFounded
<1>2. \A t, u \in Nat : t < u => <<t, u>> \in before
  BY DEF OpToRel
<1>. HIDE DEF before
<1>3. PICK t \in times : \A u \in times : ~ (<<u, t>> \in before)
  BY <1>1, WFMin
<1>4. \A u \in times : ~ (u < t)
  BY <1>2, <1>3, Zenon
<1>5. \A u \in times : t <= u
  BY <1>4
<1>. QED
  BY <1>5 DEF Min

LEMMA LaterOf ==
  ASSUME NEW a \in Nat, NEW b \in Nat
  PROVE  Max({a, b}) \in {a, b} /\ a <= Max({a, b}) /\ b <= Max({a, b})
<1>1. \E x \in {a, b} : \A y \in {a, b} : x >= y
  OBVIOUS
<1>2. /\ Max({a, b}) \in {a, b}
      /\ \A y \in {a, b} : Max({a, b}) >= y
  BY <1>1 DEF Max
<1>. QED
  BY <1>2

LEMMA DueTime ==
  ASSUME TypeOK, NEW grants \in Stores \cup Reports
  PROVE  /\ Due(grants) \in 0 .. NoAlarm
         /\ \A s \in Sites : grants[s].chains # {} => Due(grants) <= Max({grants[s].expires, clock + 1})
<1>1. clock \in 0 .. MaxClock /\ MaxClock \in Nat /\ Ttl \in Nat
  BY Typed, TimeAssumption
<1>2. \A s \in Sites : grants[s].expires \in Times
  BY DEF Stores, Reports
<1>3. Ends(grants) \subseteq Times /\ Ends(grants) \subseteq Nat
  BY <1>1, <1>2 DEF Ends, Times
<1>4. CASE Ends(grants) = {}
  <2>1. \A s \in Sites : grants[s].chains = {}
    BY <1>4 DEF Ends
  <2>. QED
    BY <1>1, <1>4, <2>1 DEF Due, NoAlarm
<1>5. CASE Ends(grants) # {}
  <2>. DEFINE first == Min(Ends(grants))
  <2>1. first \in Times /\ first \in Nat /\ \A t \in Ends(grants) : first <= t
    BY <1>3, <1>5, LeastTime
  <2>2. Due(grants) = Max({first, clock + 1})
    BY <1>5 DEF Due
  <2>. HIDE DEF first
  <2>3. Due(grants) \in {first, clock + 1}
    BY <1>1, <2>1, <2>2, LaterOf
  <2>4. Due(grants) \in 0 .. NoAlarm
    BY <1>1, <2>1, <2>3 DEF Times, NoAlarm
  <2>5. ASSUME NEW s \in Sites, grants[s].chains # {}
        PROVE  Due(grants) <= Max({grants[s].expires, clock + 1})
    <3>1. grants[s].expires \in Nat /\ first <= grants[s].expires
      BY <1>1, <1>2, <2>1, <2>5 DEF Ends, Times
    <3>2. /\ Max({grants[s].expires, clock + 1}) \in Nat
          /\ grants[s].expires <= Max({grants[s].expires, clock + 1})
          /\ clock + 1 <= Max({grants[s].expires, clock + 1})
      BY <1>1, <3>1, LaterOf
    <3>. QED
      BY <1>1, <2>1, <2>3, <3>1, <3>2
  <2>. QED
    BY <2>4, <2>5
<1>. QED
  BY <1>4, <1>5

-----------------------------------------------------------------------------
(* The invariant is inductive *)

LEMMA InitShapes == Init => Shapes /\ SameRead
<1>. SUFFICES ASSUME Init PROVE Shapes /\ SameRead
  OBVIOUS
<1>1. store = NoGrants /\ clock = 0 /\ awake = FALSE /\ line = <<>> /\ changes = <<>>
      /\ alarm = NoAlarm /\ stops = 0 /\ heard = [s \in Sites |-> {}] /\ call = [c \in Calls |-> NoCall]
  BY DEF Init, Book!Init, NoGrants
<1>2. TypeOK
  <2>1. store \in Stores /\ NotedIsGranted(store)
    BY <1>1, NoGrantType
  <2>2. call \in [Calls -> CallRecords]
    BY <1>1, NoCallType
  <2>3. clock \in 0 .. MaxClock /\ alarm \in 0 .. NoAlarm /\ stops \in 0 .. Stops
    BY <1>1, TimeAssumption, BoundsAssumption DEF NoAlarm
  <2>4. /\ awake \in BOOLEAN /\ line \in Seq(Calls) /\ changes \in Seq(ReportRecords)
        /\ heard \in [Sites -> SUBSET Chains]
    <3>1. line \in Seq(Calls) /\ changes \in Seq(ReportRecords) /\ heard \in [Sites -> SUBSET Chains]
      BY <1>1
    <3>2. awake \in BOOLEAN
      BY <1>1, Zenon
    <3>. QED
      BY <3>1, <3>2
  <2>. QED
    BY <1>1, <2>1, <2>2, <2>3, <2>4 DEF ReportRecords, TypeOK, NotedIsGranted, CallRecords
<1>3. \A c \in Calls : call[c].st # "read"
  BY <1>1, NoCallType
<1>. QED
  BY <1>2, <1>3 DEF Shapes, SameRead

\* A call that joins the line reads nothing, and the first stays the first.
LEMMA QueuedKeeps ==
  ASSUME Shapes, NEW c \in Calls, NEW asked \in CallRecords, asked.st # "read",
         Queued(c, asked), UNCHANGED <<store, clock, changes, heard, stops>>,
         alarm' \in 0 .. NoAlarm, awake' \in BOOLEAN
  PROVE  Shapes' /\ (SameRead => SameRead')
<1>1. TypeOK'
  BY Typed DEF ReportRecords, Shapes, TypeOK, CallRecords, Queued
<1>2. \A d \in Calls : call'[d].st = "read" => d # c /\ call'[d] = call[d]
  BY Typed DEF Shapes, Queued
<1>3. line # <<>> => line' # <<>> /\ line'[1] = line[1]
  BY Typed DEF Shapes, Queued
<1>4. \A d \in Calls : call'[d].st = "read" => Reading(d)'
  BY <1>2, <1>3 DEF Shapes, Reading, Asked, NotedIsGranted
<1>5. SameRead => SameRead'
  BY <1>2 DEF SameRead
<1>. QED
  BY <1>1, <1>4, <1>5 DEF Shapes

\* When the call that has read leaves, no other has.
LEMMA LeavesKeeps ==
  ASSUME Shapes, NEW c \in Calls, call[c].st = "read", Leaves(c),
         store' \in Stores, NotedIsGranted(store'), changes' \in Seq(ReportRecords),
         UNCHANGED <<clock, awake, heard, alarm, stops>>
  PROVE  Shapes' /\ SameRead'
<1>1. line # <<>> /\ line[1] = c
  BY DEF Shapes, Reading
<1>2. TypeOK'
  <2>1. line' \in Seq(Calls)
    BY <1>1, Typed DEF Shapes, Leaves
  <2>2. call' \in [Calls -> CallRecords]
    BY Typed, NoCallType DEF Shapes, Leaves
  <2>. QED
    BY <2>1, <2>2 DEF ReportRecords, Shapes, TypeOK, CallRecords, NotedIsGranted
<1>3. \A d \in Calls : call'[d].st # "read"
  <2>1. \A d \in Calls : d # c => call[d].st # "read" /\ call'[d] = call[d]
    BY <1>1, Typed DEF Shapes, Reading, Leaves
  <2>2. call'[c] \in {Listed, NoCall}
    BY Typed DEF Shapes, Leaves
  <2>. QED
    BY <2>1, <2>2, NoCallType
<1>. QED
  BY <1>2, <1>3 DEF Shapes, SameRead

\* What is saved is a store, and what is reported says so.
LEMMA SaveType ==
  ASSUME TypeOK, NEW new \in Stores, Save(new)
  PROVE  /\ store' = new /\ changes' = Append(changes, [before |-> Reported(store), after |-> Reported(new)])
         /\ [before |-> Reported(store), after |-> Reported(new)] \in ReportRecords
         /\ changes' \in Seq(ReportRecords)
<1>1. [before |-> Reported(store), after |-> Reported(new)] \in ReportRecords
  BY ReportedType DEF ReportRecords, TypeOK
<1>. QED
  BY <1>1 DEF Save, TypeOK, ReportRecords

LEMMA StepShapes ==
  ASSUME Shapes, [Next]_vars
  PROVE  Shapes' /\ (ResetBeside = FALSE /\ SameRead => SameRead')
<1>0. TypeOK
  BY DEF Shapes
<1>1. ASSUME NEW c \in Calls, Asks(c) PROVE Shapes' /\ (SameRead => SameRead')
  <2>. DEFINE asked == [NoCall EXCEPT !.st = "waiting"]
  <2>1. asked \in CallRecords /\ asked.st # "read"
    BY NoCallType DEF CallRecords
  <2>. HIDE DEF asked
  <2>2. Queued(c, asked) /\ UNCHANGED <<store, clock, awake, changes, heard, alarm, stops>>
    BY <1>1 DEF Asks, asked, follows
  <2>3. alarm' \in 0 .. NoAlarm /\ awake' \in BOOLEAN
    BY <1>0, <2>2 DEF ReportRecords, TypeOK
  <2>. QED
    BY <2>1, <2>2, <2>3, QueuedKeeps
<1>2. ASSUME NEW c \in Calls, Reads(c) PROVE Shapes' /\ (SameRead => SameRead')
  <2>1. PICK kind \in Kinds, s \in Sites \cup {NoSite}, cs \in SUBSET Chains :
          /\ Asked(kind, s, cs)
          /\ call' = [call EXCEPT ![c] = [st |-> "read", kind |-> kind, site |-> s, chains |-> cs,
                                         read |-> store, sweeps |-> call[c].sweeps]]
    BY <1>2 DEF Reads
  <2>2. /\ call' \in [Calls -> CallRecords]
        /\ call'[c].st = "read" /\ call'[c].kind = kind /\ call'[c].site = s
        /\ call'[c].chains = cs /\ call'[c].read = store
        /\ \A d \in Calls \ {c} : call'[d] = call[d]
    BY <1>0, <2>1, Typed, NoGrantType DEF CallRecords
  <2>3. UNCHANGED <<store, clock, awake, line, changes, heard, alarm, stops>> /\ line # <<>> /\ line[1] = c
    BY <1>2 DEF Reads, Runs, follows
  <2>4. TypeOK'
    BY <1>0, <2>2, <2>3 DEF ReportRecords, TypeOK, CallRecords
  <2>5. \A d \in Calls : call'[d].st = "read" => Reading(d)'
    <3>1. Reading(c)'
      BY <1>0, <2>1, <2>2, <2>3, Typed DEF Reading, Asked
    <3>2. \A d \in Calls \ {c} : call'[d].st = "read" => Reading(d)'
      BY <2>2, <2>3 DEF Shapes, Reading, Asked
    <3>. QED
      BY <3>1, <3>2
  <2>6. SameRead => SameRead'
    BY <2>2, <2>3 DEF SameRead
  <2>. QED
    BY <2>4, <2>5, <2>6 DEF Shapes
<1>3. ASSUME NEW c \in Calls, Writes(c) PROVE Shapes' /\ SameRead'
  <2>1. call[c].st = "read" /\ Save(Updated(c)) /\ Leaves(c)
        /\ UNCHANGED <<clock, awake, heard, alarm, stops>>
    BY <1>3 DEF Writes, follows
  <2>2. Updated(c) \in Stores /\ NotedIsGranted(Updated(c))
    BY <2>1, UpdatedType
  <2>3. store' = Updated(c) /\ changes' \in Seq(ReportRecords)
    BY <1>0, <2>1, <2>2, SaveType
  <2>. QED
    BY <2>1, <2>2, <2>3, LeavesKeeps
<1>4. ASSUME NEW c \in Calls, Returns(c) PROVE Shapes' /\ SameRead'
  <2>1. call[c].st = "read" /\ Leaves(c)
        /\ UNCHANGED <<store, clock, awake, changes, heard, alarm, stops>>
    BY <1>4 DEF Returns, follows
  <2>2. store' \in Stores /\ NotedIsGranted(store') /\ changes' \in Seq(ReportRecords)
    BY <1>0, <2>1 DEF ReportRecords, TypeOK, NotedIsGranted
  <2>. QED
    BY <2>1, <2>2, LeavesKeeps
<1>5. ASSUME NEW c \in Calls, AlarmFires(c) \/ WorkerStarts(c) PROVE Shapes' /\ (SameRead => SameRead')
  <2>1. Queued(c, Sweep) /\ UNCHANGED <<store, clock, changes, heard, stops>>
    BY <1>5 DEF AlarmFires, WorkerStarts, follows
  <2>2. alarm' \in 0 .. NoAlarm /\ awake' \in BOOLEAN
    <3>1. (alarm' = NoAlarm /\ awake' = awake) \/ (alarm' = alarm /\ awake' = TRUE)
      BY <1>5 DEF AlarmFires, WorkerStarts, follows
    <3>2. NoAlarm \in 0 .. NoAlarm
      BY TimeAssumption DEF NoAlarm
    <3>. QED
      BY <1>0, <3>1, <3>2 DEF ReportRecords, TypeOK
  <2>. QED
    BY <2>1, <2>2, QueuedKeeps, NoCallType
<1>6. ASSUME NEW c \in Calls, SweepSchedules(c) PROVE Shapes' /\ (SameRead => SameRead')
  <2>1. alarm' \in 0 .. NoAlarm
    BY <1>0, <1>6, DueTime DEF SweepSchedules, TypeOK
  <2>2. call' = [call EXCEPT ![c] = NoCall] /\ UNCHANGED <<store, clock, awake, line, changes, heard, stops>>
    BY <1>6 DEF SweepSchedules
  <2>3. TypeOK'
    <3>1. call' \in [Calls -> CallRecords]
      BY <1>0, <2>2, Typed, NoCallType
    <3>. QED
      BY <1>0, <2>1, <2>2, <3>1 DEF ReportRecords, TypeOK, CallRecords
  <2>4. \A d \in Calls : call'[d].st = "read" => call'[d] = call[d]
    BY <1>0, <2>2, Typed, NoCallType
  <2>. QED
    BY <2>2, <2>3, <2>4 DEF Shapes, SameRead, Reading, Asked
<1>7. CASE Reset
  <2>1. Save(NoGrants) /\ UNCHANGED <<clock, awake, call, line, heard, alarm, stops>>
        /\ (ResetBeside \/ line = <<>>)
    BY <1>7 DEF Reset, work, follows
  <2>2. store' = NoGrants /\ changes' \in Seq(ReportRecords)
    BY <1>0, <2>1, SaveType, NoGrantType
  <2>3. TypeOK'
    BY <1>0, <2>1, <2>2, NoGrantType DEF ReportRecords, TypeOK, NotedIsGranted
  <2>4. ResetBeside = FALSE => \A c \in Calls : call[c].st # "read"
    BY <2>1 DEF Shapes, Reading
  <2>. QED
    BY <2>1, <2>3, <2>4 DEF Shapes, SameRead, Reading, Asked
<1>8. CASE ChangeArrives
  <2>1. /\ changes # <<>> /\ changes' = Tail(changes) /\ alarm' = Due(Head(changes).after)
        /\ heard' = [s \in Sites |-> Hears(s, Head(changes))]
        /\ UNCHANGED <<store, clock, awake, call, line, stops>>
    BY <1>8 DEF ChangeArrives, work
  <2>2. Head(changes) \in ReportRecords
        /\ changes' \in Seq(ReportRecords)
    <3>1. changes \in Seq(ReportRecords)
      BY <1>0 DEF TypeOK, ReportRecords
    <3>. QED
      BY <2>1, <3>1, HeadTailProperties
  <2>3. heard' \in [Sites -> SUBSET Chains]
    <3>1. \A s \in Sites : Hears(s, Head(changes)) \in SUBSET Chains
      BY <1>0, <2>2 DEF ReportRecords, TypeOK, Reports, Hears
    <3>. QED
      BY <2>1, <3>1
  <2>4. alarm' \in 0 .. NoAlarm
    BY <1>0, <2>1, <2>2, DueTime DEF ReportRecords
  <2>5. UNCHANGED <<store, clock, awake, call, line, stops>>
    BY <2>1
  <2>6. TypeOK'
    BY <1>0, <2>2, <2>3, <2>4, <2>5 DEF ReportRecords, TypeOK
  <2>. QED
    BY <2>5, <2>6 DEF Shapes, SameRead, Reading, Asked
<1>9. CASE Ticks
  <2>1. clock' \in 0 .. MaxClock /\ UNCHANGED <<store, awake, call, line, changes, heard, alarm, stops>>
    BY <1>0, <1>9, TimeAssumption DEF Ticks, work, follows, TypeOK
  <2>2. TypeOK'
    BY <1>0, <2>1 DEF ReportRecords, TypeOK
  <2>. QED
    BY <2>1, <2>2 DEF Shapes, SameRead, Reading, Asked
<1>10. CASE WorkerStops
  <2>1. /\ call' = [c \in Calls |-> NoCall] /\ line' = <<>> /\ awake' = FALSE /\ stops' \in 0 .. Stops
        /\ UNCHANGED <<store, clock, changes, heard, alarm>>
    BY <1>0, <1>10, BoundsAssumption DEF WorkerStops, follows, TypeOK
  <2>2. call' \in [Calls -> CallRecords] /\ line' \in Seq(Calls)
    BY <2>1, NoCallType
  <2>3. TypeOK'
    BY <1>0, <2>1, <2>2 DEF ReportRecords, TypeOK, CallRecords
  <2>4. \A c \in Calls : call'[c].st # "read"
    BY <2>1, NoCallType
  <2>. QED
    BY <2>3, <2>4 DEF Shapes, SameRead
<1>11. CASE UNCHANGED vars
  <2>1. TypeOK'
    BY <1>0, <1>11 DEF vars, work, follows, TypeOK, ReportRecords
  <2>. QED
    BY <1>11, <2>1 DEF vars, work, Shapes, SameRead, Reading, Asked
<1>. QED
  BY <1>1, <1>2, <1>3, <1>4, <1>5, <1>6, <1>7, <1>8, <1>9, <1>10, <1>11 DEF Next

(* The values of the store, its calls and reports; an address is noted only of *)
(* a chain the site may use, wherever calls, resets and stops fall             *)
(* (lib/permissions.ts:43).                                                    *)
THEOREM GrantTypes == Spec => []TypeOK
<1>1. Shapes => TypeOK
  BY DEF Shapes
<1>. QED
  BY <1>1, InitShapes, StepShapes, PTL DEF Spec

-----------------------------------------------------------------------------
(* Grants implements GrantBook *)

\* What a call writes is one change of the book.
LEMMA WriteIsChange ==
  ASSUME Shapes, SameRead, NEW c \in Calls, Writes(c)
  PROVE  Book!Change \/ UNCHANGED store
<1>. DEFINE s == call[c].site
            cs == call[c].chains
<1>1. /\ store' = Updated(c) /\ call[c].read = store
      /\ Asked(call[c].kind, s, cs) /\ call[c].kind \in Kinds
      /\ cs \in SUBSET Chains /\ store \in [Sites -> Grantings]
      /\ call[c].kind \notin {"revokeAll", "list"} => s \in Sites
  <2>1. /\ store' = Updated(c) /\ call[c].read = store /\ Asked(call[c].kind, s, cs)
    BY DEF Writes, Save, SameRead, Shapes, Reading
  <2>2. /\ call[c] \in CallRecords /\ store \in [Sites -> Grantings]
    BY Typed DEF Shapes
  <2>. QED
    BY <2>1, <2>2 DEF CallRecords, Asked
<1>2. CASE call[c].kind = "grant"
  <2>1. Book!Grant(s, cs)
    BY <1>1, <1>2 DEF Updated, WithGrant, Active, Book!Grant, Book!Live, NoGrant
  <2>. QED
    BY <1>1, <1>2, <2>1 DEF Book!Change
<1>3. CASE call[c].kind = "touch" /\ Active(store[s])
  <2>1. store' = [store EXCEPT ![s].handed = @ \cup (cs \cap store[s].chains)]
    BY <1>1, <1>3 DEF Updated, WithTouch
  <2>2. CASE cs \cap store[s].chains = {}
    <3>1. store[s] \in Grantings
      BY <1>1, <1>3
    <3>2. [store[s] EXCEPT !.handed = @ \cup {}] = store[s]
      BY <3>1 DEF Grantings
    <3>3. store' = [store EXCEPT ![s] = store[s]]
      BY <2>1, <2>2, <3>2
    <3>. QED
      BY <1>1, <3>3
  <2>3. CASE cs \cap store[s].chains # {}
    <3>1. PICK ch \in Chains : cs \cap store[s].chains = {ch}
      BY <1>1, <1>3, <2>3 DEF Asked
    <3>2. Book!Hand(s, ch)
      BY <1>1, <1>3, <2>1, <3>1 DEF Book!Hand, Book!Live, Active
    <3>. QED
      BY <1>1, <1>3, <3>2 DEF Book!Change
  <2>. QED
    BY <2>2, <2>3
<1>4. CASE call[c].kind = "touch" /\ ~ Active(store[s])
  BY <1>1, <1>4 DEF Updated, WithTouch
<1>5. CASE call[c].kind = "revoke"
  BY <1>1, <1>5 DEF Updated, Book!Change, Book!Drop, NoGrant
<1>6. CASE call[c].kind = "revokeChain"
  <2>1. PICK ch \in Chains : cs = {ch}
    BY <1>1, <1>6 DEF Asked
  <2>2. Book!Take(s, ch)
    BY <1>1, <1>6, <2>1 DEF Updated, WithoutChain, Book!Take, NoGrant
  <2>. QED
    BY <1>1, <1>6, <2>2 DEF Book!Change
<1>7. CASE call[c].kind = "revokeAll"
  BY <1>1, <1>7 DEF Updated, Book!Change, Book!DropAll, NoGrants
<1>8. CASE call[c].kind = "list"
  BY <1>1, <1>8 DEF Updated, ActiveOnly, Active, Book!Change, Book!DropExpired, Book!Live, NoGrant
<1>. QED
  BY <1>1, <1>2, <1>3, <1>4, <1>5, <1>6, <1>7, <1>8 DEF Kinds

LEMMA StepRefines ==
  ASSUME Shapes, SameRead, [Next]_vars
  PROVE  [Book!Next]_<<store, clock>>
<1>1. ASSUME NEW c \in Calls, Writes(c) PROVE [Book!Next]_<<store, clock>>
  BY <1>1, WriteIsChange DEF Writes, Book!Next
<1>2. CASE Reset
  BY <1>2 DEF Reset, Save, NoGrants, Book!DropAll, Book!Change, Book!Next
<1>3. CASE Ticks
  BY <1>3 DEF Ticks, Book!Next
<1>4. ASSUME NEW c \in Calls,
             \/ Asks(c) \/ Reads(c) \/ Returns(c)
             \/ AlarmFires(c) \/ SweepSchedules(c) \/ WorkerStarts(c)
      PROVE  UNCHANGED <<store, clock>>
  BY <1>4 DEF Asks, Reads, Returns, AlarmFires, SweepSchedules, WorkerStarts
<1>5. CASE ChangeArrives \/ WorkerStops \/ UNCHANGED vars
  BY <1>5 DEF ChangeArrives, WorkerStops, vars
<1>. QED
  BY <1>1, <1>2, <1>3, <1>4, <1>5 DEF Next

\* However the calls of pages and of the user overlap, and wherever the worker
\* stops, the store changes by one call at a time, as long as no reset runs
\* beside them (lib/permissions.ts:104-114).
THEOREM OneByOne ==
  ASSUME ResetBeside = FALSE
  PROVE  Spec => WritesOneByOne
<1>1. Init => Book!Init
  BY DEF Init
<1>2. Spec => [](Shapes /\ SameRead)
  BY InitShapes, StepShapes, PTL DEF Spec
<1>. QED
  BY <1>1, <1>2, StepRefines, PTL DEF Spec, WritesOneByOne, Book!Spec

-----------------------------------------------------------------------------
(* Pages are told what is stored *)

\* Each change starts where the one before it ended: the first where the pages
\* are, the last ends where the store is.
Linked ==
  /\ \A i \in 1 .. Len(changes), s \in Sites :
       changes[i].before[s].chains =
         IF i = 1 THEN heard[s] ELSE changes[i - 1].after[s].chains
  /\ \A s \in Sites :
       store[s].chains =
         IF changes = <<>> THEN heard[s] ELSE changes[Len(changes)].after[s].chains
  /\ changes # <<>> => changes[Len(changes)].after = Reported(store)

\* An alarm that is set, or that no sweep is about to set, is in time for every grant.
InTime ==
  \A s \in Sites : store[s].chains # {} => alarm <= Max({store[s].expires, clock + 1})
NoSweepDue == alarm # NoAlarm \/ (awake /\ \A c \in Calls : ~ call[c].sweeps)
Timed == changes = <<>> /\ NoSweepDue => InTime

IdleSweepsNot == \A c \in Calls : call[c].st = "idle" => ~ call[c].sweeps

ViewInv == Shapes /\ Linked /\ Timed /\ IdleSweepsNot

\* A change that is saved starts where the store was.
LEMMA SaveLinks ==
  ASSUME Shapes, Linked, NEW new \in Stores, Save(new), UNCHANGED heard
  PROVE  Linked' /\ changes' # <<>>
<1>. DEFINE change == [before |-> Reported(store), after |-> Reported(new)]
<1>0. changes \in Seq(ReportRecords) /\ store \in Stores
  BY DEF Shapes, TypeOK, ReportRecords
<1>1. change \in ReportRecords /\ store' = new /\ changes' = Append(changes, change)
      /\ change.after = Reported(new)
      /\ \A s \in Sites : change.before[s].chains = store[s].chains
                          /\ change.after[s].chains = new[s].chains
  BY <1>0, SaveType, ReportedType DEF Shapes
<1>. HIDE DEF change
<1>2. /\ changes' \in Seq(ReportRecords) /\ Len(changes') = Len(changes) + 1
      /\ changes'[Len(changes')] = change /\ changes' # <<>>
      /\ \A i \in 1 .. Len(changes) : changes'[i] = changes[i]
      /\ changes # <<>> => Len(changes) # 0
      /\ Len(changes) \in Nat
  BY <1>0, <1>1
<1>3. ASSUME NEW i \in 1 .. Len(changes'), NEW s \in Sites
      PROVE  changes'[i].before[s].chains =
               IF i = 1 THEN heard'[s] ELSE changes'[i - 1].after[s].chains
  <2>1. CASE i \in 1 .. Len(changes)
    BY <1>2, <2>1 DEF Linked
  <2>2. CASE i = Len(changes) + 1
    <3>1. CASE changes = <<>>
      BY <1>1, <1>2, <2>2, <3>1 DEF Linked
    <3>2. CASE changes # <<>>
      BY <1>1, <1>2, <2>2, <3>2 DEF Linked
    <3>. QED
      BY <3>1, <3>2
  <2>. QED
    BY <1>2, <2>1, <2>2
<1>. QED
  BY <1>1, <1>2, <1>3 DEF Linked

\* A change that is reported takes the pages where it ends; after the last one the
\* alarm is set by what is stored.
LEMMA ArrivalLinks ==
  ASSUME Shapes, Linked, ChangeArrives
  PROVE  Linked' /\ (changes' = <<>> => alarm' = Due(Reported(store)))
<1>1. /\ changes # <<>> /\ changes' = Tail(changes)
      /\ heard' = [s \in Sites |-> Hears(s, Head(changes))]
      /\ alarm' = Due(Head(changes).after) /\ store' = store
      /\ changes \in Seq(ReportRecords)
  BY DEF ChangeArrives, Shapes, TypeOK, ReportRecords
<1>2. /\ Len(changes) \in Nat \ {0} /\ Head(changes) = changes[1]
      /\ changes' \in Seq(ReportRecords) /\ Len(changes') = Len(changes) - 1
      /\ \A i \in 1 .. Len(changes') : changes'[i] = changes[i + 1]
  <2>1. Len(changes) \in Nat \ {0} /\ Head(changes) = changes[1]
    BY <1>1
  <2>2. changes' \in Seq(ReportRecords) /\ Len(changes') = Len(changes) - 1
    BY <1>1, <2>1
  <2>3. \A i \in 1 .. Len(changes') : changes'[i] = changes[i + 1]
    BY <1>1, <2>1, <2>2
  <2>. QED
    BY <2>1, <2>2, <2>3
<1>3. changes' = <<>> <=> Len(changes) = 1
  <2>1. changes' = <<>> <=> Len(changes') = 0
    BY <1>2, EmptySeq
  <2>. QED
    BY <1>2, <2>1
<1>4. \A s \in Sites : heard'[s] = changes[1].after[s].chains
  BY <1>1, <1>2 DEF Linked, Hears
<1>5. \A i \in 1 .. Len(changes'), s \in Sites :
        changes'[i].before[s].chains =
          IF i = 1 THEN heard'[s] ELSE changes'[i - 1].after[s].chains
  BY <1>2, <1>4 DEF Linked
<1>6. \A s \in Sites :
        store'[s].chains =
          IF changes' = <<>> THEN heard'[s] ELSE changes'[Len(changes')].after[s].chains
  BY <1>1, <1>2, <1>3, <1>4 DEF Linked
<1>7. changes' # <<>> => changes'[Len(changes')].after = Reported(store)
  BY <1>1, <1>2, <1>3 DEF Linked
<1>8. changes' = <<>> => alarm' = Due(Reported(store))
  BY <1>1, <1>2, <1>3 DEF Linked
<1>. QED
  BY <1>1, <1>5, <1>6, <1>7, <1>8 DEF Linked, Reported

LEMMA DueInTime ==
  ASSUME TypeOK, UNCHANGED <<store, clock>>, alarm' = Due(store) \/ alarm' = Due(Reported(store))
  PROVE  InTime'
<1>1. store \in Stores /\ Reported(store) \in Reports
      /\ \A s \in Sites : Reported(store)[s].chains = store[s].chains
                          /\ Reported(store)[s].expires = store[s].expires
  BY ReportedType DEF TypeOK
<1>. QED
  BY <1>1, DueTime DEF InTime

LEMMA StepIdle ==
  ASSUME Shapes, IdleSweepsNot, [Next]_vars
  PROVE  IdleSweepsNot'
<1>0. call \in [Calls -> CallRecords] /\ \A c \in Calls : call[c].st = "read" => call[c].st # "idle"
  BY Typed DEF Shapes
<1>1. ASSUME NEW c \in Calls, NEW asked \in CallRecords, asked.st = "waiting", Queued(c, asked)
      PROVE  IdleSweepsNot'
  BY <1>0, <1>1 DEF Queued, IdleSweepsNot
<1>2. ASSUME NEW c \in Calls, Asks(c) PROVE IdleSweepsNot'
  <2>. DEFINE asked == [NoCall EXCEPT !.st = "waiting"]
  <2>1. asked \in CallRecords /\ asked.st = "waiting"
    BY NoCallType DEF CallRecords
  <2>2. Queued(c, asked)
    BY <1>2 DEF Asks
  <2>. HIDE DEF asked
  <2>. QED
    BY <1>1, <2>1, <2>2
<1>3. ASSUME NEW c \in Calls, Reads(c) PROVE IdleSweepsNot'
  <2>1. PICK kind \in Kinds, s \in Sites \cup {NoSite}, cs \in SUBSET Chains :
          call' = [call EXCEPT ![c] = [st |-> "read", kind |-> kind, site |-> s, chains |-> cs,
                                       read |-> store, sweeps |-> call[c].sweeps]]
    BY <1>3 DEF Reads
  <2>. QED
    BY <1>0, <2>1 DEF IdleSweepsNot
<1>4. ASSUME NEW c \in Calls, Leaves(c) PROVE IdleSweepsNot'
  <2>1. call'[c] \in {Listed, NoCall} /\ \A d \in Calls : d # c => call'[d] = call[d]
    BY <1>0, <1>4 DEF Leaves
  <2>. QED
    BY <2>1, NoCallType DEF IdleSweepsNot
<1>5. ASSUME NEW c \in Calls, SweepSchedules(c) PROVE IdleSweepsNot'
  BY <1>0, <1>5, NoCallType DEF SweepSchedules, IdleSweepsNot
<1>6. CASE WorkerStops
  BY <1>6, NoCallType DEF WorkerStops, IdleSweepsNot
<1>7. CASE UNCHANGED call
  BY <1>7 DEF IdleSweepsNot
<1>8. ASSUME NEW c \in Calls, AlarmFires(c) \/ WorkerStarts(c) PROVE IdleSweepsNot'
  BY <1>1, <1>8, NoCallType DEF AlarmFires, WorkerStarts
<1>9. CASE Reset \/ ChangeArrives \/ Ticks \/ UNCHANGED vars
  BY <1>7, <1>9 DEF Reset, ChangeArrives, Ticks, vars, work
<1>. QED
  BY <1>2, <1>3, <1>4, <1>5, <1>6, <1>8, <1>9 DEF Next, Writes, Returns

LEMMA StepView ==
  ASSUME ViewInv, [Next]_vars
  PROVE  ViewInv'
<1>0. Shapes /\ TypeOK /\ Linked /\ Timed /\ IdleSweepsNot /\ Shapes' /\ IdleSweepsNot'
  BY StepShapes, StepIdle DEF ViewInv, Shapes
<1>. SUFFICES Linked' /\ Timed'
  BY <1>0 DEF ViewInv
<1>1. ASSUME NEW c \in Calls, Writes(c) PROVE Linked' /\ Timed'
  <2>1. Updated(c) \in Stores
    BY <1>0, <1>1, UpdatedType DEF Writes
  <2>. QED
    BY <1>0, <1>1, <2>1, SaveLinks DEF Writes, follows, NoSweepDue, Timed
<1>2. CASE Reset
  BY <1>0, <1>2, NoGrantType, SaveLinks DEF Reset, follows, NoSweepDue, Timed
<1>3. CASE ChangeArrives
  <2>1. Linked' /\ (changes' = <<>> => alarm' = Due(Reported(store)))
    BY <1>0, <1>3, ArrivalLinks
  <2>2. UNCHANGED <<store, clock>>
    BY <1>3 DEF ChangeArrives
  <2>. QED
    BY <1>0, <2>1, <2>2, DueInTime DEF NoSweepDue, Timed
<1>4. ASSUME UNCHANGED <<store, changes, heard>> PROVE Linked'
  BY <1>0, <1>4 DEF Linked, Reported
<1>5. ASSUME NEW c \in Calls, Asks(c) \/ Reads(c) \/ Returns(c) PROVE Linked' /\ Timed'
  <2>1. UNCHANGED <<store, clock, awake, changes, heard, alarm>>
    BY <1>5 DEF Asks, Reads, Returns, follows
  <2>2. \A d \in Calls : call[d].sweeps => call'[d].sweeps
    <3>1. CASE Asks(c)
      <4>1. call[c].st = "idle" => ~ call[c].sweeps
        BY <1>0 DEF IdleSweepsNot
      <4>. QED
        BY <1>0, <3>1, <4>1, Typed DEF Asks, Queued
    <3>2. CASE Reads(c)
      <4>1. PICK kind \in Kinds, s \in Sites \cup {NoSite}, cs \in SUBSET Chains :
              call' = [call EXCEPT ![c] = [st |-> "read", kind |-> kind, site |-> s, chains |-> cs,
                                           read |-> store, sweeps |-> call[c].sweeps]]
        BY <3>2 DEF Reads
      <4>. QED
        BY <1>0, <4>1, Typed
    <3>3. CASE Returns(c)
      BY <1>0, <3>3, Typed, NoCallType DEF Returns, Leaves
    <3>. QED
      BY <1>5, <3>1, <3>2, <3>3
  <2>3. Timed'
    BY <1>0, <2>1, <2>2 DEF NoSweepDue, Timed, InTime
  <2>. QED
    BY <1>4, <2>1, <2>3
<1>6. ASSUME NEW c \in Calls, AlarmFires(c) \/ WorkerStarts(c) PROVE Linked' /\ Timed'
  <2>1. UNCHANGED <<store, clock, changes, heard>> /\ Queued(c, Sweep)
        /\ (alarm' = alarm \/ alarm' = NoAlarm)
    BY <1>6 DEF AlarmFires, WorkerStarts, follows
  <2>2. call'[c].sweeps
    BY <1>0, <2>1, Typed, NoCallType DEF Queued
  <2>3. Timed'
    BY <1>0, <2>1, <2>2 DEF NoSweepDue, Timed, InTime
  <2>. QED
    BY <1>4, <2>1, <2>3
<1>7. ASSUME NEW c \in Calls, SweepSchedules(c) PROVE Linked' /\ Timed'
  <2>1. UNCHANGED <<store, clock, changes, heard>> /\ alarm' = Due(store)
    BY <1>7 DEF SweepSchedules
  <2>. QED
    BY <1>0, <1>4, <2>1, DueInTime DEF NoSweepDue, Timed
<1>8. CASE Ticks
  <2>1. UNCHANGED <<store, changes, heard, alarm, awake, call>> /\ clock' = clock + 1
    BY <1>8 DEF Ticks, work, follows
  <2>2. InTime => InTime'
    <3>. SUFFICES ASSUME InTime, NEW s \in Sites, store[s].chains # {}
                  PROVE  alarm <= Max({store[s].expires, clock + 1 + 1})
      BY <2>1 DEF InTime
    <3>1. /\ store[s].expires \in Nat /\ clock \in Nat /\ clock + 1 \in Nat /\ clock + 1 + 1 \in Nat
          /\ alarm \in Nat
      BY <1>0, Typed, TimeAssumption DEF TypeOK, NoAlarm, Grantings, Times
    <3>2. alarm <= Max({store[s].expires, clock + 1})
      BY DEF InTime
    <3>3. /\ Max({store[s].expires, clock + 1}) \in {store[s].expires, clock + 1}
          /\ Max({store[s].expires, clock + 1 + 1}) \in Nat
          /\ store[s].expires <= Max({store[s].expires, clock + 1 + 1})
          /\ clock + 1 + 1 <= Max({store[s].expires, clock + 1 + 1})
      BY <3>1, LaterOf
    <3>. QED
      BY <3>1, <3>2, <3>3
  <2>3. Timed'
    BY <1>0, <2>1, <2>2 DEF NoSweepDue, Timed
  <2>. QED
    BY <1>4, <2>1, <2>3
<1>9. CASE WorkerStops
  <2>1. UNCHANGED <<store, clock, changes, heard, alarm>> /\ awake' = FALSE
    BY <1>9 DEF WorkerStops, follows
  <2>2. alarm # NoAlarm /\ changes = <<>> => InTime
    BY <1>0 DEF NoSweepDue, Timed
  <2>3. InTime => InTime'
    BY <2>1 DEF InTime
  <2>4. ~ awake' /\ changes' = changes /\ alarm' = alarm
    BY <2>1, Zenon
  <2>5. Timed'
    BY <2>2, <2>3, <2>4 DEF NoSweepDue, Timed
  <2>. QED
    BY <1>4, <2>1, <2>5
<1>10. CASE UNCHANGED vars
  BY <1>0, <1>4, <1>10 DEF vars, work, follows, NoSweepDue, Timed, InTime
<1>. QED
  BY <1>1, <1>2, <1>3, <1>5, <1>6, <1>7, <1>8, <1>9, <1>10 DEF Next

LEMMA InitView == Init => ViewInv
<1>. SUFFICES ASSUME Init PROVE ViewInv
  OBVIOUS
<1>1. changes = <<>> /\ awake = FALSE /\ alarm = NoAlarm /\ \A s \in Sites : heard[s] = {} /\ store[s].chains = {}
  BY DEF Init, Book!Init, Book!NoGrants, Book!NoGrant
<1>2. Linked
  <2>1. Len(changes) = 0
    BY <1>1
  <2>. HIDE <1>1
  <2>2. 1 .. Len(changes) = {}
    BY <2>1
  <2>. QED
    BY <1>1, <2>2 DEF Linked
<1>3. Timed
  <2>1. ~ awake /\ alarm = NoAlarm
    BY <1>1, Zenon
  <2>. QED
    BY <2>1 DEF NoSweepDue, Timed
<1>4. IdleSweepsNot
  BY NoCallType DEF Init, IdleSweepsNot
<1>. QED
  BY <1>2, <1>3, <1>4, InitShapes DEF ViewInv

(* When every write was reported, each page was told exactly the chains its site *)
(* may use, whatever resets and stops fell between (lib/provider-events.ts:41-57). *)
THEOREM Told == Spec => []ToldAsStored
<1>1. ViewInv => ToldAsStored
  BY DEF ViewInv, Linked, ToldAsStored
<1>. QED
  BY <1>1, InitView, StepView, PTL DEF Spec

(* "A grant that expires disconnects the site on time" (README.md:119): while a   *)
(* page believes itself connected, an alarm is set for the end of its grant, or   *)
(* for a second from now, also when a worker stopped with a sweep under way.      *)
THEOREM ExpiredInTime == Spec => []ExpiryIsTimed
<1>1. ViewInv => ExpiryIsTimed
  BY DEF ViewInv, Linked, NoSweepDue, Timed, InTime, Settled, ExpiryIsTimed
<1>. QED
  BY <1>1, InitView, StepView, PTL DEF Spec
=============================================================================
