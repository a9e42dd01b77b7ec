------------------------------- MODULE Grants -------------------------------
(***************************************************************************)
(* The permission store (lib/permissions.ts) and what follows from its      *)
(* changes in entrypoints/background.ts: what a site's page hears           *)
(* (lib/provider-events.ts) and the alarm of the next expiry.               *)
(*                                                                         *)
(* A call reads the store and writes it back; calls wait for each other in  *)
(* a queue the worker keeps in memory.  The browser reports changes in      *)
(* order, but as late as it likes.                                          *)
(***************************************************************************)
EXTENDS Naturals, FiniteSetsExt, Sequences

CONSTANTS Calls,      \* calls that may be under way at once
          Sites, Chains,
          Ttl,        \* permissions.defaultTtlMs
          MaxClock,   \* bound: time that passes
          MaxChanges, \* bound: changes the browser has yet to report
          Stops,      \* bound: how often the worker stops
          ResetBeside \* whether a reset runs beside calls of the store

ASSUME TimeAssumption == Ttl \in Nat \ {0} /\ MaxClock \in Nat
ASSUME BoundsAssumption == MaxChanges \in Nat /\ Stops \in Nat
ASSUME ResetAssumption == ResetBeside \in BOOLEAN

VARIABLES
  store,    \* storage.local: each site's grant
  clock,
  awake,    \* whether the worker runs
  call,     \* calls under way and the store each has read
  line,     \* pendingWrite: the calls that wait for each other, first to last
  changes,  \* storage changes still to be reported
  heard,    \* the chains the events told each site's page it may use
  alarm,    \* the expiry alarm
  stops     \* worker stops so far

Book == INSTANCE GrantBook
NoGrant == Book!NoGrant
NoGrants == Book!NoGrants

work == <<awake, call, line>>
follows == <<heard, alarm>>
vars == <<store, clock, work, changes, follows, stops>>

Times == 0 .. MaxClock + Ttl + 1
NoAlarm == MaxClock + Ttl + 2
Stores == [Sites -> [chains : SUBSET Chains, expires : Times, handed : SUBSET Chains]]
Reports == [Sites -> [chains : SUBSET Chains, expires : Times]]

NoSite == "none"
Kinds == {"grant", "touch", "revoke", "revokeChain", "revokeAll", "list"}
NoCall == [st |-> "idle", kind |-> "list", site |-> NoSite, chains |-> {},
           read |-> NoGrants, sweeps |-> FALSE]
Sweep == [NoCall EXCEPT !.st = "waiting", !.sweeps = TRUE]
Listed == [NoCall EXCEPT !.st = "listed", !.sweeps = TRUE]

\* isGrantActive, of a grant that was read.
Active(grant) == grant.chains # {} /\ grant.expires > clock

Init ==
  /\ Book!Init
  /\ awake = FALSE
  /\ call = [c \in Calls |-> NoCall]
  /\ line = <<>>
  /\ changes = <<>>
  /\ heard = [s \in Sites |-> {}]
  /\ alarm = NoAlarm
  /\ stops = 0

\* What a change says of each grant; the addresses handed out follow nothing.
Reported(grants) ==
  [s \in Sites |-> [chains |-> grants[s].chains, expires |-> grants[s].expires]]

\* storage.local.set, and the change the browser will report; Firefox also
\* reports one whose values are equal.
Save(new) ==
  /\ Len(changes) < MaxChanges
  /\ store' = new
  /\ changes' = Append(changes, [before |-> Reported(store), after |-> Reported(new)])

-----------------------------------------------------------------------------
(* serialized: a call reads when the one before it has ended *)

Queued(c, asked) ==
  /\ call[c].st = "idle"
  /\ call' = [call EXCEPT ![c] = asked]
  /\ line' = Append(line, c)

\* A page connects, reads a key or disconnects; the user revokes or lists.
Asks(c) ==
  /\ awake
  /\ Queued(c, [NoCall EXCEPT !.st = "waiting"])
  /\ UNCHANGED <<store, clock, awake, changes, follows, stops>>

\* What a call may be asked: one site and some chains, one chain, or none.
Asked(kind, s, cs) ==
  /\ kind = "grant" => cs # {}
  /\ kind = "touch" => cs = {} \/ \E ch \in Chains : cs = {ch}
  /\ kind = "revokeChain" => \E ch \in Chains : cs = {ch}
  /\ kind \in {"revoke", "revokeAll", "list"} => cs = {}
  /\ s = NoSite <=> kind \in {"revokeAll", "list"}

\* Calls that do not wait for each other.
RunsAtOnce(c) == call[c].st = "waiting"

Runs(c) == call[c].st = "waiting" /\ line # <<>> /\ line[1] = c

\* The call loads the store.  What it was asked mattered to nothing before.
Reads(c) ==
  /\ Runs(c)
  /\ \E kind \in Kinds, s \in Sites \cup {NoSite}, cs \in SUBSET Chains :
       /\ call[c].sweeps => kind = "list"
       /\ Asked(kind, s, cs)
       /\ call' = [call EXCEPT ![c] = [st |-> "read", kind |-> kind, site |-> s, chains |-> cs,
                                      read |-> store, sweeps |-> call[c].sweeps]]
  /\ UNCHANGED <<store, clock, awake, line, changes, follows, stops>>

\* grantPermission: an active grant keeps its chains, an expired one does not.
WithGrant(read, s, cs) ==
  LET kept == IF Active(read[s]) THEN read[s] ELSE NoGrant
  IN [read EXCEPT ![s] = [chains |-> kept.chains \cup cs, expires |-> clock + Ttl,
                          handed |-> kept.handed]]

\* touchPermission
WithTouch(read, s, cs) ==
  IF Active(read[s]) THEN [read EXCEPT ![s].handed = @ \cup (cs \cap read[s].chains)]
  ELSE read

\* revokeChain, leaving the address the chain handed out.
WithoutChainOnly(read, s, cs) ==
  [read EXCEPT ![s] = IF read[s].chains \subseteq cs THEN NoGrant
                      ELSE [read[s] EXCEPT !.chains = @ \ cs]]

\* revokeChain
WithoutChain(read, s, cs) ==
  [read EXCEPT ![s] = IF read[s].chains \subseteq cs THEN NoGrant
                      ELSE [chains |-> read[s].chains \ cs, expires |-> read[s].expires,
                            handed |-> read[s].handed \ cs]]

\* listActiveGrants
ActiveOnly(read) == [s \in Sites |-> IF Active(read[s]) THEN read[s] ELSE NoGrant]

Updated(c) ==
  LET read == call[c].read
      s == call[c].site
      cs == call[c].chains
  IN CASE call[c].kind = "grant" -> WithGrant(read, s, cs)
       [] call[c].kind = "touch" -> WithTouch(read, s, cs)
       [] call[c].kind = "revoke" -> [read EXCEPT ![s] = NoGrant]
       [] call[c].kind = "revokeChain" -> WithoutChain(read, s, cs)
       [] call[c].kind = "revokeAll" -> NoGrants
       [] call[c].kind = "list" -> ActiveOnly(read)

\* A grant and a revocation of all always write; the others write what they
\* changed, and a touch and a chain's revocation also a grant that stays as it was.
Saves(c) ==
  \/ call[c].kind \in {"grant", "revokeAll"}
  \/ call[c].kind = "touch" /\ Active(call[c].read[call[c].site])
  \/ call[c].kind = "revokeChain" /\ call[c].read[call[c].site] # NoGrant
  \/ Updated(c) # call[c].read

\* A touch within a minute of the last, of an address handed before, does not write.
Spares(c) ==
  /\ Updated(c) = call[c].read
  /\ call[c].kind = "touch" \/ ~ Saves(c)

\* The call is over, and the next in line may run.
Leaves(c) ==
  /\ call' = [call EXCEPT ![c] = IF call[c].sweeps THEN Listed ELSE NoCall]
  /\ line' = Tail(line)

Writes(c) ==
  /\ call[c].st = "read" /\ Saves(c)
  /\ Save(Updated(c))
  /\ Leaves(c)
  /\ UNCHANGED <<clock, awake, follows, stops>>

Returns(c) ==
  /\ call[c].st = "read" /\ Spares(c)
  /\ Leaves(c)
  /\ UNCHANGED <<store, clock, awake, changes, follows, stops>>

\* resetWallet removes the store without waiting in line.
Reset ==
  /\ awake
  /\ ResetBeside \/ line = <<>>
  /\ Save(NoGrants)
  /\ UNCHANGED <<clock, work, follows, stops>>

-----------------------------------------------------------------------------
(* What follows a change *)

Ends(grants) == {grants[s].expires : s \in {s \in Sites : grants[s].chains # {}}}

\* scheduleGrantExpiry by the last expiry.
DueLast(grants) ==
  IF Ends(grants) = {} THEN NoAlarm ELSE Max({Max(Ends(grants)), clock + 1})

\* scheduleGrantExpiry: never sooner than a second from now.
Due(grants) ==
  IF Ends(grants) = {} THEN NoAlarm ELSE Max({Min(Ends(grants)), clock + 1})

\* grantChangeEvents over the grants that are active.
HearsOfActive(s, change) ==
  LET was == IF Active(change.before[s]) THEN change.before[s].chains ELSE {}
      now == IF Active(change.after[s]) THEN change.after[s].chains ELSE {}
  IN IF was = now THEN heard[s] ELSE now

\* grantChangeEvents: a changed list is told, an empty one as disconnect.
Hears(s, change) ==
  IF change.before[s].chains = change.after[s].chains THEN heard[s]
  ELSE change.after[s].chains

\* storage.onChanged
ChangeArrives ==
  /\ awake
  /\ changes # <<>>
  /\ heard' = [s \in Sites |-> Hears(s, Head(changes))]
  /\ alarm' = Due(Head(changes).after)
  /\ changes' = Tail(changes)
  /\ UNCHANGED <<store, clock, work, stops>>

\* The alarm starts sweepExpiredGrants, which lists the active grants in line
\* with other calls.
AlarmFires(c) ==
  /\ awake
  /\ alarm <= clock
  /\ alarm' = NoAlarm
  /\ Queued(c, Sweep)
  /\ UNCHANGED <<store, clock, awake, changes, heard, stops>>

SweepSchedules(c) ==
  /\ call[c].st = "listed"
  /\ alarm' = Due(store)
  /\ call' = [call EXCEPT ![c] = NoCall]
  /\ UNCHANGED <<store, clock, awake, line, changes, heard, stops>>

-----------------------------------------------------------------------------
(* Time and the browser *)

\* A second is long: alarms, reports and a sweep under way do not last one.
Settled == changes = <<>> /\ \A c \in Calls : ~ call[c].sweeps
Ticks ==
  /\ clock < MaxClock
  /\ clock' = clock + 1
  /\ alarm > clock /\ Settled
  /\ UNCHANGED <<store, work, changes, follows, stops>>

\* A worker sweeps as it starts.
WorkerStarts(c) ==
  /\ ~ awake
  /\ awake' = TRUE
  /\ Queued(c, Sweep)
  /\ UNCHANGED <<store, clock, changes, follows, stops>>

\* Calls end with the worker; what it has written stays, and the browser still
\* reports it.
WorkerStops ==
  /\ awake /\ stops < Stops
  /\ awake' = FALSE
  /\ call' = [c \in Calls |-> NoCall]
  /\ line' = <<>>
  /\ stops' = stops + 1
  /\ UNCHANGED <<store, clock, changes, follows>>

Next ==
  \/ \E c \in Calls : Asks(c) \/ Reads(c) \/ Writes(c) \/ Returns(c)
  \/ \E c \in Calls : AlarmFires(c) \/ SweepSchedules(c) \/ WorkerStarts(c)
  \/ Reset \/ ChangeArrives \/ Ticks \/ WorkerStops

Spec == Init /\ [][Next]_vars

-----------------------------------------------------------------------------
(* Properties *)

\* An address is noted only of a chain the site may use (lib/permissions.ts:43).
TypeOK ==
  /\ store \in Stores /\ clock \in 0 .. MaxClock
  /\ \A s \in Sites : store[s].handed \subseteq store[s].chains
  /\ awake \in BOOLEAN
  /\ call \in [Calls -> [st : {"idle", "waiting", "read", "listed"}, kind : Kinds,
                         site : Sites \cup {NoSite}, chains : SUBSET Chains, read : Stores,
                         sweeps : BOOLEAN]]
  /\ line \in Seq(Calls)
  /\ changes \in Seq([before : Reports, after : Reports])
  /\ heard \in [Sites -> SUBSET Chains]
  /\ alarm \in 0 .. NoAlarm /\ stops \in 0 .. Stops

\* "Run read-modify-write updates one after another" (lib/permissions.ts:107):
\* however calls of pages and of the user overlap, and wherever the worker
\* stops, the store changes as a book would that takes one call at a time.
WritesOneByOne == Book!Spec

\* Once what was written is reported, a page was told exactly the chains its
\* site may use, also when the grant expired or was replaced after it had
\* (grantChangeEvents, lib/provider-events.ts:34-40).
ToldAsStored ==
  changes = <<>> => \A s \in Sites : heard[s] = store[s].chains

\* "A grant that expires disconnects the site on time" (README.md:119): as long as
\* a page believes itself connected, an alarm is set that ends it when the grant
\* does, or a second from now, whichever grants were added, renewed or taken and
\* whenever the worker stopped.  A sweep cut off with its worker is made up for by
\* the next worker.
ExpiryIsTimed ==
  Settled /\ (awake \/ alarm # NoAlarm) =>
    \A s \in Sites : heard[s] # {} => alarm <= Max({store[s].expires, clock + 1})

\* A reset wipes the grants (lib/session.ts:524): a chain comes back to a site
\* only by a grant to that site.
OnlyGrantsAdd ==
  [][\A s \in Sites :
       \/ store'[s].chains \subseteq store[s].chains
       \/ \E c \in Calls : call[c].st = "read" /\ call[c].kind = "grant" /\ call[c].site = s]_vars
=============================================================================
