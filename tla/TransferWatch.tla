---------------------------- MODULE TransferWatch ----------------------------
(***************************************************************************)
(* Following signed transfers (lib/pending-transfers.ts, transfer-watch.ts):*)
(* a screen lists a transfer when it is sent and takes it off when it sees  *)
(* it end; meanwhile an alarm wakes the worker, which tracks each listed    *)
(* transfer, shows one browser alert for its end, notes that it did, and    *)
(* takes it off too.  Both write the whole list back after reading it.      *)
(*                                                                         *)
(* The browser delivers answers and events in the order they happened, so a *)
(* read and the call that follows it at once are one step where only the    *)
(* worker's own calls could come between.                                   *)
(*                                                                         *)
(* Transfers are numbered as they are sent, and the list is sorted by that  *)
(* whenever it is read, so a list is the set of its rows.                   *)
(***************************************************************************)
EXTENDS Naturals, FiniteSets, FiniteSetsExt, Sequences, SequencesExt

CONSTANTS MaxTransfers, \* bound: transfers sent
          Screens,      \* extension pages that write the list
          MaxPasses,    \* passes over the list that could overlap
          MaxRecords,   \* transfers the list keeps
          MaxNotified,  \* told transfers that are remembered
          MaxStops      \* bound: worker stops

ASSUME WatchBoundsAssumption ==
  /\ {MaxTransfers, MaxPasses, MaxNotified, MaxStops} \subseteq Nat
  /\ MaxRecords \in Nat \ {0}

VARIABLES
  listed,    \* storage.local: transfers followed
  notified,  \* storage.local: transfers told, newest first
  watching,  \* the watch alarm is set
  route,     \* each transfer: unsent, moving, ended, or stranded and recoverable
  aged,      \* transfers started a day ago
  writing,   \* each screen: what it is writing to the list
  pass,      \* each pass: where it stands
  syncing,   \* syncTransferWatch calls under way, by what is next
  changed,   \* the list changed and the worker has yet to hear of it
  awake,     \* the worker runs
  watchStops,
  alerts,    \* history: alerts shown for each transfer
  cut,       \* history: transfers alerted by a pass that a stop cut short
  parted     \* history: transfers that may leave the list: seen to end by a
             \* screen, told, or pushed out by newer ones; all of them once
             \* two writers of the list overlapped

stores == <<listed, notified, watching>>
history == <<alerts, cut, parted>>
watchVars == <<stores, route, aged, writing, pass, syncing, changed, awake, watchStops, history>>

Transfers == 1 .. MaxTransfers
Passes == 1 .. MaxPasses

Untouched == [pc |-> "idle", about |-> {}, read |-> {}]
NotRunning == [pc |-> "idle", todo |-> {}, read |-> {}, notes |-> <<>>]

WatchInit ==
  /\ listed = {} /\ notified = <<>> /\ watching = FALSE
  /\ route = [h \in Transfers |-> "unsent"] /\ aged = {}
  /\ writing = [s \in Screens |-> Untouched]
  /\ pass = [k \in Passes |-> NotRunning]
  /\ syncing = {} /\ changed = FALSE /\ awake = TRUE /\ watchStops = 0
  /\ alerts = [h \in Transfers |-> 0] /\ cut = {} /\ parted = {}

\* listPendingTransfers: unreadable rows do not occur.
Young(h) == h \notin aged
Followed == {h \in listed : Young(h)}
\* The newest row, whichever it is.
DroppedNewest(rows, h) == IF rows = {} THEN rows ELSE rows \ {Max(rows)}

Dropped(rows, h) == rows \ {h}
\* The newest of the rows, as many as are kept.
Capped(rows) == {h \in rows : Cardinality({g \in rows : g > h}) < MaxRecords}
\* Told or not.
UntoldOrTold(h) == TRUE
Untold(h) == ~Contains(notified, h)
Watchable == {h \in Followed : Untold(h)}

-----------------------------------------------------------------------------
(* Writers of the list: a read, then a write of all of it *)

Midway == {s \in Screens : writing[s].pc # "idle"}
PassMidway == {k \in Passes : pass[k].pc = "drops"}
\* A read begins while another writer stands between its read and its write.
Overlap == Midway # {} \/ PassMidway # {}
Reads(gone) == parted' = IF Overlap THEN Transfers ELSE parted \cup gone

Writes(rows) ==
  /\ listed' = rows
  /\ changed' = (changed \/ rows # listed)

\* A screen's transfer is broadcast; savePendingTransfer reads the list.
Sends(s, h) ==
  /\ writing[s].pc = "idle" /\ route[h] = "unsent"
  /\ \A g \in Transfers : g < h => route[g] # "unsent"
  /\ route' = [route EXCEPT ![h] = "moving"]
  /\ writing' = [writing EXCEPT ![s] = [pc |-> "saves", about |-> {h}, read |-> Followed]]
  /\ Reads({})
  /\ UNCHANGED <<stores, aged, pass, syncing, changed, awake, watchStops, alerts, cut>>

\* A screen sees a transfer end, or the user dismisses it.
Forgets(s, h) ==
  /\ writing[s].pc = "idle" /\ route[h] \in {"ended", "stranded"}
  /\ writing' = [writing EXCEPT ![s] = [pc |-> "removes", about |-> {h}, read |-> Followed]]
  /\ Reads({h})
  /\ UNCHANGED <<stores, route, aged, pass, syncing, changed, awake, watchStops, alerts, cut>>

ScreenWrites(s) ==
  /\ writing[s].pc # "idle"
  /\ \E h \in writing[s].about :
       LET others == Dropped(writing[s].read, h)
           rows == IF writing[s].pc = "saves" THEN Capped({h} \cup others) ELSE others
       IN /\ Writes(rows)
          /\ parted' = parted \cup (others \ rows)
  /\ writing' = [writing EXCEPT ![s] = Untouched]
  /\ UNCHANGED <<notified, watching, route, aged, pass, syncing, awake, watchStops,
                 alerts, cut>>

\* The extension page closes before it has written: only the list loses.
ScreenCloses(s) ==
  /\ writing[s].pc # "idle"
  /\ parted' = parted \cup writing[s].about
  /\ writing' = [writing EXCEPT ![s] = Untouched]
  /\ UNCHANGED <<stores, route, aged, pass, syncing, changed, awake, watchStops,
                 alerts, cut>>

-----------------------------------------------------------------------------
(* The worker *)

PassIs(k, pc) == pass[k].pc = pc
PassGoes(k, pc, todo) == pass' = [pass EXCEPT ![k] = [NotRunning EXCEPT !.pc = pc, !.todo = todo]]
\* The transfer a pass is at: it takes them newest first.
Tracked(k) == Max(pass[k].todo)
\* On to the next transfer; after the last, the alarm is brought up to date.
PassMovesOn(k) ==
  LET rest == pass[k].todo \ {Tracked(k)}
  IN IF rest # {}
     THEN PassGoes(k, "tracks", rest) /\ UNCHANGED syncing
     ELSE PassGoes(k, "idle", {}) /\ syncing' = syncing \cup {"reads"}

\* Overlapping alarms share one pass.
Free(k) == \A other \in Passes : PassIs(other, "idle")
\* Of the passes that do not run, which one starts makes no difference.
NextPass(k) == PassIs(k, "idle") /\ \A other \in Passes : other < k => ~PassIs(other, "idle")

AlarmRings(k) ==
  /\ watching /\ NextPass(k) /\ Free(k)
  /\ awake' = TRUE
  /\ IF Watchable # {}
     THEN PassGoes(k, "tracks", Watchable) /\ syncing' = syncing \cup (IF awake THEN {} ELSE {"reads"})
     ELSE syncing' = syncing \cup {"reads"} /\ UNCHANGED pass
  /\ UNCHANGED <<stores, route, aged, writing, changed, watchStops, history>>

\* Reads are off, an endpoint is down, or the transfer still moves.
TrackFindsNothing(k) ==
  /\ PassIs(k, "tracks")
  /\ PassMovesOn(k)
  /\ UNCHANGED <<stores, route, aged, writing, changed, awake, watchStops, history>>

\* The transfer has ended: an alert is shown.  With alerts turned off the rest is
\* the same.
Alerts(k) ==
  LET h == Tracked(k)
  IN /\ PassIs(k, "tracks") /\ route[h] \in {"ended", "stranded"}
     /\ alerts' = [alerts EXCEPT ![h] = @ + 1]
     /\ parted' = parted \cup {h}
     /\ PassGoes(k, "notes", pass[k].todo)
     /\ UNCHANGED <<stores, route, aged, writing, syncing, changed, awake, watchStops, cut>>

NotesRead(k) ==
  /\ PassIs(k, "notes")
  /\ IF Untold(Tracked(k))
     THEN pass' = [pass EXCEPT ![k].pc = "marks", ![k].notes = notified]
     ELSE PassGoes(k, "noted", pass[k].todo)
  /\ UNCHANGED <<stores, route, aged, writing, syncing, changed, awake, watchStops, history>>

Marks(k) ==
  /\ PassIs(k, "marks")
  /\ LET rows == <<Tracked(k)>> \o pass[k].notes
     IN notified' = IF Len(rows) > MaxNotified THEN SubSeq(rows, 1, MaxNotified) ELSE rows
  /\ PassGoes(k, "noted", pass[k].todo)
  /\ UNCHANGED <<listed, watching, route, aged, writing, syncing, changed, awake, watchStops, history>>

\* A stranded swap stays listed: it is the way back to its recovery.
Keeps(k) ==
  /\ PassIs(k, "noted") /\ route[Tracked(k)] = "stranded"
  /\ PassMovesOn(k)
  /\ UNCHANGED <<stores, route, aged, writing, changed, awake, watchStops, history>>

DropReads(k) ==
  /\ PassIs(k, "noted") /\ route[Tracked(k)] = "ended"
  /\ pass' = [pass EXCEPT ![k].pc = "drops", ![k].read = Followed]
  /\ Reads({})
  /\ UNCHANGED <<stores, route, aged, writing, syncing, changed, awake, watchStops, alerts, cut>>

Drops(k) ==
  /\ PassIs(k, "drops")
  /\ Writes(Dropped(pass[k].read, Tracked(k)))
  /\ PassMovesOn(k)
  /\ UNCHANGED <<notified, watching, route, aged, writing, awake, watchStops, history>>

\* The worker hears that the list changed.
ChangeHeard ==
  /\ changed
  /\ changed' = FALSE /\ awake' = TRUE
  /\ syncing' = syncing \cup {"reads"}
  /\ UNCHANGED <<stores, route, aged, writing, pass, watchStops, history>>

\* syncTransferWatch: nothing to watch clears the alarm; else it is looked up.
SyncReads ==
  /\ "reads" \in syncing
  /\ IF Watchable = {}
     THEN watching' = FALSE /\ syncing' = syncing \ {"reads"}
     ELSE syncing' = (syncing \ {"reads"}) \cup {"gets"} /\ UNCHANGED watching
  /\ UNCHANGED <<listed, notified, route, aged, writing, pass, changed, awake, watchStops, history>>

SyncGets ==
  /\ "gets" \in syncing
  /\ syncing' = (syncing \ {"gets"}) \cup (IF watching THEN {} ELSE {"creates"})
  /\ UNCHANGED <<stores, route, aged, writing, pass, changed, awake, watchStops, history>>

SyncCreates ==
  /\ "creates" \in syncing
  /\ watching' = TRUE
  /\ syncing' = syncing \ {"creates"}
  /\ UNCHANGED <<listed, notified, route, aged, writing, pass, changed, awake, watchStops, history>>

\* The alarms and the storage outlive the worker; what it was doing does not.
WatchWorkerStops ==
  /\ awake /\ watchStops < MaxStops
  /\ watchStops' = watchStops + 1
  /\ awake' = FALSE /\ syncing' = {}
  /\ cut' = cut \cup {h \in Transfers : \E k \in Passes :
                        pass[k].pc \in {"notes", "marks"} /\ h = Tracked(k)}
  /\ pass' = [k \in Passes |-> NotRunning]
  /\ UNCHANGED <<stores, route, aged, writing, changed, alerts, parted>>

\* A worker that starts leaves the alarm as it is.
StartsAsItIs ==
  /\ ~awake
  /\ awake' = TRUE
  /\ UNCHANGED <<stores, route, aged, writing, pass, syncing, changed, watchStops, history>>

\* Anything that starts the worker brings the alarm up to date.
WatchWorkerStarts ==
  /\ ~awake
  /\ awake' = TRUE /\ syncing' = {"reads"}
  /\ UNCHANGED <<stores, route, aged, writing, pass, changed, watchStops, history>>

-----------------------------------------------------------------------------
(* The chains and the clock *)

Arrives(h) ==
  /\ route[h] = "moving"
  /\ \E end \in {"ended", "stranded"} : route' = [route EXCEPT ![h] = end]
  /\ UNCHANGED <<stores, aged, writing, pass, syncing, changed, awake, watchStops, history>>

Ages(h) ==
  /\ route[h] # "unsent" /\ h \notin aged
  /\ \A g \in Transfers : g < h => g \in aged
  /\ aged' = aged \cup {h}
  /\ UNCHANGED <<stores, route, writing, pass, syncing, changed, awake, watchStops, history>>

WatchNext ==
  \/ \E s \in Screens : ScreenWrites(s) \/ ScreenCloses(s)
                        \/ \E h \in Transfers : Sends(s, h) \/ Forgets(s, h)
  \/ \E k \in Passes : AlarmRings(k) \/ TrackFindsNothing(k) \/ Alerts(k) \/ NotesRead(k)
                       \/ Marks(k) \/ Keeps(k) \/ DropReads(k) \/ Drops(k)
  \/ ChangeHeard \/ SyncReads \/ SyncGets \/ SyncCreates
  \/ WatchWorkerStops \/ WatchWorkerStarts
  \/ \E h \in Transfers : Arrives(h) \/ Ages(h)

WatchSpec == WatchInit /\ [][WatchNext]_watchVars

-----------------------------------------------------------------------------
(* Properties *)

WatchTypeOK ==
  /\ listed \subseteq Transfers /\ notified \in Seq(Transfers)
  /\ watching \in BOOLEAN /\ changed \in BOOLEAN /\ awake \in BOOLEAN
  /\ route \in [Transfers -> {"unsent", "moving", "ended", "stranded"}]
  /\ aged \cup cut \cup parted \subseteq Transfers
  /\ writing \in [Screens -> [pc : {"idle", "saves", "removes"},
                              about : SUBSET Transfers, read : SUBSET Transfers]]
  /\ pass \in [Passes -> [pc : {"idle", "tracks", "notes", "marks", "noted", "drops"},
                          todo : SUBSET Transfers, read : SUBSET Transfers,
                          notes : Seq(Transfers)]]
  /\ syncing \subseteq {"reads", "gets", "creates"}
  /\ watchStops \in Nat /\ alerts \in [Transfers -> Nat]

(* A transfer's end is told once, whatever screens write beside the worker: *)
(* a transfer that a screen's write brings back is not told again.  Only a  *)
(* worker stop between the alert and its note tells twice.                  *)
ToldOnce == \A h \in Transfers : h \notin cut => alerts[h] <= 1

(* Whenever the worker has nothing under way, transfers yet to be told of   *)
(* have an alarm that will wake it.                                         *)
PendingIsWatched ==
  awake /\ ~changed /\ syncing = {} /\ (\A k \in Passes : PassIs(k, "idle"))
    => (Watchable # {} => watching)

(* A transfer that was sent stays listed until it was told, seen to end, or *)
(* pushed out, unless two writers of the list overlapped.                   *)
ListedUntilTold ==
  \A h \in Transfers :
    route[h] # "unsent" /\ Young(h) /\ h \notin parted =>
      h \in listed \/ \E s \in Screens : h \in writing[s].about
=============================================================================
