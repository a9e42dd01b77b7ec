----------------------------- MODULE ReadsGate -----------------------------
(***************************************************************************)
(* May the wallet read chains?  (lib/interchain.ts, interchainReadsAllowed) *)
(* The answer follows a setting and a permission of the browser, is kept    *)
(* for a second, and is dropped when the setting is saved                   *)
(* (entrypoints/background.ts SET_SETTINGS, lib/settings.ts setSettings).   *)
(* Reads ask, saves write and the user revokes the permission between any   *)
(* two awaits of one another.                                               *)
(***************************************************************************)
EXTENDS Naturals

CONSTANTS Readers,    \* chain reads that may ask at once
          Savers,     \* saves of settings that may be under way at once
          GateTtl,    \* READS_CACHE_MS
          MaxNow      \* bound: time that passes

ASSUME GateAssumption == GateTtl \in Nat \ {0} /\ MaxNow \in Nat

VARIABLES
  live,       \* liveBalances, as it is stored
  permitted,  \* the browser lets the wallet reach the chains' endpoints
  gate,       \* readsCache
  now,
  reader,     \* reads that ask
  saver,      \* saves of settings under way
  changedAt   \* when the setting or the permission last changed

gateVars == <<live, permitted, gate, now, reader, saver, changedAt>>

NoAnswer == [at |-> 0, allowed |-> FALSE, kept |-> FALSE]
Patches == {"on", "off", "other"}
IdleReader == [st |-> "idle", began |-> 0, allowed |-> FALSE]
IdleSaver == [st |-> "idle", patch |-> "other", next |-> FALSE]

GateInit ==
  /\ live \in BOOLEAN /\ permitted \in BOOLEAN
  /\ gate = NoAnswer
  /\ now = 0
  /\ reader = [r \in Readers |-> IdleReader]
  /\ saver = [s \in Savers |-> IdleSaver]
  /\ changedAt = 0

-----------------------------------------------------------------------------
(* interchainReadsAllowed *)

Fresh == gate.kept /\ now < gate.at + GateTtl

\* The read is decided by the answer that is kept, or asks the settings.
AsksGate(r) ==
  /\ reader[r].st = "idle"
  /\ reader' = [reader EXCEPT ![r] =
       [st |-> IF Fresh THEN "decided" ELSE "asking", began |-> now,
        allowed |-> Fresh /\ gate.allowed]]
  /\ UNCHANGED <<live, permitted, gate, now, saver, changedAt>>

\* The age of an answer counted from when it is there.
KeepsLate(r, allowed) == gate' = [at |-> now, allowed |-> allowed, kept |-> TRUE]

\* It counts from when the read began to ask.
Keeps(r, allowed) == gate' = [at |-> reader[r].began, allowed |-> allowed, kept |-> TRUE]

Decides(r, allowed) ==
  /\ Keeps(r, allowed)
  /\ reader' = [reader EXCEPT ![r] =
       [st |-> "decided", began |-> reader[r].began, allowed |-> allowed]]

\* getSettings: off needs no permission to be refused.
ReadsSetting(r) ==
  /\ reader[r].st = "asking"
  /\ IF live THEN reader' = [reader EXCEPT ![r].st = "permission"] /\ UNCHANGED gate
             ELSE Decides(r, FALSE)
  /\ UNCHANGED <<live, permitted, now, saver, changedAt>>

\* hasLiveBalancePermission
ReadsPermission(r) ==
  /\ reader[r].st = "permission"
  /\ Decides(r, permitted)
  /\ UNCHANGED <<live, permitted, now, saver, changedAt>>

\* The read goes out, or does not.
ReadLeaves(r) ==
  /\ reader[r].st = "decided"
  /\ reader' = [reader EXCEPT ![r] = IdleReader]
  /\ UNCHANGED <<live, permitted, gate, now, saver, changedAt>>

-----------------------------------------------------------------------------
(* SET_SETTINGS *)

\* The switch is flipped, or some other setting is changed.  Turning reads off
\* removes the balances and prices kept in storage first.
SaveStarts(s, patch) ==
  /\ saver[s].st = "idle"
  /\ saver' = [saver EXCEPT ![s] = [st |-> IF patch = "off" THEN "clearing" ELSE "reading",
                                    patch |-> patch, next |-> FALSE]]
  /\ gate' = IF patch = "on" THEN NoAnswer ELSE gate
  /\ UNCHANGED <<live, permitted, now, reader, changedAt>>

\* clearInterchainCaches, before the setting is written.
SaveClears(s) ==
  /\ saver[s].st = "clearing"
  /\ saver' = [saver EXCEPT ![s].st = "reading"]
  /\ gate' = NoAnswer
  /\ UNCHANGED <<live, permitted, now, reader, changedAt>>

\* setSettings: what is stored, with the patch over it.
SaveReads(s) ==
  /\ saver[s].st = "reading"
  /\ saver' = [saver EXCEPT ![s] =
       [st |-> "writing", patch |-> saver[s].patch,
        next |-> IF saver[s].patch = "other" THEN live ELSE saver[s].patch = "on"]]
  /\ UNCHANGED <<live, permitted, gate, now, reader, changedAt>>

SaveWrites(s) ==
  /\ saver[s].st = "writing"
  /\ live' = saver[s].next
  /\ changedAt' = IF live' = live THEN changedAt ELSE now
  /\ saver' = [saver EXCEPT ![s] = IdleSaver]
  /\ UNCHANGED <<permitted, gate, now, reader>>

\* The browser's own page of extension permissions.
PermissionChanges ==
  /\ permitted' = ~permitted
  /\ changedAt' = now
  /\ UNCHANGED <<live, gate, now, reader, saver>>

\* The worker stops: the answer kept, the reads and the saves go with it.
GateIsLost ==
  /\ gate' = NoAnswer
  /\ reader' = [r \in Readers |-> IdleReader]
  /\ saver' = [s \in Savers |-> IdleSaver]
  /\ UNCHANGED <<live, permitted, now, changedAt>>

GateClockTicks ==
  /\ now < MaxNow
  /\ now' = now + 1
  /\ UNCHANGED <<live, permitted, gate, reader, saver, changedAt>>

GateNext ==
  \/ \E r \in Readers : AsksGate(r) \/ ReadsSetting(r) \/ ReadsPermission(r) \/ ReadLeaves(r)
  \/ \E s \in Savers : \/ \E patch \in Patches : SaveStarts(s, patch)
                       \/ SaveClears(s) \/ SaveReads(s) \/ SaveWrites(s)
  \/ PermissionChanges \/ GateIsLost \/ GateClockTicks

GateSpec == GateInit /\ [][GateNext]_gateVars

-----------------------------------------------------------------------------
(* Properties *)

GateTypeOK ==
  /\ live \in BOOLEAN /\ permitted \in BOOLEAN
  /\ gate \in [at : 0 .. MaxNow, allowed : BOOLEAN, kept : BOOLEAN]
  /\ now \in 0 .. MaxNow /\ changedAt \in 0 .. now
  /\ reader \in [Readers -> [st : {"idle", "asking", "permission", "decided"},
                             began : 0 .. MaxNow, allowed : BOOLEAN]]
  /\ saver \in [Savers -> [st : {"idle", "clearing", "reading", "writing"},
                           patch : Patches, next : BOOLEAN]]

\* A read that is decided against the setting and the permission as they are
\* began to ask less than GateTtl after they last changed: however reads and
\* saves overlap, the old answer is out of use within the second it is kept
\* (interchainReadsAllowed).
GateFollowsInTime ==
  \A r \in Readers :
    /\ reader[r].st = "decided"
    /\ reader[r].allowed # (live /\ permitted)
    => reader[r].began < changedAt + GateTtl
=============================================================================
