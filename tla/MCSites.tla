------------------------------ MODULE MCSites ------------------------------
(* Small instances of the parts beside a page's calls, which share no state  *)
(* with them or each other: a behaviour picks one part, and only that runs.  *)
EXTENDS ProviderCalls, Throttle, ReadsGate, ConnectOverlay, SendReview, Realtime,
        TLC

VARIABLE part

CONSTANTS a0, a1, a2, phraseA, phraseB, i0, i1

MCPhraseOf == (a0 :> phraseA) @@ (a1 :> phraseA) @@ (a2 :> phraseB)
MCPathOf == (a0 :> i0) @@ (a1 :> i1) @@ (a2 :> i0)

\* Calls, and the accounts of the live balances, do not differ but by their names.
Symmetry == Permutations(Calls) \cup Permutations(AccountIds)

allVars == <<vars, throttleVars, gateVars, overlayVars, sendVars, realtimeVars>>

SitesInit ==
  /\ part \in {"calls", "throttle", "gate", "overlay", "send", "balances"}
  /\ Init /\ ThrottleInit /\ GateInit /\ OverlayInit /\ SendInit /\ RealtimeInit
  /\ part # "gate" => live /\ permitted
  /\ part # "balances" => liveBalances /\ readsPermitted

\* The bounds of the backoff are reached.
NoMoreGuesses ==
  /\ wall = MaxWall
  /\ \A g \in Guesses : guess[g].st \in {"opened", "wrong", "refused", "lost"}
  /\ UNCHANGED throttleVars

SitesNext ==
  /\ UNCHANGED part
  /\ \/ /\ part = "calls" /\ Next
        /\ UNCHANGED <<throttleVars, gateVars, overlayVars, sendVars, realtimeVars>>
     \/ /\ part = "throttle" /\ (ThrottleNext \/ NoMoreGuesses)
        /\ UNCHANGED <<vars, gateVars, overlayVars, sendVars, realtimeVars>>
     \/ /\ part = "gate" /\ GateNext
        /\ UNCHANGED <<vars, throttleVars, overlayVars, sendVars, realtimeVars>>
     \/ /\ part = "overlay" /\ OverlayNext
        /\ UNCHANGED <<vars, throttleVars, gateVars, sendVars, realtimeVars>>
     \/ /\ part = "send" /\ SendNext
        /\ UNCHANGED <<vars, throttleVars, gateVars, overlayVars, realtimeVars>>
     \/ /\ part = "balances" /\ RealtimeNext
        /\ UNCHANGED <<vars, throttleVars, gateVars, overlayVars, sendVars>>

SitesSpec == SitesInit /\ [][SitesNext]_<<part, allVars>>

\* Every part's state has its types.
SitesTypeOK ==
  /\ part = "calls" => TypeOK
  /\ part = "throttle" => ThrottleTypeOK
  /\ part = "gate" => GateTypeOK
  /\ part = "overlay" => OverlayTypeOK
  /\ part = "send" => SendTypeOK
  /\ part = "balances" => RealtimeTypeOK
=============================================================================
