------------------------------ MODULE MCAnswers ------------------------------
(* Small instances of ProviderCalls under its fairness, and of two parts that *)
(* share no state with it or each other, the planning of routes and the       *)
(* sending of transactions: a behaviour picks one part, and only that runs.   *)
EXTENDS ProviderCalls, RoutePlanning, Broadcast, TLC

VARIABLE part

CONSTANTS a0, a1, a2, phraseA, phraseB, i0, i1

MCPhraseOf == (a0 :> phraseA) @@ (a1 :> phraseA) @@ (a2 :> phraseB)
MCPathOf == (a0 :> i0) @@ (a1 :> i1) @@ (a2 :> i0)

AnswersInit ==
  /\ part \in {"calls", "routes", "pay"}
  /\ Init /\ RouteInit /\ PayInit

\* The bound of the sequence is reached.
NoMoreSequences == next = MaxSeq /\ UNCHANGED payVars

AnswersNext ==
  /\ UNCHANGED part
  /\ \/ part = "calls" /\ Next /\ UNCHANGED <<routeVars, payVars>>
     \/ part = "routes" /\ RouteNext /\ UNCHANGED <<vars, payVars>>
     \/ part = "pay" /\ (PayNext \/ NoMoreSequences) /\ UNCHANGED <<vars, routeVars>>

\* Where no call has come in, nothing is owed to one.
AnswersSpec ==
  AnswersInit /\ [][AnswersNext]_<<part, vars, routeVars, payVars>> /\ Fairness

\* The state of the two parts has its types.
PlanAndPayTypeOK == RouteTypeOK /\ PayTypeOK
=============================================================================
