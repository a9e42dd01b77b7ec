------------------------------- MODULE Prompts -------------------------------
(***************************************************************************)
(* What the approval queue promises the rest of the wallet, without timers, *)
(* surfaces, tabs or frames: a dApp's request is asked once, in a fresh     *)
(* slot, while fewer than MaxPending others wait; it is then answered once, *)
(* for good.  A lost request is one the worker took down with it.           *)
(***************************************************************************)
EXTENDS Naturals, FiniteSets

CONSTANTS MaxPending, MaxIds

VARIABLE promise

Ids == 1 .. MaxIds
Waiting == {id \in Ids : promise[id] = "pending"}
Outcomes == {"approved", "rejected", "lost"}

Init == promise = [id \in Ids |-> "none"]

Ask(id) ==
  /\ promise[id] = "none"
  /\ \A earlier \in 1 .. id - 1 : promise[earlier] # "none"
  /\ Cardinality(Waiting) < MaxPending
  /\ promise' = [promise EXCEPT ![id] = "pending"]

\* One event may answer several requests: a closed tab, a lock, a lost worker.
Answer(S, outcome) ==
  /\ S \subseteq Waiting
  /\ promise' = [id \in Ids |-> IF id \in S THEN outcome ELSE promise[id]]
  \* Only a user's click approves, and it approves what it was clicked on.
  /\ outcome = "approved" => Cardinality(S) <= 1

Next ==
  \/ \E id \in Ids : Ask(id)
  \/ \E S \in SUBSET Waiting, outcome \in Outcomes : Answer(S, outcome)

Spec == Init /\ [][Next]_promise
=============================================================================
