----------------------------- MODULE GrantBook -----------------------------
(***************************************************************************)
(* What the permission store promises: however its calls overlap, it        *)
(* changes as one book, by one call at a time, and a call changes only the  *)
(* grant it is about.                                                       *)
(***************************************************************************)
EXTENDS Naturals

CONSTANTS Sites, Chains, Ttl

VARIABLES store, clock

NoGrant == [chains |-> {}, expires |-> 0, handed |-> {}]
NoGrants == [s \in Sites |-> NoGrant]
Live(s) == store[s].chains # {} /\ clock < store[s].expires

Init == store = NoGrants /\ clock = 0

\* A live grant is added to; any other is replaced.
Grant(s, cs) ==
  LET kept == IF Live(s) THEN store[s] ELSE NoGrant
  IN store' = [store EXCEPT ![s] = [chains |-> kept.chains \cup cs,
                                    expires |-> clock + Ttl,
                                    handed |-> kept.handed]]

\* The site was handed its address on a chain it may use.
Hand(s, ch) ==
  /\ Live(s) /\ ch \in store[s].chains
  /\ store' = [store EXCEPT ![s].handed = @ \cup {ch}]

\* The site may no longer use a chain.
Take(s, ch) ==
  LET grant == store[s]
  IN store' = [store EXCEPT ![s] =
                IF grant.chains \subseteq {ch} THEN NoGrant
                ELSE [chains |-> grant.chains \ {ch}, expires |-> grant.expires,
                      handed |-> grant.handed \ {ch}]]

Drop(s) == store' = [store EXCEPT ![s] = NoGrant]
DropExpired == store' = [s \in Sites |-> IF Live(s) THEN store[s] ELSE NoGrant]
DropAll == store' = NoGrants

Change ==
  \/ \E s \in Sites, cs \in SUBSET Chains : Grant(s, cs)
  \/ \E s \in Sites, ch \in Chains : Hand(s, ch) \/ Take(s, ch)
  \/ \E s \in Sites : Drop(s)
  \/ DropExpired \/ DropAll

Next ==
  \/ Change /\ UNCHANGED clock
  \/ clock' = clock + 1 /\ UNCHANGED store

Spec == Init /\ [][Next]_<<store, clock>>
=============================================================================
