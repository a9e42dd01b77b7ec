------------------------------ MODULE EventFeed ------------------------------
(***************************************************************************)
(* What the event log promises a page: of the events of its own site it     *)
(* hears each at most once, in the order they happened, and it passes over  *)
(* one only when the log has forgotten it.                                  *)
(***************************************************************************)
EXTENDS Naturals

CONSTANTS Pages, SiteOf

VARIABLES
  news,   \* the events that happened, each numbered above all before it
  kept,   \* those the log still has
  saw,    \* each page: the numbers it heard
  after   \* each page: the number up to which it has heard

FeedOf(p, events) == {e \in events : e.site = SiteOf[p]}
Numbers(events) == {e.seq : e \in events}

Init ==
  /\ news = {} /\ kept = {}
  /\ saw = [p \in Pages |-> {}]
  /\ after = [p \in Pages |-> 0]

Happen ==
  /\ news \subseteq news'
  /\ \A e \in news, f \in news' \ news : e.seq < f.seq
  /\ kept' \subseteq kept \cup (news' \ news)
  /\ UNCHANGED <<saw, after>>

Forget == kept' \subseteq kept /\ UNCHANGED <<news, saw, after>>

\* A page that has heard nothing starts from a number.
Begin(p) ==
  /\ saw[p] = {}
  /\ after' = [after EXCEPT ![p] = after'[p]]
  /\ UNCHANGED <<news, kept, saw>>

\* A page hears on, up to a number.
Hear(p) ==
  LET between == {e \in FeedOf(p, news) : after[p] < e.seq /\ e.seq <= after'[p]}
      heard == saw'[p] \ saw[p]
  IN /\ after[p] <= after'[p] /\ after' = [after EXCEPT ![p] = after'[p]]
     /\ saw' = [saw EXCEPT ![p] = saw[p] \cup heard]
     /\ Numbers(between \cap kept) \subseteq heard
     /\ heard \subseteq Numbers(between)
     /\ UNCHANGED <<news, kept>>

Next == Happen \/ Forget \/ \E p \in Pages : Begin(p) \/ Hear(p)

Spec == Init /\ [][Next]_<<news, kept, saw, after>>
=============================================================================
