----------------------------- MODULE SendReview -----------------------------
(***************************************************************************)
(* A send to another chain on the Send screen: the form, the plan made from *)
(* it, the review that asks the worker for a preview, the new prices when   *)
(* gas preferences change, and the signature                                *)
(* (entrypoints/popup/screens/SendScreen.tsx).  A target stands for the     *)
(* destination chain and the address there, the wallet's own when none is   *)
(* typed; a plan, a preview and the messages built stand for the target     *)
(* they pay.                                                                *)
(***************************************************************************)
EXTENDS Naturals, FiniteSets

CONSTANTS Targets,    \* destinations and addresses the form can name
          Nowhere,    \* what is typed is no address
          MaxPrices,  \* bound: new prices asked for at once
          MaxSigned   \* bound: signatures under way at once

VARIABLES
  form,      \* destChainId and effectiveRecipient
  plan,      \* settledPlan, by the target of its key
  phase,     \* phase
  busy,      \* busy
  asking,    \* reviews that wait for BUILD_TX_PREVIEW, by their plan
  prices,    \* reprices that wait for it, by the plan they read
  pending,   \* pendingMsgs and preview
  reviewed,  \* reviewedPlan
  signing,   \* what Sign was pressed for: what it pays, what the screen showed
  sent,      \* what was broadcast last, as a set
  alone      \* an onlooker's: the form was left alone while the last review was
             \* prepared, and no other answer was on its way

forms == <<form, plan>>
waits == <<asking, prices>>
result == <<pending, reviewed>>
sendVars == <<form, plan, phase, busy, asking, prices, pending, reviewed, signing, sent, alone>>

NoPrices == [n \in 1 .. MaxPrices |-> Nowhere]

SendInit ==
  /\ form = Nowhere /\ plan = Nowhere
  /\ phase = "form"
  /\ busy = FALSE
  /\ asking = {}
  /\ prices = NoPrices
  /\ pending = Nowhere /\ reviewed = Nowhere
  /\ signing = {} /\ sent = {}
  /\ alone = TRUE

\* The fields of the form, whatever the screen waits for.
EditsForm ==
  /\ phase = "form"
  /\ form' \in (Targets \cup {Nowhere}) \ {form}
  /\ alone' = (alone /\ asking = {})
  /\ UNCHANGED <<plan, phase, busy, waits, result, signing, sent>>

\* The effect on planKey: an answer for another key is dropped (result).
PlanSettles ==
  /\ form # Nowhere /\ plan # form
  /\ plan' = form
  /\ UNCHANGED <<form, phase, busy, waits, result, signing, sent, alone>>

\* A plan for what the form said before.
CanReviewStale == form # Nowhere /\ plan # Nowhere

\* canReview: the plan is the form's.
CanReview == form # Nowhere /\ plan = form

\* review
Review ==
  /\ phase = "form" /\ ~busy /\ CanReview
  /\ busy' = TRUE
  /\ asking' = asking \cup {plan}
  /\ alone' = (asking = {} /\ prices = NoPrices)
  /\ UNCHANGED <<forms, phase, prices, result, signing, sent>>

\* The preview is there: the confirm screen opens.
ReviewBuilt(p) ==
  /\ pending' = p /\ reviewed' = p
  /\ phase' = "confirm"
  /\ busy' = FALSE
  /\ asking' = asking \ {p}
  /\ UNCHANGED <<forms, prices, signing, sent, alone>>

ReviewFails(p) ==
  /\ asking' = asking \ {p}
  /\ busy' = FALSE
  /\ UNCHANGED <<forms, phase, prices, result, signing, sent, alone>>

\* reprice: the gas preferences are not disabled while the screen is busy.
Reprice(n) ==
  /\ phase = "confirm"
  /\ prices[n] = Nowhere
  /\ prices' = [prices EXCEPT ![n] = reviewed]
  /\ busy' = TRUE
  /\ alone' = (alone /\ asking = {})
  /\ UNCHANGED <<forms, phase, asking, result, signing, sent>>

\* The new price is there, or it failed; whichever ends clears busy.
Repriced(n) ==
  /\ prices[n] # Nowhere
  /\ pending' \in {prices[n], pending}
  /\ prices' = [prices EXCEPT ![n] = Nowhere]
  /\ busy' = FALSE
  /\ UNCHANGED <<forms, phase, asking, reviewed, signing, sent, alone>>

\* The back button of the screen's title.
Back ==
  /\ phase = "confirm"
  /\ phase' = "form"
  /\ UNCHANGED <<forms, busy, waits, result, signing, sent, alone>>

\* confirmAndBroadcast: the messages are those of the click, as the screen's To
\* row is the form's address then (toAddress).
Sign ==
  /\ phase = "confirm" /\ ~busy
  /\ Cardinality(signing) < MaxSigned
  /\ signing' = signing \cup {[pays |-> pending, shown |-> form, alone |-> alone]}
  /\ busy' = TRUE
  /\ UNCHANGED <<forms, phase, waits, result, sent, alone>>

Broadcast(signature) ==
  /\ signing' = signing \ {signature}
  /\ sent' = {signature}
  /\ phase' = "sent"
  /\ busy' = FALSE
  /\ UNCHANGED <<forms, waits, result, alone>>

\* The password dialog is closed, or the chain refuses.
SignFails(signature) ==
  /\ signing' = signing \ {signature}
  /\ busy' = FALSE
  /\ UNCHANGED <<forms, phase, waits, result, sent, alone>>

\* The screen goes, and with it what it waits for; the next is a new one.
Leaves ==
  /\ phase # "confirm"
  /\ form' = Nowhere /\ plan' = Nowhere /\ phase' = "form" /\ busy' = FALSE
  /\ asking' = {} /\ prices' = NoPrices
  /\ pending' = Nowhere /\ reviewed' = Nowhere
  /\ signing' = {} /\ sent' = {}
  /\ alone' = TRUE

SendNext ==
  \/ EditsForm \/ PlanSettles \/ Review
  \/ \E p \in asking : ReviewBuilt(p) \/ ReviewFails(p)
  \/ \E n \in 1 .. MaxPrices : Reprice(n) \/ Repriced(n)
  \/ Back \/ Sign \/ Leaves
  \/ \E signature \in signing : Broadcast(signature) \/ SignFails(signature)

SendSpec == SendInit /\ [][SendNext]_sendVars

-----------------------------------------------------------------------------
(* Properties *)

Signatures == [pays : Targets, shown : Targets \cup {Nowhere}, alone : BOOLEAN]
SendTypeOK ==
  /\ {form, plan, pending, reviewed} \subseteq Targets \cup {Nowhere}
  /\ phase \in {"form", "confirm", "sent"}
  /\ busy \in BOOLEAN /\ alone \in BOOLEAN
  /\ asking \subseteq Targets
  /\ prices \in [1 .. MaxPrices -> Targets \cup {Nowhere}]
  /\ signing \subseteq Signatures /\ sent \subseteq Signatures

\* "Sign what the confirm screen shows." (SendScreen.tsx:1216): the messages that
\* are broadcast pay the address the confirm screen named when Sign was pressed.
SignsWhatIsShown == \A signature \in sent : signature.pays = signature.shown

\* They do when the form was left alone while the review was prepared, and no
\* answer to an earlier review or to new prices was still on its way, whatever
\* plans settled, prices changed, signatures failed and screens were left behind.
ShownWhenLeftAlone ==
  \A signature \in sent : signature.alone => signature.pays = signature.shown
=============================================================================
