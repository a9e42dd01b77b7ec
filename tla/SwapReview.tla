----------------------------- MODULE SwapReview -----------------------------
(***************************************************************************)
(* The swap screen from its form to a signature (popup/screens/SwapScreen): *)
(* a review freezes what the form plans, with a price, the messages built   *)
(* from both and the fee preview of those messages; the confirm screen      *)
(* shows them while prices are fetched, fees are recalculated and the form  *)
(* goes on changing underneath, and signs what it shows.  Answers come back *)
(* in any order; one flag says that some request is under way.              *)
(*                                                                         *)
(* A key stands for all a plan depends on (pair, amount, fee, slippage,     *)
(* channels); prices are told apart by the order in which they were         *)
(* fetched.  In the pools the price is part of the messages; the contract's *)
(* messages do not name it.                                                 *)
(***************************************************************************)
EXTENDS Naturals, FiniteSets

CONSTANTS Keys,
          PathOf,      \* each key: "contract" or "pool"
          Plans,       \* what the planner may answer, by fingerprint
          KeyOf,       \* each plan: the key it is a plan for
          MaxReviews,  \* bound: reviews
          MaxPrices,   \* bound: prices fetched on the confirm screen or for a review
          MaxRequests  \* bound: requests under way at once

ASSUME PathsAssumption == PathOf \in [Keys -> {"contract", "pool"}]
ASSUME PlansAssumption == KeyOf \in [Plans -> Keys]
ASSUME ReviewBoundsAssumption == {MaxReviews, MaxPrices, MaxRequests} \subseteq Nat

VARIABLES
  form,       \* the key of what the form asks, NoKey while it cannot be planned
  asked,      \* the key the planner is working on
  settled,    \* the last plan, and its key
  phase,      \* form, confirm or sent
  busy,
  confirm,    \* confirmTx: the review, its messages and their preview
  pricing,    \* reviews whose price is being fetched
  building,   \* reviews whose preview is being built
  requoting,  \* the review whose price is being fetched again
  refreshing, \* such fetches
  repricing,  \* new gas preferences on their way to a new preview
  signing,    \* what was confirmed with Sign and is not yet broadcast
  tracked,    \* a route is being followed
  reviews,    \* reviews so far
  prices,     \* prices so far
  expired     \* how many of them are too old to sign against

screen == <<phase, busy, confirm, tracked>>
requests == <<pricing, building, requoting, refreshing, repricing, signing>>
counts == <<reviews, prices, expired>>
swapVars == <<form, asked, settled, screen, requests, counts>>

NoKey == "no key"
NoPlan == "no plan"
NoId == 0
NoPrice == 0
NoReview == [id |-> NoId, key |-> NoKey, plan |-> NoPlan, price |-> NoPrice]
NotOpen == [review |-> NoReview, msgs |-> NoReview, preview |-> NoReview]

SwapInit ==
  /\ form = NoKey /\ asked = NoKey /\ settled = [key |-> NoKey, plan |-> NoPlan]
  /\ phase = "form" /\ busy = FALSE /\ confirm = NotOpen /\ tracked = FALSE
  /\ pricing = {} /\ building = {} /\ requoting = NoId /\ refreshing = {}
  /\ repricing = {} /\ signing = {}
  /\ reviews = 0 /\ prices = 0 /\ expired = 0

\* Only a plan for the form as it is now is shown.
PlanOnScreen == IF form # NoKey /\ settled.key = form THEN settled.plan ELSE NoPlan
Planning == form # NoKey /\ settled.key # form

\* swapTxMsgs, poolSwapTxMsgs: a new array for each review, and for each price in the pools.
MessagesOf(r) == IF r.key # NoKey /\ PathOf[r.key] = "contract"
                 THEN [r EXCEPT !.price = NoPrice] ELSE r

Room == Cardinality(pricing) + Cardinality(building) + Cardinality(refreshing)
        + Cardinality(repricing) + Cardinality(signing) < MaxRequests

-----------------------------------------------------------------------------
(* The form *)

\* The user edits it, or balances, routes and settings move it, in any phase.
FormMoves ==
  /\ \E k \in Keys \cup {NoKey} : k # form /\ form' = k /\ asked' = k
  /\ UNCHANGED <<settled, screen, requests, counts>>

PlanArrives ==
  /\ asked # NoKey
  /\ \E plan \in {p \in Plans : KeyOf[p] = asked} \cup {NoPlan} : settled' = [key |-> asked, plan |-> plan]
  /\ asked' = NoKey
  /\ UNCHANGED <<form, screen, requests, counts>>

-----------------------------------------------------------------------------
(* From the form to the confirm screen *)

Reviews ==
  /\ phase = "form" /\ ~busy /\ PlanOnScreen # NoPlan
  /\ reviews < MaxReviews /\ Room
  /\ busy' = TRUE
  /\ pricing' = pricing \cup {[NoReview EXCEPT !.key = form, !.plan = PlanOnScreen]}
  /\ UNCHANGED <<form, asked, settled, phase, confirm, tracked, building, requoting, refreshing,
                 repricing, signing, counts>>

\* A review goes on only with a price.
ReviewPriced(r) ==
  /\ pricing' = pricing \ {r}
  /\ \/ busy' = FALSE /\ UNCHANGED <<building, reviews, prices>>
     \/ /\ prices < MaxPrices /\ reviews < MaxReviews
        /\ reviews' = reviews + 1 /\ prices' = prices + 1
        /\ building' = building \cup {[r EXCEPT !.id = reviews + 1, !.price = prices + 1]}
        /\ busy' = TRUE
  /\ UNCHANGED <<form, asked, settled, phase, confirm, tracked, requoting, refreshing,
                 repricing, signing, expired>>

\* openConfirm: the kernel's preview of the messages, or an error.
ConfirmOpens(r) ==
  /\ building' = building \ {r}
  /\ busy' = FALSE
  /\ \/ UNCHANGED <<phase, confirm>>
     \/ /\ confirm' = [review |-> r, msgs |-> MessagesOf(r), preview |-> MessagesOf(r)]
        /\ phase' = "confirm"
  /\ UNCHANGED <<form, asked, settled, tracked, pricing, requoting, refreshing, repricing,
                 signing, counts>>

\* The recovery of a stranded output: a transaction with no review.
Recovery == [NoReview EXCEPT !.plan = "recovery"]
StartsRecovery ==
  /\ phase = "sent" /\ tracked /\ Room
  /\ busy' = TRUE
  /\ building' = building \cup {Recovery}
  /\ UNCHANGED <<form, asked, settled, phase, confirm, tracked, pricing, requoting, refreshing,
                 repricing, signing, counts>>

\* Back in the header is there whatever is under way.
GoesBack ==
  /\ phase = "confirm"
  /\ phase' = IF tracked THEN "sent" ELSE "form"
  /\ UNCHANGED <<form, asked, settled, busy, confirm, tracked, requests, counts>>

IsDone ==
  /\ phase = "sent"
  /\ phase' = "form" /\ tracked' = FALSE /\ confirm' = NotOpen
  /\ UNCHANGED <<form, asked, settled, busy, requests, counts>>

-----------------------------------------------------------------------------
(* On the confirm screen *)

OnReview == phase = "confirm" /\ confirm.review.id # NoId

RefreshesPrice ==
  /\ OnReview /\ requoting # confirm.review.id
  /\ prices < MaxPrices /\ Room
  /\ requoting' = confirm.review.id
  /\ refreshing' = refreshing \cup {confirm.review}
  /\ UNCHANGED <<form, asked, settled, screen, pricing, building, repricing, signing, counts>>

Requoted(r) == requoting' = IF requoting = r.id THEN NoId ELSE requoting
StillOpen(r) == confirm.review.id = r.id

\* refreshReviewPrice: the new price, or none, on the review it was asked for.
ContractPriceArrives(r) ==
  /\ PathOf[r.key] = "contract"
  /\ refreshing' = refreshing \ {r} /\ Requoted(r)
  /\ \E price \in {NoPrice, prices + 1} :
       /\ price <= MaxPrices
       /\ prices' = IF price = NoPrice THEN prices ELSE price
       /\ confirm' = IF StillOpen(r) THEN [confirm EXCEPT !.review.price = price] ELSE confirm
  /\ UNCHANGED <<form, asked, settled, phase, busy, tracked, pricing, building, repricing,
                 signing, reviews, expired>>

\* refreshPoolReview: new price, messages and preview together, or none of them.
PoolReviewArrives(r) ==
  /\ PathOf[r.key] = "pool"
  /\ refreshing' = refreshing \ {r} /\ Requoted(r)
  /\ \/ UNCHANGED <<confirm, prices>>
     \/ /\ prices < MaxPrices /\ prices' = prices + 1
        /\ LET review == [r EXCEPT !.price = prices + 1]
           IN confirm' = IF StillOpen(r)
                         THEN [review |-> review, msgs |-> MessagesOf(review),
                               preview |-> MessagesOf(review)]
                         ELSE confirm
  /\ UNCHANGED <<form, asked, settled, phase, busy, tracked, pricing, building, repricing,
                 signing, reviews, expired>>

\* GasFeePrefs: the preferences are saved, and then the messages it was opened on repriced.
SavesGas ==
  /\ phase = "confirm" /\ Room
  /\ repricing' = repricing \cup {[pc |-> "saves", msgs |-> confirm.msgs]}
  /\ UNCHANGED <<form, asked, settled, screen, pricing, building, requoting, refreshing,
                 signing, counts>>

Reprices(g) ==
  /\ g.pc = "saves"
  /\ busy' = TRUE
  /\ repricing' = (repricing \ {g}) \cup {[g EXCEPT !.pc = "builds"]}
  /\ UNCHANGED <<form, asked, settled, phase, confirm, tracked, pricing, building, requoting,
                 refreshing, signing, counts>>

\* reprice without looking what is open.
RepricedLandsAnywhere(g) ==
  /\ g.pc = "builds"
  /\ busy' = FALSE
  /\ repricing' = repricing \ {g}
  /\ confirm' \in {confirm, [confirm EXCEPT !.preview = g.msgs]}
  /\ UNCHANGED <<form, asked, settled, phase, tracked, pricing, building, requoting,
                 refreshing, signing, counts>>

\* The preview lands only on the messages it was built for, or there was an error.
RepricedArrives(g) ==
  /\ g.pc = "builds"
  /\ busy' = FALSE
  /\ repricing' = repricing \ {g}
  /\ confirm' \in {confirm, IF confirm.msgs = g.msgs THEN [confirm EXCEPT !.preview = g.msgs]
                            ELSE confirm}
  /\ UNCHANGED <<form, asked, settled, phase, tracked, pricing, building, requoting,
                 refreshing, signing, counts>>

-----------------------------------------------------------------------------
(* Signing *)

\* swapSignBlock, reviewDrift and poolReviewDrift: the form still stands behind the
\* review, and its price is there, settled and young.
Drifted(r) == form # r.key \/ Planning \/ settled.plan # r.plan
MaySign(r) == /\ ~Drifted(r)
              /\ requoting # r.id
              /\ r.price # NoPrice /\ r.price > expired

\* Confirmed with Sign; the password may still be asked for.
Signs ==
  /\ phase = "confirm" /\ confirm # NotOpen /\ ~busy /\ Room
  /\ confirm.review.id # NoId => MaySign(confirm.review)
  /\ busy' = TRUE
  /\ signing' = signing \cup {confirm}
  /\ UNCHANGED <<form, asked, settled, phase, confirm, tracked, pricing, building, requoting,
                 refreshing, repricing, counts>>

\* The password dialog is cancelled, or the worker refuses.
SigningFails(s) ==
  /\ signing' = signing \ {s}
  /\ busy' = FALSE
  /\ UNCHANGED <<form, asked, settled, phase, confirm, tracked, pricing, building, requoting,
                 refreshing, repricing, counts>>

\* Broadcast; a route is listed before the screen changes, a swap that ends in the
\* pools or a recovery has none.
IsSent(s) ==
  /\ signing' = signing \ {s}
  /\ busy' = FALSE /\ phase' = "sent"
  /\ tracked' \in IF s.review.id = NoId THEN {tracked}
                  ELSE IF PathOf[s.review.key] = "pool" THEN {tracked, TRUE} ELSE {TRUE}
  /\ UNCHANGED <<form, asked, settled, confirm, pricing, building, requoting, refreshing,
                 repricing, counts>>

\* The price on the screen grows too old, and with it those before it.
PriceAges ==
  /\ OnReview /\ expired < confirm.review.price
  /\ expired' = confirm.review.price
  /\ UNCHANGED <<form, asked, settled, screen, requests, reviews, prices>>

SwapNext ==
  \/ FormMoves \/ PlanArrives \/ Reviews \/ StartsRecovery \/ GoesBack \/ IsDone
  \/ \E r \in pricing : ReviewPriced(r)
  \/ \E r \in building : ConfirmOpens(r)
  \/ RefreshesPrice \/ SavesGas \/ Signs \/ PriceAges
  \/ \E r \in refreshing : ContractPriceArrives(r) \/ PoolReviewArrives(r)
  \/ \E g \in repricing : Reprices(g) \/ RepricedArrives(g)
  \/ \E s \in signing : SigningFails(s) \/ IsSent(s)

SwapSpec == SwapInit /\ [][SwapNext]_swapVars

-----------------------------------------------------------------------------
(* Properties *)

Records == [id : 0 .. MaxReviews, key : Keys \cup {NoKey},
            plan : Plans \cup {NoPlan, "recovery"}, price : 0 .. MaxPrices]
Confirms == [review : Records, msgs : Records, preview : Records]

SwapTypeOK ==
  /\ form \in Keys \cup {NoKey} /\ asked \in Keys \cup {NoKey}
  /\ settled \in [key : Keys \cup {NoKey}, plan : Plans \cup {NoPlan}]
  /\ phase \in {"form", "confirm", "sent"} /\ busy \in BOOLEAN /\ tracked \in BOOLEAN
  /\ confirm \in Confirms /\ signing \subseteq Confirms
  /\ pricing \subseteq Records /\ building \subseteq Records /\ refreshing \subseteq Records
  /\ repricing \subseteq [pc : {"saves", "builds"}, msgs : Records]
  /\ requoting \in 0 .. MaxReviews /\ reviews \in 0 .. MaxReviews
  /\ prices \in 0 .. MaxPrices /\ expired \in 0 .. prices

(* confirmTx is "kept as one value so neither is ever shown with the other's *)
(* stand-in": the review's plan is for its own pair and amount, the messages  *)
(* are those of the review, at its price in the pools, and the preview is of *)
(* those messages, on the screen and in what goes to be signed, whatever     *)
(* edits, reviews, refreshes and repricings overlap.                         *)
Whole(c) ==
  /\ c.review.id # NoId => KeyOf[c.review.plan] = c.review.key
  /\ c.msgs = MessagesOf(c.review) /\ c.preview = c.msgs
ReviewIsWhole == Whole(confirm) /\ \A s \in signing : Whole(s)
=============================================================================
