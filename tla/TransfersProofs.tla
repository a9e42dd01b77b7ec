--------------------------- MODULE TransfersProofs ---------------------------
(* Theorems about a transfer before and after it is sent: the review of a swap *)
(* is that of one plan, and what was sent is followed until its end is told,   *)
(* for any number of plans, prices, transfers, screens and worker stops.       *)
EXTENDS MCParts, SessionProofs, EventsProofs

-----------------------------------------------------------------------------
(* The review of a swap *)

(***************************************************************************)
(* The argument: a review is told from all others by its number, so what    *)
(* comes back for the review on the screen is for its key; and whatever is  *)
(* put on the screen was built for what is put there with it.               *)
(***************************************************************************)
\* The reviews that have a number, wherever they are.
Reviewed == {r \in building \cup refreshing \cup {confirm.review} : r.id # NoId}

Planned(r) == r.key \in Keys \ {NoKey} /\ KeyOf[r.plan] = r.key

PlansAreKeyed == /\ settled.plan # NoPlan => settled.key \in Keys /\ KeyOf[settled.plan] = settled.key
                 /\ \A r \in pricing : Planned(r) /\ r.id = NoId
                 /\ \A r \in Reviewed : Planned(r)

\* A number is given once, to one key.
NumbersAreOwn == /\ \A r \in Reviewed : r.id <= reviews
                 /\ \A r, q \in Reviewed : r.id = q.id => r.key = q.key
                 /\ \A r \in refreshing : r.id # NoId

PricesAreSeen == /\ \A r \in building : r.price <= prices
                 /\ confirm.review.price <= prices

WholeInv == SwapTypeOK /\ PlansAreKeyed /\ NumbersAreOwn /\ PricesAreSeen /\ ReviewIsWhole

LEMMA NoneIsARecord ==
  /\ NoReview \in Records /\ NoReview.id = NoId /\ NoReview.key = NoKey /\ NoReview.price = NoPrice
  /\ Recovery \in Records /\ Recovery.id = NoId /\ Recovery.key = NoKey /\ Recovery.price = NoPrice
  /\ NotOpen \in Confirms /\ NotOpen.review = NoReview
  /\ NotOpen.msgs = NoReview /\ NotOpen.preview = NoReview
  /\ NoId \in 0 .. MaxReviews /\ NoPrice \in 0 .. MaxPrices
  BY ReviewBoundsAssumption DEF NoReview, Records, Recovery, NotOpen, Confirms, NoId, NoPrice

LEMMA MessagesTypes ==
  ASSUME NEW r \in Records
  PROVE  /\ MessagesOf(r) \in Records
         /\ r.key = NoKey => MessagesOf(r) = r
         /\ \A price \in 0 .. MaxPrices :
              r.key # NoKey /\ PathOf[r.key] = "contract" => MessagesOf([r EXCEPT !.price = price]) = MessagesOf(r)
  BY NoneIsARecord DEF Records, MessagesOf

LEMMA WholeStart == SwapInit => WholeInv
<1> SUFFICES ASSUME SwapInit PROVE WholeInv
  OBVIOUS
<1>1. confirm = NotOpen /\ building = {} /\ refreshing = {} /\ pricing = {} /\ signing = {} /\ repricing = {}
  BY DEF SwapInit
<1>2. confirm.review = NoReview /\ confirm.msgs = NoReview /\ confirm.preview = NoReview
      /\ MessagesOf(NoReview) = NoReview
  BY <1>1, NoneIsARecord DEF MessagesOf
<1>3. SwapTypeOK
  <2>1. /\ confirm \in Confirms /\ signing \subseteq Confirms
        /\ pricing \subseteq Records /\ building \subseteq Records /\ refreshing \subseteq Records
        /\ repricing \subseteq [pc : {"saves", "builds"}, msgs : Records]
    BY <1>1, NoneIsARecord
  <2>2. /\ form \in Keys \cup {NoKey} /\ asked \in Keys \cup {NoKey}
        /\ settled \in [key : Keys \cup {NoKey}, plan : Plans \cup {NoPlan}]
        /\ phase \in {"form", "confirm", "sent"} /\ busy \in BOOLEAN /\ tracked \in BOOLEAN
    BY DEF SwapInit
  <2>3. /\ requoting \in 0 .. MaxReviews /\ reviews \in 0 .. MaxReviews
        /\ prices \in 0 .. MaxPrices /\ expired \in 0 .. prices
    BY ReviewBoundsAssumption DEF SwapInit, NoId
  <2> QED
    BY <2>1, <2>2, <2>3 DEF SwapTypeOK
<1>4. ReviewIsWhole
  BY <1>1, <1>2, NoneIsARecord DEF ReviewIsWhole, Whole
<1>5. Reviewed = {}
  BY <1>1, <1>2, NoneIsARecord DEF Reviewed
<1>6. PlansAreKeyed /\ NumbersAreOwn /\ PricesAreSeen
  BY <1>1, <1>2, <1>5, NoneIsARecord DEF SwapInit, PlansAreKeyed, NumbersAreOwn, PricesAreSeen, NoPrice
<1> QED
  BY <1>3, <1>4, <1>6 DEF WholeInv

\* A step that gives no number.
LEMMA NoNewNumber ==
  ASSUME WholeInv, SwapTypeOK', ReviewIsWhole', PricesAreSeen',
         UNCHANGED <<form, asked, settled, pricing, reviews>>,
         refreshing' \subseteq refreshing \cup Reviewed,
         \A r \in Reviewed' : \E q \in Reviewed : r.id = q.id /\ r.key = q.key /\ r.plan = q.plan
  PROVE  WholeInv'
<1>1. PlansAreKeyed'
  BY DEF WholeInv, PlansAreKeyed, Planned
<1>2. NumbersAreOwn'
  <2>1. \A r \in Reviewed' : r.id <= reviews'
    BY DEF WholeInv, NumbersAreOwn
  <2>2. \A r, q \in Reviewed' : r.id = q.id => r.key = q.key
    BY DEF WholeInv, NumbersAreOwn
  <2>3. \A r \in refreshing' : r.id # NoId
    BY DEF WholeInv, NumbersAreOwn, Reviewed
  <2> QED
    BY <2>1, <2>2, <2>3 DEF NumbersAreOwn
<1> QED
  BY <1>1, <1>2 DEF WholeInv

\* A step that keeps what is shown, built and signed.
LEMMA WholeStays ==
  ASSUME WholeInv, SwapTypeOK', UNCHANGED <<building, refreshing, confirm, signing, reviews, prices>>,
         settled' = settled \/ (settled'.plan # NoPlan =>
                                  settled'.key \in Keys /\ KeyOf[settled'.plan] = settled'.key),
         \A r \in pricing' : Planned(r) /\ r.id = NoId
  PROVE  WholeInv'
<1>1. Reviewed' = Reviewed
  BY DEF Reviewed
<1>2. ReviewIsWhole'
  BY DEF WholeInv, ReviewIsWhole
<1>3. PlansAreKeyed' /\ NumbersAreOwn' /\ PricesAreSeen'
  BY <1>1 DEF WholeInv, PlansAreKeyed, NumbersAreOwn, PricesAreSeen
<1> QED
  BY <1>2, <1>3 DEF WholeInv

LEMMA FormStep ==
  ASSUME WholeInv, FormMoves \/ PlanArrives \/ GoesBack \/ PriceAges
  PROVE  WholeInv'
<1> USE DEF screen, requests, counts
<1>1. CASE FormMoves
  <2>1. SwapTypeOK'
    BY <1>1 DEF WholeInv, SwapTypeOK, FormMoves
  <2> QED
    BY <1>1, <2>1, WholeStays DEF FormMoves, WholeInv, PlansAreKeyed
<1>2. CASE PlanArrives
  <2>1. SwapTypeOK'
    BY <1>2 DEF WholeInv, SwapTypeOK, PlanArrives
  <2>2. settled'.plan # NoPlan => settled'.key \in Keys /\ KeyOf[settled'.plan] = settled'.key
    BY <1>2 DEF WholeInv, SwapTypeOK, PlanArrives
  <2> QED
    BY <1>2, <2>1, <2>2, WholeStays DEF PlanArrives, WholeInv, PlansAreKeyed
<1>3. CASE GoesBack
  <2>1. SwapTypeOK'
    BY <1>3 DEF WholeInv, SwapTypeOK, GoesBack
  <2> QED
    BY <1>3, <2>1, WholeStays DEF GoesBack, WholeInv, PlansAreKeyed
<1>4. CASE PriceAges
  <2>1. SwapTypeOK'
    BY <1>4, ReviewBoundsAssumption DEF WholeInv, SwapTypeOK, PricesAreSeen, PriceAges, Confirms, Records
  <2> QED
    BY <1>4, <2>1, WholeStays DEF PriceAges, WholeInv, PlansAreKeyed
<1> QED
  BY <1>1, <1>2, <1>3, <1>4

LEMMA ReviewsStep ==
  ASSUME WholeInv, Reviews
  PROVE  WholeInv'
<1> USE DEF screen, requests, counts
<1>1. form \in Keys \ {NoKey} /\ PlanOnScreen \in Plans /\ KeyOf[PlanOnScreen] = form
  BY DEF WholeInv, SwapTypeOK, PlansAreKeyed, Reviews, PlanOnScreen
<1>2. PICK r \in Records : /\ r = [NoReview EXCEPT !.key = form, !.plan = PlanOnScreen]
                           /\ r.id = NoId /\ Planned(r)
  <2> DEFINE r == [NoReview EXCEPT !.key = form, !.plan = PlanOnScreen]
  <2>1. r \in Records /\ r.id = NoId /\ Planned(r)
    BY <1>1, NoneIsARecord DEF Records, Planned
  <2> HIDE DEF r
  <2> QED
    BY <2>1 DEF r
<1>3. pricing' = pricing \cup {r}
  BY <1>2 DEF Reviews
<1>4. SwapTypeOK'
  BY <1>3 DEF WholeInv, SwapTypeOK, Reviews
<1> QED
  BY <1>2, <1>3, <1>4, WholeStays DEF Reviews, WholeInv, PlansAreKeyed

\* A numbered review has a number of its own.
LEMMA ReviewPricedStep ==
  ASSUME WholeInv, NEW r \in pricing, ReviewPriced(r)
  PROVE  WholeInv'
<1> USE DEF screen, requests, counts
<1>1. r \in Records /\ Planned(r)
  BY DEF WholeInv, SwapTypeOK, PlansAreKeyed
<1>2. pricing' \subseteq pricing
      /\ UNCHANGED <<form, asked, settled, phase, confirm, tracked, requoting, refreshing, repricing,
                     signing, expired>>
  BY DEF ReviewPriced
<1>3. CASE busy' = FALSE /\ UNCHANGED <<building, reviews, prices>>
  <2>1. SwapTypeOK'
    BY <1>2, <1>3 DEF WholeInv, SwapTypeOK
  <2> QED
    BY <1>2, <1>3, <2>1, WholeStays DEF WholeInv, PlansAreKeyed
<1>4. CASE /\ prices < MaxPrices /\ reviews < MaxReviews
           /\ reviews' = reviews + 1 /\ prices' = prices + 1
           /\ building' = building \cup {[r EXCEPT !.id = reviews + 1, !.price = prices + 1]}
           /\ busy' = TRUE
  <2> DEFINE q == [r EXCEPT !.id = reviews + 1, !.price = prices + 1]
  <2>1. /\ reviews + 1 \in 0 .. MaxReviews /\ prices + 1 \in 0 .. MaxPrices
        /\ reviews \in Nat /\ prices \in Nat /\ reviews + 1 # NoId
    BY <1>4, ReviewBoundsAssumption DEF WholeInv, SwapTypeOK, NoId
  <2>2. /\ q \in Records /\ q.id = reviews + 1 /\ q.price = prices + 1 /\ Planned(q)
    BY <1>1, <2>1 DEF Records, Planned
  <2>3. building' = building \cup {q}
    BY <1>4
  <2> HIDE DEF q
  <2>4. SwapTypeOK'
    <3>1. building' \subseteq Records
      BY <2>2, <2>3 DEF WholeInv, SwapTypeOK
    <3>2. reviews' \in 0 .. MaxReviews /\ prices' \in 0 .. MaxPrices /\ expired' \in 0 .. prices'
      BY <1>2, <1>4, <2>1 DEF WholeInv, SwapTypeOK
    <3> QED
      BY <1>2, <1>4, <3>1, <3>2 DEF WholeInv, SwapTypeOK
  <2>5. Reviewed' = Reviewed \cup {q}
    BY <1>2, <2>1, <2>2, <2>3 DEF Reviewed
  <2>6. \A x \in Reviewed : x \in Records /\ x.id \in Nat /\ x.id <= reviews
    BY DEF WholeInv, SwapTypeOK, NumbersAreOwn, Reviewed, Records, Confirms
  <2>7. PlansAreKeyed'
    BY <1>2, <2>2, <2>5 DEF WholeInv, PlansAreKeyed, Planned
  <2>8. NumbersAreOwn'
    <3>1. \A x \in Reviewed' : x.id <= reviews'
      BY <1>4, <2>1, <2>2, <2>5, <2>6
    <3>2. \A x \in Reviewed : x.id # q.id
      BY <2>1, <2>2, <2>6
    <3>3. \A x, y \in Reviewed' : x.id = y.id => x.key = y.key
      BY <2>5, <3>2 DEF WholeInv, NumbersAreOwn
    <3> QED
      BY <1>2, <3>1, <3>3 DEF WholeInv, NumbersAreOwn
  <2>9. PricesAreSeen'
    <3>1. \A x \in building : x.price \in Nat /\ x.price <= prices
      BY DEF WholeInv, SwapTypeOK, PricesAreSeen, Records
    <3>2. \A x \in building' : x.price <= prices'
      BY <1>4, <2>1, <2>2, <2>3, <3>1
    <3>3. confirm.review.price \in Nat /\ confirm.review.price <= prices
      BY DEF WholeInv, SwapTypeOK, PricesAreSeen, Records, Confirms
    <3>4. confirm'.review.price <= prices'
      BY <1>2, <1>4, <2>1, <3>3
    <3> QED
      BY <3>2, <3>4 DEF PricesAreSeen
  <2>10. ReviewIsWhole'
    BY <1>2 DEF WholeInv, ReviewIsWhole
  <2> QED
    BY <2>4, <2>7, <2>8, <2>9, <2>10 DEF WholeInv
<1> QED
  BY <1>3, <1>4 DEF ReviewPriced

LEMMA ConfirmOpensStep ==
  ASSUME WholeInv, NEW r \in building, ConfirmOpens(r)
  PROVE  WholeInv'
<1> USE DEF screen, requests, counts
<1>1. /\ building' = building \ {r} /\ busy' = FALSE
      /\ UNCHANGED <<form, asked, settled, tracked, pricing, requoting, refreshing, repricing,
                     signing, reviews, prices, expired>>
  BY DEF ConfirmOpens
<1>2. r \in Records /\ r.price <= prices /\ (r.id # NoId => r \in Reviewed)
  BY DEF WholeInv, SwapTypeOK, PricesAreSeen, Reviewed
<1>3. CASE UNCHANGED <<phase, confirm>>
  <2>1. SwapTypeOK'
    BY <1>1, <1>3 DEF WholeInv, SwapTypeOK
  <2>2. PricesAreSeen' /\ ReviewIsWhole' /\ Reviewed' \subseteq Reviewed
    BY <1>1, <1>3 DEF WholeInv, PricesAreSeen, ReviewIsWhole, Reviewed
  <2> QED
    BY <1>1, <2>1, <2>2, NoNewNumber
<1>4. CASE /\ confirm' = [review |-> r, msgs |-> MessagesOf(r), preview |-> MessagesOf(r)]
           /\ phase' = "confirm"
  <2>1. /\ confirm' \in Confirms /\ confirm'.review = r
        /\ confirm'.msgs = MessagesOf(r) /\ confirm'.preview = MessagesOf(r)
    BY <1>2, <1>4, MessagesTypes DEF Confirms
  <2>2. SwapTypeOK'
    BY <1>1, <1>4, <2>1 DEF WholeInv, SwapTypeOK
  <2>3. PricesAreSeen' /\ Reviewed' \subseteq Reviewed
    BY <1>1, <1>2, <2>1 DEF WholeInv, PricesAreSeen, Reviewed
  <2>4. ReviewIsWhole'
    BY <1>1, <1>2, <2>1 DEF WholeInv, PlansAreKeyed, Planned, ReviewIsWhole, Whole
  <2> QED
    BY <1>1, <2>2, <2>3, <2>4, NoNewNumber
<1> QED
  BY <1>3, <1>4 DEF ConfirmOpens

LEMMA AroundStep ==
  ASSUME WholeInv, StartsRecovery \/ IsDone \/ RefreshesPrice \/ SavesGas \/ Signs
  PROVE  WholeInv'
<1> USE DEF screen, requests, counts
<1>1. CASE StartsRecovery
  <2>1. SwapTypeOK'
    BY <1>1, NoneIsARecord DEF WholeInv, SwapTypeOK, StartsRecovery
  <2>2. PricesAreSeen'
    <3>1. Recovery.price <= prices
      BY NoneIsARecord, ReviewBoundsAssumption DEF WholeInv, SwapTypeOK, NoPrice
    <3> QED
      BY <1>1, <3>1 DEF WholeInv, PricesAreSeen, StartsRecovery
  <2>3. Reviewed' = Reviewed
    BY <1>1, NoneIsARecord DEF StartsRecovery, Reviewed
  <2>4. ReviewIsWhole'
    BY <1>1 DEF WholeInv, ReviewIsWhole, StartsRecovery
  <2> QED
    BY <1>1, <2>1, <2>2, <2>3, <2>4, NoNewNumber DEF StartsRecovery
<1>2. CASE IsDone
  <2>1. SwapTypeOK'
    BY <1>2, NoneIsARecord DEF WholeInv, SwapTypeOK, IsDone
  <2>2. confirm' = NotOpen /\ confirm'.review = NoReview /\ confirm'.msgs = NoReview
        /\ confirm'.preview = NoReview /\ MessagesOf(NoReview) = NoReview
    BY <1>2, NoneIsARecord DEF IsDone, MessagesOf
  <2>3. PricesAreSeen'
    <3>1. NoReview.price <= prices
      BY NoneIsARecord, ReviewBoundsAssumption DEF WholeInv, SwapTypeOK, NoPrice
    <3> QED
      BY <1>2, <2>2, <3>1 DEF WholeInv, PricesAreSeen, IsDone
  <2>4. Reviewed' \subseteq Reviewed
    BY <1>2, <2>2, NoneIsARecord DEF IsDone, Reviewed
  <2>5. ReviewIsWhole'
    BY <1>2, <2>2, NoneIsARecord DEF WholeInv, ReviewIsWhole, Whole, IsDone
  <2> QED
    BY <1>2, <2>1, <2>3, <2>4, <2>5, NoNewNumber DEF IsDone
<1>3. CASE RefreshesPrice
  <2>1. confirm.review \in Records /\ confirm.review.id # NoId /\ confirm.review \in Reviewed
    BY <1>3 DEF WholeInv, SwapTypeOK, Confirms, RefreshesPrice, OnReview, Reviewed
  <2>2. refreshing' = refreshing \cup {confirm.review} /\ requoting' = confirm.review.id
    BY <1>3 DEF RefreshesPrice
  <2>3. SwapTypeOK'
    <3>1. requoting' \in 0 .. MaxReviews
      BY <2>1, <2>2 DEF Records
    <3> QED
      BY <1>3, <2>1, <2>2, <3>1 DEF WholeInv, SwapTypeOK, RefreshesPrice
  <2>4. Reviewed' \subseteq Reviewed
    BY <1>3, <2>1, <2>2 DEF RefreshesPrice, Reviewed
  <2>5. PricesAreSeen' /\ ReviewIsWhole'
    BY <1>3 DEF WholeInv, PricesAreSeen, ReviewIsWhole, RefreshesPrice
  <2> QED
    BY <1>3, <2>1, <2>2, <2>3, <2>4, <2>5, NoNewNumber DEF RefreshesPrice
<1>4. CASE SavesGas
  <2>1. confirm.msgs \in Records
    BY DEF WholeInv, SwapTypeOK, Confirms
  <2>2. SwapTypeOK'
    BY <1>4, <2>1 DEF WholeInv, SwapTypeOK, SavesGas
  <2>3. PricesAreSeen' /\ ReviewIsWhole' /\ Reviewed' = Reviewed
    BY <1>4 DEF WholeInv, PricesAreSeen, ReviewIsWhole, SavesGas, Reviewed
  <2> QED
    BY <1>4, <2>2, <2>3, NoNewNumber DEF SavesGas
<1>5. CASE Signs
  <2>1. SwapTypeOK'
    BY <1>5 DEF WholeInv, SwapTypeOK, Signs
  <2>2. PricesAreSeen' /\ Reviewed' = Reviewed
    BY <1>5 DEF WholeInv, PricesAreSeen, Signs, Reviewed
  <2>3. ReviewIsWhole'
    BY <1>5 DEF WholeInv, ReviewIsWhole, Whole, Signs
  <2> QED
    BY <1>5, <2>1, <2>2, <2>3, NoNewNumber DEF Signs
<1> QED
  BY <1>1, <1>2, <1>3, <1>4, <1>5

LEMMA ContractStep ==
  ASSUME WholeInv, NEW r \in refreshing, ContractPriceArrives(r)
  PROVE  WholeInv'
<1> USE DEF screen, requests, counts
<1>1. /\ PathOf[r.key] = "contract" /\ refreshing' = refreshing \ {r}
      /\ UNCHANGED <<form, asked, settled, phase, busy, tracked, pricing, building, repricing,
                     signing, reviews, expired>>
  BY DEF ContractPriceArrives
<1>2. r \in Reviewed /\ r \in Records /\ r.id # NoId /\ r.key \in Keys \ {NoKey}
  BY DEF WholeInv, SwapTypeOK, NumbersAreOwn, PlansAreKeyed, Planned, Reviewed
<1>3. PICK price \in {NoPrice, prices + 1} :
        /\ price <= MaxPrices
        /\ prices' = IF price = NoPrice THEN prices ELSE price
        /\ confirm' = IF StillOpen(r) THEN [confirm EXCEPT !.review.price = price] ELSE confirm
  BY DEF ContractPriceArrives
<1>4. /\ price \in 0 .. MaxPrices /\ prices \in Nat /\ prices' \in 0 .. MaxPrices
      /\ prices <= prices' /\ price <= prices'
  BY <1>3, ReviewBoundsAssumption DEF WholeInv, SwapTypeOK, NoPrice
<1>5. requoting' \in 0 .. MaxReviews
  BY ReviewBoundsAssumption DEF WholeInv, SwapTypeOK, ContractPriceArrives, Requoted, NoId
<1>6. expired' \in 0 .. prices'
  BY <1>1, <1>4 DEF WholeInv, SwapTypeOK
<1>7. confirm \in Confirms /\ confirm.review \in Records /\ confirm.review.price \in Nat
      /\ confirm.review.price <= prices /\ Whole(confirm) /\ (\A s \in signing : Whole(s))
  BY DEF WholeInv, SwapTypeOK, Confirms, Records, PricesAreSeen, ReviewIsWhole
<1>8. \A b \in building' : b.price <= prices'
  <2>1. \A b \in building : b.price \in Nat /\ b.price <= prices
    BY DEF WholeInv, SwapTypeOK, Records, PricesAreSeen
  <2> QED
    BY <1>1, <1>4, <2>1
<1>9. CASE confirm' = confirm
  <2>1. SwapTypeOK'
    BY <1>1, <1>4, <1>5, <1>6, <1>9 DEF WholeInv, SwapTypeOK
  <2>2. PricesAreSeen'
    BY <1>4, <1>7, <1>8, <1>9 DEF PricesAreSeen
  <2>3. ReviewIsWhole' /\ Reviewed' \subseteq Reviewed
    BY <1>1, <1>9 DEF WholeInv, ReviewIsWhole, Reviewed
  <2> QED
    BY <1>1, <2>1, <2>2, <2>3, NoNewNumber
<1>10. CASE StillOpen(r) /\ confirm' = [confirm EXCEPT !.review.price = price]
  <2>1. confirm.review \in Reviewed /\ confirm.review.key = r.key
    BY <1>2, <1>10 DEF WholeInv, NumbersAreOwn, Reviewed, StillOpen
  <2>2. /\ confirm' \in Confirms /\ confirm'.review = [confirm.review EXCEPT !.price = price]
        /\ confirm'.msgs = confirm.msgs /\ confirm'.preview = confirm.preview
    BY <1>4, <1>7, <1>10 DEF Confirms, Records
  <2>3. /\ confirm'.review.id = confirm.review.id /\ confirm'.review.key = confirm.review.key
        /\ confirm'.review.plan = confirm.review.plan /\ confirm'.review.price = price
    BY <1>7, <2>2 DEF Records
  <2>4. r.key # NoKey
    BY <1>2
  <2>5. confirm'.msgs = MessagesOf(confirm'.review) /\ confirm'.preview = confirm'.msgs
    BY <1>1, <1>4, <1>7, <2>1, <2>2, <2>4, MessagesTypes DEF Whole
  <2>6. ReviewIsWhole'
    BY <1>1, <1>7, <2>3, <2>5 DEF ReviewIsWhole, Whole
  <2>7. SwapTypeOK'
    BY <1>1, <1>4, <1>5, <1>6, <2>2 DEF WholeInv, SwapTypeOK
  <2>8. PricesAreSeen'
    BY <1>4, <1>8, <2>3 DEF PricesAreSeen
  <2>9. \A x \in Reviewed' : \E q \in Reviewed : x.id = q.id /\ x.key = q.key /\ x.plan = q.plan
    BY <1>1, <2>1, <2>3 DEF Reviewed
  <2> QED
    BY <1>1, <2>6, <2>7, <2>8, <2>9, NoNewNumber
<1> QED
  BY <1>3, <1>9, <1>10

LEMMA PoolStep ==
  ASSUME WholeInv, NEW r \in refreshing, PoolReviewArrives(r)
  PROVE  WholeInv'
<1> USE DEF screen, requests, counts
<1>1. /\ refreshing' = refreshing \ {r}
      /\ UNCHANGED <<form, asked, settled, phase, busy, tracked, pricing, building, repricing,
                     signing, reviews, expired>>
  BY DEF PoolReviewArrives
<1>2. r \in Reviewed /\ r \in Records /\ r.id # NoId /\ KeyOf[r.plan] = r.key
  BY DEF WholeInv, SwapTypeOK, NumbersAreOwn, PlansAreKeyed, Planned, Reviewed
<1>3. /\ requoting' \in 0 .. MaxReviews /\ prices \in Nat /\ expired \in 0 .. prices
      /\ confirm \in Confirms
  BY ReviewBoundsAssumption DEF WholeInv, SwapTypeOK, PoolReviewArrives, Requoted, NoId
<1>4. CASE confirm' = confirm /\ prices' = prices
  <2>1. SwapTypeOK'
    BY <1>1, <1>3, <1>4 DEF WholeInv, SwapTypeOK
  <2>2. PricesAreSeen' /\ ReviewIsWhole' /\ Reviewed' \subseteq Reviewed
    BY <1>1, <1>4 DEF WholeInv, PricesAreSeen, ReviewIsWhole, Reviewed
  <2> QED
    BY <1>1, <2>1, <2>2, NoNewNumber
<1> DEFINE review == [r EXCEPT !.price = prices + 1]
<1>5. CASE /\ prices < MaxPrices /\ prices' = prices + 1
           /\ confirm' = IF StillOpen(r)
                         THEN [review |-> review, msgs |-> MessagesOf(review), preview |-> MessagesOf(review)]
                         ELSE confirm
  <2>1. prices + 1 \in 0 .. MaxPrices /\ expired \in 0 .. prices + 1
    BY <1>3, <1>5, ReviewBoundsAssumption
  <2>2. /\ review \in Records /\ review.id = r.id /\ review.key = r.key /\ review.plan = r.plan
        /\ review.price = prices + 1
    BY <1>2, <2>1 DEF Records
  <2> HIDE DEF review
  <2>3. MessagesOf(review) \in Records
    BY <2>2, MessagesTypes
  <2>4. \/ confirm' = confirm
        \/ /\ confirm' \in Confirms /\ confirm'.review = review
           /\ confirm'.msgs = MessagesOf(review) /\ confirm'.preview = MessagesOf(review)
    BY <1>5, <2>2, <2>3 DEF Confirms
  <2>5. SwapTypeOK'
    <3>1. confirm' \in Confirms
      BY <1>3, <2>4
    <3> QED
      BY <1>1, <1>3, <1>5, <2>1, <3>1 DEF WholeInv, SwapTypeOK
  <2>6. PricesAreSeen'
    <3>1. \A b \in building' : b.price <= prices'
      <4>1. \A b \in building : b.price \in Nat /\ b.price <= prices
        BY DEF WholeInv, SwapTypeOK, Records, PricesAreSeen
      <4> QED
        BY <1>1, <1>3, <1>5, <4>1
    <3>2. confirm.review.price \in Nat /\ confirm.review.price <= prices
      BY <1>3 DEF WholeInv, Confirms, Records, PricesAreSeen
    <3>3. confirm'.review.price <= prices'
      BY <1>3, <1>5, <2>2, <2>4, <3>2
    <3> QED
      BY <3>1, <3>3 DEF PricesAreSeen
  <2>7. ReviewIsWhole'
    BY <1>1, <1>2, <2>2, <2>4 DEF WholeInv, ReviewIsWhole, Whole
  <2>8. \A x \in Reviewed' : \E q \in Reviewed : x.id = q.id /\ x.key = q.key /\ x.plan = q.plan
    BY <1>1, <1>2, <2>2, <2>4 DEF Reviewed
  <2> QED
    BY <1>1, <2>5, <2>6, <2>7, <2>8, NoNewNumber
<1> QED
  BY <1>4, <1>5 DEF PoolReviewArrives

LEMMA RepricingStep ==
  ASSUME WholeInv, NEW g \in repricing, Reprices(g) \/ RepricedArrives(g)
  PROVE  WholeInv'
<1> USE DEF screen, requests, counts
<1>1. g \in [pc : {"saves", "builds"}, msgs : Records] /\ confirm \in Confirms
  BY DEF WholeInv, SwapTypeOK
<1>2. CASE Reprices(g)
  <2>1. SwapTypeOK'
    BY <1>1, <1>2 DEF WholeInv, SwapTypeOK, Reprices
  <2>2. PricesAreSeen' /\ ReviewIsWhole' /\ Reviewed' = Reviewed
    BY <1>2 DEF WholeInv, PricesAreSeen, ReviewIsWhole, Reprices, Reviewed
  <2> QED
    BY <1>2, <2>1, <2>2, NoNewNumber DEF Reprices
<1>3. CASE RepricedArrives(g)
  <2>1. confirm' = confirm \/ (confirm.msgs = g.msgs /\ confirm' = [confirm EXCEPT !.preview = g.msgs])
    BY <1>3 DEF RepricedArrives
  <2>2. confirm' = confirm
    BY <1>1, <2>1 DEF WholeInv, ReviewIsWhole, Whole, Confirms
  <2>3. SwapTypeOK'
    BY <1>3, <2>2 DEF WholeInv, SwapTypeOK, RepricedArrives
  <2>4. PricesAreSeen' /\ ReviewIsWhole' /\ Reviewed' = Reviewed
    BY <1>3, <2>2 DEF WholeInv, PricesAreSeen, ReviewIsWhole, RepricedArrives, Reviewed
  <2> QED
    BY <1>3, <2>3, <2>4, NoNewNumber DEF RepricedArrives
<1> QED
  BY <1>2, <1>3

LEMMA SigningStep ==
  ASSUME WholeInv, NEW s \in signing, SigningFails(s) \/ IsSent(s)
  PROVE  WholeInv'
<1> USE DEF screen, requests, counts
<1>1. /\ signing' \subseteq signing
      /\ busy' = FALSE /\ phase' \in {phase, "sent"} /\ tracked' \in {tracked, TRUE}
      /\ UNCHANGED <<form, asked, settled, confirm, pricing, building, requoting, refreshing, repricing,
                     reviews, prices, expired>>
  BY DEF SigningFails, IsSent
<1>2. SwapTypeOK'
  BY <1>1 DEF WholeInv, SwapTypeOK
<1>3. PricesAreSeen' /\ ReviewIsWhole' /\ Reviewed' = Reviewed
  BY <1>1 DEF WholeInv, PricesAreSeen, ReviewIsWhole, Reviewed
<1> QED
  BY <1>1, <1>2, <1>3, NoNewNumber

LEMMA WholeStep == WholeInv /\ [SwapNext]_swapVars => WholeInv'
<1> SUFFICES ASSUME WholeInv, [SwapNext]_swapVars PROVE WholeInv'
  OBVIOUS
<1>1. CASE UNCHANGED swapVars
  <2>1. SwapTypeOK'
    BY <1>1 DEF WholeInv, SwapTypeOK, swapVars, screen, requests, counts
  <2> QED
    BY <1>1, <2>1, WholeStays DEF swapVars, screen, requests, counts, WholeInv, PlansAreKeyed
<1>2. CASE FormMoves \/ PlanArrives \/ GoesBack \/ PriceAges
  BY <1>2, FormStep
<1>3. CASE Reviews
  BY <1>3, ReviewsStep
<1>4. CASE \E r \in pricing : ReviewPriced(r)
  BY <1>4, ReviewPricedStep
<1>5. CASE \E r \in building : ConfirmOpens(r)
  BY <1>5, ConfirmOpensStep
<1>6. CASE StartsRecovery \/ IsDone \/ RefreshesPrice \/ SavesGas \/ Signs
  BY <1>6, AroundStep
<1>7. CASE \E r \in refreshing : ContractPriceArrives(r) \/ PoolReviewArrives(r)
  BY <1>7, ContractStep, PoolStep
<1>8. CASE \E g \in repricing : Reprices(g) \/ RepricedArrives(g)
  BY <1>8, RepricingStep
<1>9. CASE \E s \in signing : SigningFails(s) \/ IsSent(s)
  BY <1>9, SigningStep
<1> QED
  BY <1>1, <1>2, <1>3, <1>4, <1>5, <1>6, <1>7, <1>8, <1>9 DEF SwapNext

(* The values of the swap screen: no answer brings one from outside its range. *)
THEOREM SwapTypes == SwapSpec => []SwapTypeOK
<1>1. WholeInv => SwapTypeOK
  BY DEF WholeInv
<1> QED
  BY <1>1, WholeStart, WholeStep, PTL DEF SwapSpec

(* What is on the confirm screen, and what goes to be signed, is one review:  *)
(* its plan is for its own key and the messages and their preview are its own, *)
(* however many reviews, prices and repricings are on their way.              *)
THEOREM ReviewStaysWhole == SwapSpec => []ReviewIsWhole
<1>1. WholeInv => ReviewIsWhole
  BY DEF WholeInv
<1> QED
  BY <1>1, WholeStart, WholeStep, PTL DEF SwapSpec

-----------------------------------------------------------------------------
(* Following what was sent *)

-----------------------------------------------------------------------------
(* A watched transfer *)

Routes == {"unsent", "moving", "ended", "stranded"}
PassPoints == {"idle", "tracks", "notes", "marks", "noted", "drops"}
Writings == [pc : {"idle", "saves", "removes"}, about : SUBSET Transfers, read : SUBSET Transfers]
PassRecords == [pc : PassPoints, todo : SUBSET Transfers, read : SUBSET Transfers,
                notes : Seq(Transfers)]

Runs(k) == pass[k].pc # "idle"
RunsOnTodo == \A k \in Passes : Runs(k) => pass[k].todo # {}
WatchShapes == WatchTypeOK /\ RunsOnTodo

\* A set of transfers has a last one sent.
LEMMA MaxIsIn ==
  ASSUME NEW S \in SUBSET Transfers, S # {}
  PROVE  Max(S) \in S /\ \A g \in S : g <= Max(S)
<1>0. MaxTransfers \in Nat
  BY WatchBoundsAssumption
<1>. DEFINE Up == {n \in Nat : \A g \in S : g <= n}
<1>3. MaxTransfers \in Up /\ Up \in SUBSET Nat
  BY <1>0 DEF Transfers
<1>4. PICK m \in Up : \A n \in Up : m <= n
  BY <1>3, LeastNatural
<1>5. \A n \in Up : ~ (n < m)
  BY <1>3, <1>4
<1>6. m \in S
  <2>1. SUFFICES ASSUME m \notin S PROVE FALSE
    OBVIOUS
  <2>2. \A g \in S : g \in Nat /\ g # 0 /\ g <= m /\ g # m
    BY <1>0, <2>1 DEF Transfers
  <2>3. PICK g \in S : TRUE
    OBVIOUS
  <2>4. m \in Nat /\ m - 1 \in Nat
    BY <2>2, <2>3
  <2>5. m - 1 \in Up
    BY <2>2, <2>4
  <2>. QED
    BY <1>5, <2>4, <2>5
<1>7. \E x \in S : \A y \in S : x >= y
  BY <1>0, <1>6 DEF Transfers
<1>8. Max(S) \in S /\ \A y \in S : Max(S) >= y
  BY <1>7, Zenon DEF Max
<1>. QED
  BY <1>0, <1>8 DEF Transfers

LEMMA TrackedIsTodo ==
  ASSUME WatchShapes, NEW k \in Passes, Runs(k)
  PROVE  Tracked(k) \in pass[k].todo /\ Tracked(k) \in Transfers
<1>1. pass[k].todo \in SUBSET Transfers /\ pass[k].todo # {}
  BY DEF WatchShapes, WatchTypeOK, RunsOnTodo
<1>. QED
  BY <1>1, MaxIsIn DEF Tracked

LEMMA NotRunningIsPass == NotRunning \in PassRecords /\ NotRunning.pc = "idle"
  BY DEF NotRunning, PassRecords, PassPoints

LEMMA PassGoesOn ==
  ASSUME WatchTypeOK, NEW k \in Passes, NEW pc \in PassPoints, NEW todo \in SUBSET Transfers,
         PassGoes(k, pc, todo)
  PROVE  /\ pass' \in [Passes -> PassRecords]
         /\ pass'[k].pc = pc /\ pass'[k].todo = todo
         /\ \A l \in Passes \ {k} : pass'[l] = pass[l]
<1>1. [NotRunning EXCEPT !.pc = pc, !.todo = todo] \in PassRecords
  BY NotRunningIsPass DEF PassRecords
<1>2. /\ [NotRunning EXCEPT !.pc = pc, !.todo = todo].pc = pc
      /\ [NotRunning EXCEPT !.pc = pc, !.todo = todo].todo = todo
  BY DEF NotRunning
<1>3. pass \in [Passes -> PassRecords]
  BY DEF WatchTypeOK, PassRecords, PassPoints
<1>. QED
  BY <1>1, <1>2, <1>3 DEF PassGoes

\* A pass that moves on tracks the rest, or is over and has the alarm brought up to date.
LEMMA PassMovesOnTo ==
  ASSUME WatchTypeOK, NEW k \in Passes, PassMovesOn(k)
  PROVE  /\ pass' \in [Passes -> PassRecords]
         /\ \A l \in Passes \ {k} : pass'[l] = pass[l]
         /\ pass'[k].todo = pass[k].todo \ {Tracked(k)}
         /\ \/ pass'[k].pc = "tracks" /\ pass'[k].todo # {} /\ syncing' = syncing
            \/ pass'[k].pc = "idle" /\ syncing' = syncing \cup {"reads"}
<1>. DEFINE rest == pass[k].todo \ {Tracked(k)}
<1>1. rest \in SUBSET Transfers /\ {} \in SUBSET Transfers /\ "tracks" \in PassPoints /\ "idle" \in PassPoints
  BY DEF WatchTypeOK, PassPoints
<1>2. CASE rest # {}
  BY <1>1, <1>2, PassGoesOn DEF PassMovesOn
<1>3. CASE rest = {}
  BY <1>1, <1>3, PassGoesOn DEF PassMovesOn
<1>. QED
  BY <1>2, <1>3

LEMMA WatchInitShapes == WatchInit => WatchShapes
<1>. SUFFICES ASSUME WatchInit PROVE WatchShapes
  OBVIOUS
<1>1. pass \in [Passes -> PassRecords] /\ \A k \in Passes : pass[k].pc = "idle"
  BY NotRunningIsPass DEF WatchInit
<1>2. writing \in [Screens -> Writings]
  <2>1. Untouched \in Writings
    BY DEF Untouched, Writings
  <2>. QED
    BY <2>1 DEF WatchInit
<1>3. /\ listed \subseteq Transfers /\ notified \in Seq(Transfers)
      /\ watching \in BOOLEAN /\ changed \in BOOLEAN /\ awake \in BOOLEAN
      /\ aged \cup cut \cup parted \subseteq Transfers
      /\ syncing \subseteq {"reads", "gets", "creates"}
  <2>1. listed = {} /\ notified = <<>> /\ watching = FALSE /\ changed = FALSE /\ awake = TRUE
        /\ aged = {} /\ cut = {} /\ parted = {} /\ syncing = {}
    BY DEF WatchInit
  <2>2. <<>> \in Seq(Transfers)
    OBVIOUS
  <2>. QED
    BY <2>1, <2>2
<1>4. route \in [Transfers -> Routes] /\ watchStops \in Nat /\ alerts \in [Transfers -> Nat]
  BY DEF WatchInit, Routes
<1>. QED
  BY <1>1, <1>2, <1>3, <1>4
     DEF WatchShapes, WatchTypeOK, RunsOnTodo, Runs, Writings, PassRecords, PassPoints, Routes

\* What a step of a screen's leaves alone.
workings == <<notified, watching, pass, syncing, awake, watchStops, alerts, cut>>

LEMMA ScreenShapes ==
  ASSUME WatchShapes, NEW s \in Screens,
         \/ ScreenWrites(s) \/ ScreenCloses(s)
         \/ \E h \in Transfers : Sends(s, h) \/ Forgets(s, h)
  PROVE  WatchShapes' /\ UNCHANGED workings
<1>0. /\ writing \in [Screens -> Writings] /\ listed \subseteq Transfers /\ parted \subseteq Transfers
      /\ route \in [Transfers -> Routes] /\ changed \in BOOLEAN /\ aged \subseteq Transfers
  BY DEF WatchShapes, WatchTypeOK, Writings, Routes
<1>1. UNCHANGED workings
  BY DEF ScreenWrites, ScreenCloses, Sends, Forgets, workings, stores, Writes
<1>2. /\ writing' \in [Screens -> Writings] /\ listed' \subseteq Transfers /\ parted' \subseteq Transfers
      /\ route' \in [Transfers -> Routes] /\ changed' \in BOOLEAN /\ aged' \subseteq Transfers
  <2>0. Untouched \in Writings
    BY DEF Untouched, Writings
  <2>1. CASE ScreenWrites(s)
    <3>1. PICK h \in writing[s].about :
            LET others == Dropped(writing[s].read, h)
                list == IF writing[s].pc = "saves" THEN Capped({h} \cup others) ELSE others
            IN Writes(list) /\ parted' = parted \cup (others \ list)
      BY <2>1 DEF ScreenWrites
    <3>. DEFINE others == Dropped(writing[s].read, h)
                list == IF writing[s].pc = "saves" THEN Capped({h} \cup others) ELSE others
    <3>2. others \subseteq Transfers /\ list \subseteq Transfers
      BY <1>0 DEF Writings, Dropped, Capped
    <3>3. listed' = list /\ changed' = (changed \/ list # listed) /\ parted' = parted \cup (others \ list)
      BY <3>1 DEF Writes
    <3>. HIDE DEF others, list
    <3>4. changed' \in BOOLEAN /\ listed' \subseteq Transfers /\ parted' \subseteq Transfers
      BY <1>0, <3>2, <3>3
    <3>. QED
      BY <1>0, <2>0, <2>1, <3>4 DEF ScreenWrites
  <2>2. CASE ScreenCloses(s)
    BY <1>0, <2>0, <2>2 DEF ScreenCloses, stores, Writings
  <2>3. ASSUME NEW h \in Transfers, Sends(s, h)
        PROVE  /\ writing' \in [Screens -> Writings] /\ listed' \subseteq Transfers /\ parted' \subseteq Transfers
               /\ route' \in [Transfers -> Routes] /\ changed' \in BOOLEAN /\ aged' \subseteq Transfers
    <3>1. [pc |-> "saves", about |-> {h}, read |-> Followed] \in Writings
      BY <1>0 DEF Writings, Followed
    <3>2. parted' \subseteq Transfers
      BY <1>0, <2>3 DEF Sends, Reads
    <3>. QED
      BY <1>0, <2>3, <3>1, <3>2 DEF Sends, stores, Routes
  <2>4. ASSUME NEW h \in Transfers, Forgets(s, h)
        PROVE  /\ writing' \in [Screens -> Writings] /\ listed' \subseteq Transfers /\ parted' \subseteq Transfers
               /\ route' \in [Transfers -> Routes] /\ changed' \in BOOLEAN /\ aged' \subseteq Transfers
    <3>1. [pc |-> "removes", about |-> {h}, read |-> Followed] \in Writings
      BY <1>0 DEF Writings, Followed
    <3>2. parted' \subseteq Transfers
      BY <1>0, <2>4 DEF Forgets, Reads
    <3>. QED
      BY <1>0, <2>4, <3>1, <3>2 DEF Forgets, stores
  <2>. QED
    BY <2>1, <2>2, <2>3, <2>4
<1>. QED
  BY <1>1, <1>2 DEF WatchShapes, WatchTypeOK, RunsOnTodo, Runs, Writings, Routes, workings

\* What a step of the worker's leaves alone.
chains == <<route, aged, writing>>

\* A step of a pass: it goes on with what it is at, or moves on.
LEMMA PassStepMoves ==
  ASSUME WatchShapes, NEW k \in Passes,
         \/ TrackFindsNothing(k) \/ Alerts(k) \/ NotesRead(k) \/ Marks(k)
         \/ Keeps(k) \/ DropReads(k) \/ Drops(k)
  PROVE  /\ pass' \in [Passes -> PassRecords] /\ Runs(k)
         /\ \A l \in Passes \ {k} : pass'[l] = pass[l]
         /\ \/ /\ pass'[k].pc \in {"notes", "marks", "noted", "drops"} /\ pass'[k].todo = pass[k].todo
               /\ syncing' = syncing
            \/ /\ pass'[k].pc = "tracks" /\ pass'[k].todo # {} /\ syncing' = syncing
               /\ pass'[k].todo = pass[k].todo \ {Tracked(k)}
            \/ /\ pass'[k].pc = "idle" /\ syncing' = syncing \cup {"reads"}
               /\ pass'[k].todo = pass[k].todo \ {Tracked(k)}
<1>0. pass \in [Passes -> PassRecords] /\ pass[k].todo \in SUBSET Transfers /\ WatchTypeOK
      /\ notified \in Seq(Transfers) /\ listed \subseteq Transfers
  BY DEF WatchShapes, WatchTypeOK, PassRecords, PassPoints
<1>1. CASE TrackFindsNothing(k) \/ Keeps(k) \/ Drops(k)
  BY <1>0, <1>1, PassMovesOnTo DEF TrackFindsNothing, Keeps, Drops, PassIs, Runs
<1>2. CASE Alerts(k)
  <2>1. "notes" \in PassPoints
    BY DEF PassPoints
  <2>. QED
    BY <1>0, <1>2, <2>1, PassGoesOn DEF Alerts, PassIs, Runs
<1>3. CASE NotesRead(k)
  <2>1. "noted" \in PassPoints /\ "marks" \in PassPoints
    BY DEF PassPoints
  <2>2. CASE Untold(Tracked(k))
    <3>. DEFINE now == [pass[k] EXCEPT !.pc = "marks", !.notes = notified]
    <3>1. pass[k] \in PassRecords
      BY <1>0
    <3>2. now \in PassRecords /\ now.pc = "marks" /\ now.todo = pass[k].todo
      BY <1>0, <2>1, <3>1 DEF PassRecords
    <3>3. pass' = [pass EXCEPT ![k].pc = "marks", ![k].notes = notified]
          /\ syncing' = syncing /\ Runs(k)
      BY <1>3, <2>2 DEF NotesRead, PassIs, Runs
    <3>4. pass' = [pass EXCEPT ![k] = now]
      BY <1>0, <3>3
    <3>. HIDE DEF now
    <3>. QED
      BY <1>0, <3>2, <3>3, <3>4
  <2>3. CASE ~Untold(Tracked(k))
    BY <1>0, <1>3, <2>1, <2>3, PassGoesOn DEF NotesRead, PassIs, Runs
  <2>. QED
    BY <2>2, <2>3
<1>4. CASE Marks(k)
  <2>1. "noted" \in PassPoints
    BY DEF PassPoints
  <2>. QED
    BY <1>0, <1>4, <2>1, PassGoesOn DEF Marks, PassIs, Runs
<1>5. CASE DropReads(k)
  <2>1. "drops" \in PassPoints /\ Followed \in SUBSET Transfers
    BY <1>0 DEF PassPoints, Followed
  <2>. QED
    BY <1>0, <1>5, <2>1 DEF DropReads, PassIs, Runs, PassRecords
<1>. QED
  BY <1>1, <1>2, <1>3, <1>4, <1>5

LEMMA PassStepShapes ==
  ASSUME WatchShapes, NEW k \in Passes,
         \/ TrackFindsNothing(k) \/ Alerts(k) \/ NotesRead(k) \/ Marks(k)
         \/ Keeps(k) \/ DropReads(k) \/ Drops(k)
  PROVE  WatchShapes' /\ UNCHANGED <<chains, watching, awake, watchStops>>
<1>0. WatchTypeOK /\ RunsOnTodo
  BY DEF WatchShapes
<1>1. UNCHANGED <<chains, watching, awake, watchStops>>
  BY DEF TrackFindsNothing, Alerts, NotesRead, Marks, Keeps, DropReads, Drops, chains, stores, history
<1>2. /\ pass' \in [Passes -> PassRecords] /\ Runs(k)
      /\ \A l \in Passes \ {k} : pass'[l] = pass[l]
      /\ syncing' \subseteq {"reads", "gets", "creates"}
  BY <1>0, PassStepMoves DEF WatchTypeOK
<1>3. RunsOnTodo'
  <2>1. pass'[k].pc # "idle" => pass'[k].todo # {}
    BY <1>0, PassStepMoves DEF RunsOnTodo, Runs
  <2>. QED
    BY <1>0, <1>2, <2>1 DEF RunsOnTodo, Runs
<1>4. Tracked(k) \in Transfers /\ pass[k].notes \in Seq(Transfers) /\ pass[k].read \in SUBSET Transfers
  BY <1>2, TrackedIsTodo DEF WatchShapes, WatchTypeOK
<1>5. notified' \in Seq(Transfers)
  <2>1. CASE Marks(k)
    <3>. DEFINE list == <<Tracked(k)>> \o pass[k].notes
    <3>1. list \in Seq(Transfers)
      BY <1>4
    <3>2. notified' = IF Len(list) > MaxNotified THEN SubSeq(list, 1, MaxNotified) ELSE list
      BY <2>1 DEF Marks
    <3>3. MaxNotified \in Nat
      BY WatchBoundsAssumption
    <3>. HIDE DEF list
    <3>4. Len(list) > MaxNotified => SubSeq(list, 1, MaxNotified) \in Seq(Transfers)
      BY <3>1, <3>3, SubSeqProperties
    <3>. QED
      BY <3>1, <3>2, <3>4
  <2>2. CASE ~Marks(k)
    BY <1>0, <2>2 DEF TrackFindsNothing, Alerts, NotesRead, Keeps, DropReads, Drops, stores, WatchTypeOK
  <2>. QED
    BY <2>1, <2>2
<1>6. listed' \subseteq Transfers /\ changed' \in BOOLEAN
  <2>1. CASE Drops(k)
    BY <1>0, <1>4, <2>1 DEF Drops, Writes, Dropped, WatchTypeOK
  <2>2. CASE ~Drops(k)
    BY <1>0, <2>2 DEF TrackFindsNothing, Alerts, NotesRead, Marks, Keeps, DropReads, stores, WatchTypeOK
  <2>. QED
    BY <2>1, <2>2
<1>7. alerts' \in [Transfers -> Nat] /\ parted' \subseteq Transfers /\ cut' = cut
  <2>1. CASE Alerts(k)
    BY <1>0, <1>4, <2>1 DEF Alerts, WatchTypeOK
  <2>2. CASE ~Alerts(k)
    BY <1>0, <2>2
       DEF TrackFindsNothing, NotesRead, Marks, Keeps, DropReads, Drops, Reads, history, WatchTypeOK
  <2>. QED
    BY <2>1, <2>2
<1>. QED
  BY <1>0, <1>1, <1>2, <1>3, <1>5, <1>6, <1>7
     DEF WatchShapes, WatchTypeOK, chains, PassRecords, PassPoints

\* The pass begins: it is the only one that runs.
LEMMA AlarmRingsTo ==
  ASSUME WatchShapes, NEW k \in Passes, AlarmRings(k)
  PROVE  /\ WatchShapes' /\ UNCHANGED <<stores, chains, changed, watchStops, history>>
         /\ \A l \in Passes : ~ Runs(l)
         /\ awake' = TRUE
         /\ \/ /\ Watchable # {} /\ pass'[k].pc = "tracks" /\ pass'[k].todo = Watchable
               /\ \A l \in Passes \ {k} : pass'[l] = pass[l]
            \/ Watchable = {} /\ pass' = pass /\ syncing' = syncing \cup {"reads"}
<1>0. WatchTypeOK /\ RunsOnTodo
  BY DEF WatchShapes
<1>1. /\ UNCHANGED <<stores, chains, changed, watchStops, history>>
      /\ \A l \in Passes : ~ Runs(l)
      /\ awake' = TRUE
  BY DEF AlarmRings, chains, Free, PassIs, Runs
<1>2. CASE Watchable # {}
  <2>1. Watchable \in SUBSET Transfers /\ "tracks" \in PassPoints
    BY <1>0 DEF Watchable, Followed, WatchTypeOK, PassPoints
  <2>2. /\ PassGoes(k, "tracks", Watchable)
        /\ syncing' = syncing \cup (IF awake THEN {} ELSE {"reads"})
    BY <1>2 DEF AlarmRings
  <2>3. /\ pass' \in [Passes -> PassRecords]
        /\ pass'[k].pc = "tracks" /\ pass'[k].todo = Watchable
        /\ \A l \in Passes \ {k} : pass'[l] = pass[l]
    BY <1>0, <2>1, <2>2, PassGoesOn
  <2>4. syncing' \subseteq {"reads", "gets", "creates"}
    BY <1>0, <2>2 DEF WatchTypeOK
  <2>5. RunsOnTodo'
    BY <1>1, <1>2, <2>3 DEF RunsOnTodo, Runs
  <2>6. WatchTypeOK'
    BY <1>0, <1>1, <2>3, <2>4 DEF WatchTypeOK, stores, chains, history, PassRecords, PassPoints
  <2>. QED
    BY <1>1, <1>2, <2>3, <2>5, <2>6 DEF WatchShapes
<1>3. CASE Watchable = {}
  <2>1. syncing' = syncing \cup {"reads"} /\ pass' = pass
    BY <1>3 DEF AlarmRings
  <2>2. WatchTypeOK' /\ RunsOnTodo'
    BY <1>0, <1>1, <2>1 DEF WatchTypeOK, stores, chains, history, RunsOnTodo, Runs
  <2>. QED
    BY <1>1, <1>3, <2>1, <2>2 DEF WatchShapes
<1>. QED
  BY <1>2, <1>3

LEMMA SyncShapes ==
  ASSUME WatchShapes, ChangeHeard \/ SyncReads \/ SyncGets \/ SyncCreates \/ WatchWorkerStarts
  PROVE  WatchShapes' /\ UNCHANGED <<listed, notified, chains, pass, watchStops, history>>
<1>0. WatchTypeOK /\ RunsOnTodo
  BY DEF WatchShapes
<1>1. UNCHANGED <<listed, notified, chains, pass, watchStops, history>>
  BY DEF ChangeHeard, SyncReads, SyncGets, SyncCreates, WatchWorkerStarts, chains, stores
<1>2. syncing' \subseteq {"reads", "gets", "creates"}
  BY <1>0 DEF ChangeHeard, SyncReads, SyncGets, SyncCreates, WatchWorkerStarts, WatchTypeOK
<1>3. watching' \in BOOLEAN /\ changed' \in BOOLEAN /\ awake' \in BOOLEAN
  BY <1>0 DEF ChangeHeard, SyncReads, SyncGets, SyncCreates, WatchWorkerStarts, WatchTypeOK, stores
<1>. QED
  BY <1>0, <1>1, <1>2, <1>3 DEF WatchShapes, WatchTypeOK, RunsOnTodo, Runs, chains, history

LEMMA WorkerStopsShapes ==
  ASSUME WatchShapes, WatchWorkerStops
  PROVE  /\ WatchShapes' /\ UNCHANGED <<stores, chains, changed, alerts, parted>>
         /\ \A k \in Passes : ~ Runs(k)'
<1>0. WatchTypeOK
  BY DEF WatchShapes
<1>1. /\ pass' = [k \in Passes |-> NotRunning]
      /\ cut' = cut \cup {h \in Transfers : \E k \in Passes :
                            pass[k].pc \in {"notes", "marks"} /\ h = Tracked(k)}
      /\ awake' = FALSE /\ syncing' = {} /\ watchStops' = watchStops + 1
      /\ UNCHANGED <<stores, chains, changed, alerts, parted>>
  BY DEF WatchWorkerStops, chains
<1>2. pass' \in [Passes -> PassRecords] /\ \A k \in Passes : ~ Runs(k)'
  BY <1>1, NotRunningIsPass DEF Runs
<1>3. cut' \subseteq Transfers /\ watchStops' \in Nat
  BY <1>0, <1>1 DEF WatchTypeOK
<1>. QED
  BY <1>0, <1>1, <1>2, <1>3
     DEF WatchShapes, WatchTypeOK, RunsOnTodo, stores, chains, PassRecords, PassPoints

LEMMA ChainShapes ==
  ASSUME WatchShapes, NEW h \in Transfers, Arrives(h) \/ Ages(h)
  PROVE  /\ WatchShapes'
         /\ UNCHANGED <<stores, writing, pass, syncing, changed, awake, watchStops, history>>
         /\ aged \subseteq aged'
         /\ \A g \in Transfers : route[g] = "unsent" <=> route'[g] = "unsent"
<1>0. WatchTypeOK
  BY DEF WatchShapes
<1>1. UNCHANGED <<stores, writing, pass, syncing, changed, awake, watchStops, history>>
  BY DEF Arrives, Ages, stores, history
<1>2. /\ route' \in [Transfers -> Routes] /\ aged \subseteq aged' /\ aged' \subseteq Transfers
      /\ \A g \in Transfers : route[g] = "unsent" <=> route'[g] = "unsent"
  <2>1. CASE Arrives(h)
    <3>1. PICK end \in {"ended", "stranded"} : route' = [route EXCEPT ![h] = end]
      BY <2>1 DEF Arrives
    <3>2. aged' = aged /\ route[h] = "moving"
      BY <2>1 DEF Arrives
    <3>. QED
      BY <1>0, <3>1, <3>2 DEF WatchTypeOK, Routes
  <2>2. CASE Ages(h)
    BY <1>0, <2>2 DEF Ages, WatchTypeOK, Routes
  <2>. QED
    BY <2>1, <2>2
<1>. QED
  BY <1>0, <1>1, <1>2 DEF WatchShapes, WatchTypeOK, RunsOnTodo, Runs, Routes, stores, history

LEMMA WatchKeepsShapes == WatchShapes /\ [WatchNext]_watchVars => WatchShapes'
<1>. SUFFICES ASSUME WatchShapes, [WatchNext]_watchVars PROVE WatchShapes'
  OBVIOUS
<1>1. ASSUME NEW s \in Screens,
             \/ ScreenWrites(s) \/ ScreenCloses(s)
             \/ \E h \in Transfers : Sends(s, h) \/ Forgets(s, h)
      PROVE  WatchShapes'
  BY <1>1, ScreenShapes
<1>2. ASSUME NEW k \in Passes, AlarmRings(k) PROVE WatchShapes'
  BY <1>2, AlarmRingsTo
<1>3. ASSUME NEW k \in Passes,
             \/ TrackFindsNothing(k) \/ Alerts(k) \/ NotesRead(k) \/ Marks(k)
             \/ Keeps(k) \/ DropReads(k) \/ Drops(k)
      PROVE  WatchShapes'
  BY <1>3, PassStepShapes
<1>4. CASE ChangeHeard \/ SyncReads \/ SyncGets \/ SyncCreates \/ WatchWorkerStarts
  BY <1>4, SyncShapes
<1>5. CASE WatchWorkerStops
  BY <1>5, WorkerStopsShapes
<1>6. ASSUME NEW h \in Transfers, Arrives(h) \/ Ages(h) PROVE WatchShapes'
  BY <1>6, ChainShapes
<1>7. CASE UNCHANGED watchVars
  BY <1>7 DEF watchVars, stores, history, WatchShapes, WatchTypeOK, RunsOnTodo, Runs
<1>. QED
  BY <1>1, <1>2, <1>3, <1>4, <1>5, <1>6, <1>7 DEF WatchNext

-----------------------------------------------------------------------------
(* The alarm *)

\* A transfer to be told of has its alarm, or something that will look for it.
LookedFor ==
  Watchable # {} /\ ~watching => changed \/ syncing # {} \/ ~awake \/ \E k \in Passes : Runs(k)

LEMMA LookedForKeeps == WatchShapes /\ LookedFor /\ [WatchNext]_watchVars => LookedFor'
<1>. SUFFICES ASSUME WatchShapes, LookedFor, [WatchNext]_watchVars PROVE LookedFor'
  OBVIOUS
<1>0. WatchTypeOK
  BY DEF WatchShapes
<1>1. ASSUME NEW s \in Screens,
             \/ ScreenWrites(s) \/ ScreenCloses(s)
             \/ \E h \in Transfers : Sends(s, h) \/ Forgets(s, h)
      PROVE  LookedFor'
  <2>1. UNCHANGED workings
    BY <1>1, ScreenShapes
  <2>2. aged' = aged /\ (listed' # listed => changed') /\ (changed => changed')
    <3>1. CASE ScreenWrites(s)
      <4>1. aged' = aged /\ \E list \in SUBSET Transfers : Writes(list)
        BY <1>0, <3>1 DEF ScreenWrites, Capped, Dropped, WatchTypeOK
      <4>. QED
        BY <4>1 DEF Writes
    <3>2. CASE ScreenCloses(s) \/ \E h \in Transfers : Sends(s, h) \/ Forgets(s, h)
      <4>1. CASE ScreenCloses(s)
        BY <4>1 DEF ScreenCloses, stores
      <4>2. ASSUME NEW h \in Transfers, Sends(s, h) \/ Forgets(s, h)
            PROVE  aged' = aged /\ listed' = listed /\ changed' = changed
        BY <4>2 DEF Sends, Forgets, stores
      <4>. QED
        BY <3>2, <4>1, <4>2
    <3>. QED
      BY <1>1, <3>1, <3>2
  <2>. QED
    BY <2>1, <2>2 DEF LookedFor, workings, Watchable, Followed, Young, Untold, Runs
<1>2. ASSUME NEW k \in Passes, AlarmRings(k) PROVE LookedFor'
  BY <1>2, AlarmRingsTo DEF LookedFor, Watchable, Followed, Young, Untold, Runs, stores, chains
<1>3. ASSUME NEW k \in Passes,
             \/ TrackFindsNothing(k) \/ Alerts(k) \/ NotesRead(k) \/ Marks(k)
             \/ Keeps(k) \/ DropReads(k) \/ Drops(k)
      PROVE  LookedFor'
  BY <1>3, PassStepMoves DEF LookedFor, Runs
<1>4. CASE ChangeHeard \/ SyncReads \/ SyncGets \/ SyncCreates \/ WatchWorkerStarts
  <2>1. UNCHANGED <<Watchable, pass>>
    BY <1>4, SyncShapes DEF Watchable, Followed, Young, Untold, chains
  <2>2. CASE ChangeHeard \/ WatchWorkerStarts
    BY <2>2 DEF ChangeHeard, WatchWorkerStarts, LookedFor
  <2>3. CASE SyncReads
    BY <2>1, <2>3 DEF SyncReads, LookedFor
  <2>4. CASE SyncGets
    BY <1>0, <2>1, <2>4 DEF SyncGets, LookedFor, stores, WatchTypeOK
  <2>5. CASE SyncCreates
    BY <2>5 DEF SyncCreates, LookedFor
  <2>. QED
    BY <1>4, <2>2, <2>3, <2>4, <2>5
<1>5. CASE WatchWorkerStops
  BY <1>5 DEF WatchWorkerStops, LookedFor
<1>6. ASSUME NEW h \in Transfers, Arrives(h) \/ Ages(h) PROVE LookedFor'
  BY <1>6, ChainShapes DEF LookedFor, Watchable, Followed, Young, Untold, Runs, stores
<1>7. CASE UNCHANGED watchVars
  BY <1>7 DEF watchVars, stores, history, LookedFor, Watchable, Followed, Young, Untold, Runs
<1>. QED
  BY <1>1, <1>2, <1>3, <1>4, <1>5, <1>6, <1>7 DEF WatchNext

-----------------------------------------------------------------------------
(* Telling *)

AtNotes(k) == pass[k].pc \in {"notes", "marks"}
Noted(k) == pass[k].pc \in {"noted", "drops"}

OnePass == \A k, l \in Passes : Runs(k) /\ Runs(l) => k = l
NoneNotedTwice == Len(notified) = Cardinality({h \in Transfers : ~Untold(h)})
\* What a pass has yet to come to was not told; what it is at, once it is noted.
TodoIsUntold ==
  \A k \in Passes :
    /\ Runs(k) => \A h \in pass[k].todo \ {Tracked(k)} : Untold(h)
    /\ pass[k].pc = "tracks" => Untold(Tracked(k))
    /\ pass[k].pc = "marks" => pass[k].notes = notified /\ Untold(Tracked(k))
    /\ Noted(k) => ~Untold(Tracked(k))
AlertsAreNoted ==
  \A h \in Transfers \ cut :
    alerts[h] # 0 => ~Untold(h) \/ \E k \in Passes : AtNotes(k) /\ h = Tracked(k)

Telling == OnePass /\ NoneNotedTwice /\ TodoIsUntold /\ AlertsAreNoted /\ ToldOnce

\* Nothing that telling is about moves, but for passes that stop.
LEMMA TellingStays ==
  ASSUME Telling, UNCHANGED <<notified, pass, alerts, cut>>
  PROVE  Telling'
  BY DEF Telling, OnePass, NoneNotedTwice, TodoIsUntold, AlertsAreNoted, ToldOnce, Runs, AtNotes, Noted,
         Tracked, Untold

LEMMA TellingInitially == WatchInit => Telling
<1>. SUFFICES ASSUME WatchInit PROVE Telling
  OBVIOUS
<1>1. /\ \A k \in Passes : pass[k].pc = "idle"
      /\ \A h \in Transfers : alerts[h] = 0
  BY NotRunningIsPass DEF WatchInit
<1>2. notified = <<>> /\ Len(notified) = 0
  BY DEF WatchInit
<1>3. {h \in Transfers : ~Untold(h)} = {}
  BY <1>2 DEF Untold, Contains
<1>4. NoneNotedTwice
  BY <1>2, <1>3, FS_EmptySet DEF NoneNotedTwice
<1>5. OnePass /\ TodoIsUntold
  BY <1>1 DEF OnePass, TodoIsUntold, Runs, Noted
<1>6. AlertsAreNoted /\ ToldOnce
  BY <1>1 DEF AlertsAreNoted, ToldOnce
<1>. QED
  BY <1>4, <1>5, <1>6 DEF Telling

LEMMA AlarmTells ==
  ASSUME WatchShapes, Telling, NEW k \in Passes, AlarmRings(k)
  PROVE  Telling'
<1>1. UNCHANGED <<notified, alerts, cut>> /\ \A l \in Passes : ~ Runs(l)
  BY AlarmRingsTo DEF stores, history
<1>2. CASE Watchable = {}
  BY <1>1, <1>2, AlarmRingsTo, TellingStays
<1>3. CASE Watchable # {}
  <2>1. /\ pass'[k].pc = "tracks" /\ pass'[k].todo = Watchable
        /\ \A l \in Passes \ {k} : pass'[l] = pass[l]
    BY <1>3, AlarmRingsTo
  <2>2. \A h : Untold(h)' <=> Untold(h)
    BY <1>1 DEF Untold
  <2>3. \A h \in Watchable : Untold(h)
    BY DEF Watchable
  <2>4. Max(Watchable) \in Watchable
    BY <1>3, MaxIsIn DEF Watchable, Followed, WatchShapes, WatchTypeOK
  <2>5. OnePass'
    BY <1>1, <2>1 DEF OnePass, Runs
  <2>6. TodoIsUntold'
    BY <1>1, <2>1, <2>2, <2>3, <2>4 DEF TodoIsUntold, Tracked, Runs, Noted
  <2>7. AlertsAreNoted'
    BY <1>1, <2>2 DEF Telling, AlertsAreNoted, AtNotes, Runs
  <2>. QED
    BY <1>1, <2>2, <2>5, <2>6, <2>7 DEF Telling, NoneNotedTwice, ToldOnce
<1>. QED
  BY <1>2, <1>3

\* A pass that goes on is the only one that runs.
LEMMA OthersAreIdle ==
  ASSUME WatchShapes, OnePass, NEW k \in Passes,
         \/ TrackFindsNothing(k) \/ Alerts(k) \/ NotesRead(k) \/ Marks(k)
         \/ Keeps(k) \/ DropReads(k) \/ Drops(k)
  PROVE  /\ OnePass' /\ Runs(k)
         /\ \A l \in Passes \ {k} : ~ Runs(l) /\ pass'[l] = pass[l]
  BY PassStepMoves DEF OnePass, Runs

LEMMA MovesOnTells ==
  ASSUME WatchShapes, Telling, NEW k \in Passes, TrackFindsNothing(k) \/ Keeps(k) \/ Drops(k)
  PROVE  Telling'
<1>1. UNCHANGED <<notified, alerts, cut>> /\ PassMovesOn(k) /\ ~AtNotes(k)
  BY DEF TrackFindsNothing, Keeps, Drops, stores, history, PassIs, AtNotes
<1>2. \A h : Untold(h)' <=> Untold(h)
  BY <1>1 DEF Untold
<1>3. /\ OnePass' /\ Runs(k)
      /\ \A l \in Passes \ {k} : ~ Runs(l) /\ pass'[l] = pass[l]
  BY OthersAreIdle DEF Telling
<1>4. /\ pass'[k].todo = pass[k].todo \ {Tracked(k)}
      /\ \/ pass'[k].pc = "tracks" /\ pass'[k].todo # {}
         \/ pass'[k].pc = "idle"
  BY <1>1, PassMovesOnTo DEF WatchShapes
<1>5. \A h \in pass'[k].todo : Untold(h)
  BY <1>3, <1>4 DEF Telling, TodoIsUntold
<1>6. pass'[k].todo # {} => Max(pass'[k].todo) \in pass'[k].todo
  <2>1. pass'[k].todo \in SUBSET Transfers
    BY <1>4 DEF WatchShapes, WatchTypeOK
  <2>. QED
    BY <2>1, MaxIsIn
<1>7. TodoIsUntold'
  BY <1>1, <1>2, <1>3, <1>4, <1>5, <1>6 DEF TodoIsUntold, Tracked, Runs, Noted
<1>8. AlertsAreNoted'
  BY <1>1, <1>2, <1>3 DEF Telling, AlertsAreNoted, AtNotes, Runs
<1>. QED
  BY <1>1, <1>2, <1>3, <1>7, <1>8 DEF Telling, NoneNotedTwice, ToldOnce

LEMMA AlertsTells ==
  ASSUME WatchShapes, Telling, NEW k \in Passes, Alerts(k)
  PROVE  Telling'
<1>. DEFINE h == Tracked(k)
<1>0. alerts \in [Transfers -> Nat] /\ WatchTypeOK
  BY DEF WatchShapes, WatchTypeOK
<1>1. /\ UNCHANGED <<notified, cut>> /\ alerts' = [alerts EXCEPT ![h] = @ + 1]
      /\ pass[k].pc = "tracks" /\ PassGoes(k, "notes", pass[k].todo)
  BY DEF Alerts, stores, PassIs
<1>2. \A g : Untold(g)' <=> Untold(g)
  BY <1>1 DEF Untold
<1>3. /\ OnePass' /\ Runs(k)
      /\ \A l \in Passes \ {k} : ~ Runs(l) /\ pass'[l] = pass[l]
  BY OthersAreIdle DEF Telling
<1>4. pass'[k].pc = "notes" /\ pass'[k].todo = pass[k].todo /\ Tracked(k)' = h
  <2>1. "notes" \in PassPoints /\ pass[k].todo \in SUBSET Transfers
    BY <1>0 DEF PassPoints, WatchTypeOK
  <2>. QED
    BY <1>0, <1>1, <2>1, PassGoesOn DEF Tracked
<1>5. h \in Transfers
  BY <1>3, TrackedIsTodo
<1>6. h \notin cut => alerts[h] = 0
  <2>1. Untold(h) /\ \A l \in Passes : ~AtNotes(l)
    BY <1>1, <1>3 DEF Telling, TodoIsUntold, AtNotes, Runs
  <2>. QED
    BY <1>5, <2>1 DEF Telling, AlertsAreNoted
<1>7. ToldOnce'
  BY <1>0, <1>1, <1>5, <1>6 DEF Telling, ToldOnce
<1>8. TodoIsUntold'
  BY <1>1, <1>2, <1>3, <1>4 DEF Telling, TodoIsUntold, Runs, Noted
<1>9. AlertsAreNoted'
  BY <1>0, <1>1, <1>2, <1>3, <1>4 DEF Telling, AlertsAreNoted, AtNotes, Runs
<1>. QED
  BY <1>1, <1>2, <1>3, <1>7, <1>8, <1>9 DEF Telling, NoneNotedTwice

\* Where the pass is at what it was at, and nothing is told.
LEMMA StaysAtTells ==
  ASSUME WatchShapes, Telling, NEW k \in Passes, NotesRead(k) \/ DropReads(k)
  PROVE  Telling'
<1>1. UNCHANGED <<notified, alerts, cut>>
  BY DEF NotesRead, DropReads, stores, history
<1>2. \A g : Untold(g)' <=> Untold(g)
  BY <1>1 DEF Untold
<1>3. /\ OnePass' /\ Runs(k)
      /\ \A l \in Passes \ {k} : ~ Runs(l) /\ pass'[l] = pass[l]
  BY OthersAreIdle DEF Telling
<1>4. CASE NotesRead(k)
  <2>1. /\ pass'[k].todo = pass[k].todo /\ pass[k].pc = "notes"
        /\ \/ pass'[k].pc = "marks" /\ pass'[k].notes = notified /\ Untold(Tracked(k))
           \/ pass'[k].pc = "noted" /\ ~Untold(Tracked(k))
    <3>0. WatchTypeOK /\ pass \in [Passes -> PassRecords] /\ pass[k].todo \in SUBSET Transfers
          /\ "noted" \in PassPoints
      BY DEF WatchShapes, WatchTypeOK, PassRecords, PassPoints
    <3>1. CASE Untold(Tracked(k))
      BY <1>4, <3>0, <3>1 DEF NotesRead, PassIs, PassRecords
    <3>2. CASE ~Untold(Tracked(k))
      BY <1>4, <3>0, <3>2, PassGoesOn DEF NotesRead, PassIs
    <3>. QED
      BY <3>1, <3>2
  <2>2. Tracked(k)' = Tracked(k)
    BY <2>1 DEF Tracked
  <2>3. TodoIsUntold'
    BY <1>1, <1>2, <1>3, <2>1, <2>2 DEF Telling, TodoIsUntold, Runs, Noted
  <2>4. AlertsAreNoted'
    BY <1>1, <1>2, <1>3, <2>1, <2>2 DEF Telling, AlertsAreNoted, AtNotes, Runs
  <2>. QED
    BY <1>1, <1>2, <1>3, <2>3, <2>4 DEF Telling, NoneNotedTwice, ToldOnce
<1>5. CASE DropReads(k)
  <2>1. pass'[k].todo = pass[k].todo /\ pass[k].pc = "noted" /\ pass'[k].pc = "drops"
    BY <1>5 DEF DropReads, PassIs, WatchShapes, WatchTypeOK
  <2>2. Tracked(k)' = Tracked(k)
    BY <2>1 DEF Tracked
  <2>3. TodoIsUntold'
    BY <1>1, <1>2, <1>3, <2>1, <2>2 DEF Telling, TodoIsUntold, Runs, Noted
  <2>4. AlertsAreNoted'
    BY <1>1, <1>2, <1>3, <2>1, <2>2 DEF Telling, AlertsAreNoted, AtNotes, Runs
  <2>. QED
    BY <1>1, <1>2, <1>3, <2>3, <2>4 DEF Telling, NoneNotedTwice, ToldOnce
<1>. QED
  BY <1>4, <1>5

LEMMA StopTells ==
  ASSUME WatchShapes, Telling, WatchWorkerStops
  PROVE  Telling'
<1>1. UNCHANGED <<notified, alerts>> /\ \A k \in Passes : ~ Runs(k)'
  BY WorkerStopsShapes DEF stores
<1>2. cut' = cut \cup {h \in Transfers : \E k \in Passes :
                         pass[k].pc \in {"notes", "marks"} /\ h = Tracked(k)}
  BY DEF WatchWorkerStops
<1>3. \A g : Untold(g)' <=> Untold(g)
  BY <1>1 DEF Untold
<1>4. AlertsAreNoted'
  BY <1>1, <1>2, <1>3 DEF Telling, AlertsAreNoted, AtNotes
<1>5. OnePass' /\ TodoIsUntold'
  BY <1>1 DEF OnePass, TodoIsUntold, Runs, Noted
<1>. QED
  BY <1>1, <1>2, <1>3, <1>4, <1>5 DEF Telling, NoneNotedTwice, ToldOnce

LEMMA MarksTells ==
  ASSUME WatchShapes, Telling, MaxTransfers <= MaxNotified, NEW k \in Passes, Marks(k)
  PROVE  Telling'
<1>. DEFINE h == Tracked(k)
            T == {g \in Transfers : ~Untold(g)}
            list == <<h>> \o notified
<1>0. WatchTypeOK /\ notified \in Seq(Transfers) /\ MaxTransfers \in Nat /\ MaxNotified \in Nat
  BY WatchBoundsAssumption DEF WatchShapes, WatchTypeOK
<1>1. /\ UNCHANGED <<alerts, cut>> /\ PassGoes(k, "noted", pass[k].todo)
      /\ pass[k].pc = "marks" /\ pass[k].notes = notified /\ Untold(h)
      /\ notified' = IF Len(list) > MaxNotified THEN SubSeq(list, 1, MaxNotified) ELSE list
  BY DEF Marks, history, PassIs, Telling, TodoIsUntold
<1>2. /\ OnePass' /\ Runs(k)
      /\ \A l \in Passes \ {k} : ~ Runs(l) /\ pass'[l] = pass[l]
  BY OthersAreIdle DEF Telling
<1>3. h \in Transfers
  BY <1>2, TrackedIsTodo
<1>4. pass'[k].pc = "noted" /\ pass'[k].todo = pass[k].todo /\ Tracked(k)' = h
  <2>1. "noted" \in PassPoints /\ pass[k].todo \in SUBSET Transfers
    BY <1>0 DEF PassPoints, WatchTypeOK
  <2>. QED
    BY <1>0, <1>1, <2>1, PassGoesOn DEF Tracked
<1>. HIDE DEF h
<1>5. Len(notified) \in Nat /\ Len(list) = Len(notified) + 1
      /\ list[1] = h /\ \A i \in 1 .. Len(notified) : list[i + 1] = notified[i]
  BY <1>0, <1>3
<1>6. T \cup {h} \subseteq Transfers /\ h \notin T
  BY <1>1, <1>3
<1>7. IsFiniteSet(Transfers) /\ Cardinality(Transfers) = MaxTransfers
  BY <1>0, FS_Interval DEF Transfers
<1>8. /\ Cardinality(T \cup {h}) = Cardinality(T) + 1
      /\ Cardinality(T \cup {h}) <= MaxTransfers
  <2>1. IsFiniteSet(T)
    BY <1>6, <1>7, FS_Subset
  <2>2. Cardinality(T \cup {h}) = Cardinality(T) + 1
    BY <1>6, <2>1, FS_AddElement
  <2>. QED
    BY <1>6, <1>7, <2>2, FS_Subset
<1>9. Len(notified) = Cardinality(T)
  BY DEF Telling, NoneNotedTwice
<1>10. notified' = list
  BY <1>0, <1>1, <1>5, <1>8, <1>9
<1>11. \A g : ~Untold(g)' <=> ~Untold(g) \/ g = h
  <2>1. ASSUME NEW g, ~Untold(g) PROVE ~Untold(g)'
    <3>1. PICK i \in 1 .. Len(notified) : notified[i] = g
      BY <2>1 DEF Untold, Contains
    <3>2. i + 1 \in 1 .. Len(notified') /\ notified'[i + 1] = g
      BY <1>5, <1>10, <3>1
    <3>. QED
      BY <3>2 DEF Untold, Contains
  <2>2. ASSUME NEW g, g = h PROVE ~Untold(g)'
    <3>1. 1 \in 1 .. Len(notified') /\ notified'[1] = g
      BY <1>5, <1>10, <2>2
    <3>. QED
      BY <3>1 DEF Untold, Contains
  <2>3. ASSUME NEW g, ~Untold(g)' PROVE ~Untold(g) \/ g = h
    <3>1. PICK i \in 1 .. Len(notified') : notified'[i] = g
      BY <2>3 DEF Untold, Contains
    <3>2. CASE i = 1
      BY <1>5, <1>10, <3>1, <3>2
    <3>3. CASE i # 1
      <4>. DEFINE j == i - 1
      <4>1. j \in 1 .. Len(notified) /\ i = j + 1
        BY <1>5, <1>10, <3>1, <3>3
      <4>. HIDE DEF j
      <4>2. notified[j] = g
        BY <1>5, <1>10, <3>1, <4>1
      <4>. QED
        BY <4>1, <4>2 DEF Untold, Contains
    <3>. QED
      BY <3>2, <3>3
  <2>. QED
    BY <2>1, <2>2, <2>3
<1>12. NoneNotedTwice'
  <2>1. {g \in Transfers : ~Untold(g)'} = T \cup {h}
    BY <1>3, <1>11
  <2>. QED
    BY <1>5, <1>8, <1>9, <1>10, <2>1 DEF NoneNotedTwice
<1>13. TodoIsUntold'
  BY <1>1, <1>2, <1>4, <1>11 DEF Telling, TodoIsUntold, Runs, Noted, h
<1>14. AlertsAreNoted'
  BY <1>1, <1>2, <1>4, <1>11 DEF Telling, AlertsAreNoted, AtNotes, Runs, h
<1>. QED
  BY <1>1, <1>2, <1>12, <1>13, <1>14 DEF Telling, ToldOnce

LEMMA WatchTells ==
  ASSUME MaxTransfers <= MaxNotified
  PROVE  WatchShapes /\ Telling /\ [WatchNext]_watchVars => Telling'
<1>. SUFFICES ASSUME WatchShapes, Telling, [WatchNext]_watchVars PROVE Telling'
  OBVIOUS
<1>1. ASSUME NEW s \in Screens,
             \/ ScreenWrites(s) \/ ScreenCloses(s)
             \/ \E h \in Transfers : Sends(s, h) \/ Forgets(s, h)
      PROVE  Telling'
  <2>1. UNCHANGED workings
    BY <1>1, ScreenShapes
  <2>. QED
    BY <2>1, TellingStays DEF workings
<1>2. ASSUME NEW k \in Passes, AlarmRings(k) PROVE Telling'
  BY <1>2, AlarmTells
<1>3. ASSUME NEW k \in Passes, TrackFindsNothing(k) \/ Keeps(k) \/ Drops(k) PROVE Telling'
  BY <1>3, MovesOnTells
<1>4. ASSUME NEW k \in Passes, Alerts(k) PROVE Telling'
  BY <1>4, AlertsTells
<1>5. ASSUME NEW k \in Passes, NotesRead(k) \/ DropReads(k) PROVE Telling'
  BY <1>5, StaysAtTells
<1>6. ASSUME NEW k \in Passes, Marks(k) PROVE Telling'
  BY <1>6, MarksTells
<1>7. CASE ChangeHeard \/ SyncReads \/ SyncGets \/ SyncCreates \/ WatchWorkerStarts
  BY <1>7, SyncShapes, TellingStays DEF history
<1>8. CASE WatchWorkerStops
  BY <1>8, StopTells
<1>9. ASSUME NEW h \in Transfers, Arrives(h) \/ Ages(h) PROVE Telling'
  BY <1>9, ChainShapes, TellingStays DEF stores, history
<1>10. CASE UNCHANGED watchVars
  BY <1>10, TellingStays DEF watchVars, stores, history
<1>. QED
  BY <1>1, <1>2, <1>3, <1>4, <1>5, <1>6, <1>7, <1>8, <1>9, <1>10 DEF WatchNext

-----------------------------------------------------------------------------
(* The list *)

\* A pass that has read the list and is about to write it back.
Drop(k) == pass[k].pc = "drops"
Writer(s) == writing[s].pc # "idle"

SentInOrder ==
  \A h \in Transfers : route[h] # "unsent" => \A g \in Transfers : g < h => route[g] # "unsent"
\* What the list and its writers hold was sent; what is saved was sent last.
HoldsSent ==
  /\ \A h \in listed : route[h] # "unsent"
  /\ \A s \in Screens :
       /\ \A h \in writing[s].about \cup writing[s].read : route[h] # "unsent"
       /\ writing[s].pc = "saves" => \A h \in writing[s].about, g \in writing[s].read : g <= h
       /\ \A g, h \in writing[s].about : g = h
       /\ writing[s].pc = "idle" => writing[s].about = {}
       /\ writing[s].pc = "removes" => writing[s].about \subseteq parted
\* What a pass drops from was sent, and what it is at was alerted.
DropsSent == \A k \in Passes : Drop(k) => \A h \in pass[k].read : route[h] # "unsent"
DropsAlerted ==
  \A k \in Passes : pass[k].pc \in {"notes", "marks", "noted", "drops"} => Tracked(k) \in parted

\* Unless they overlapped, at most one writer has read the list, and all of it.
OneWrites ==
  /\ \A s, t \in Screens : Writer(s) /\ Writer(t) => s = t
  /\ \A k, l \in Passes : Drop(k) /\ Drop(l) => k = l
  /\ \A s \in Screens, k \in Passes : ~ (Writer(s) /\ Drop(k))
ReadsAll ==
  /\ \A s \in Screens : Writer(s) => Followed \subseteq writing[s].read
  /\ \A k \in Passes : Drop(k) => Followed \subseteq pass[k].read
Overlapped == Transfers \subseteq parted

Listing ==
  /\ SentInOrder /\ HoldsSent /\ DropsSent /\ DropsAlerted
  /\ Overlapped \/ (OneWrites /\ ReadsAll)
  /\ ListedUntilTold

LEMMA ListingInitially == WatchInit => Listing
<1>. SUFFICES ASSUME WatchInit PROVE Listing
  OBVIOUS
<1>1. \A s \in Screens : writing[s] = Untouched
  BY DEF WatchInit
<1>2. \A s \in Screens : writing[s].pc = "idle" /\ writing[s].about = {} /\ writing[s].read = {}
  BY <1>1 DEF Untouched
<1>3. \A k \in Passes : pass[k].pc = "idle"
  BY NotRunningIsPass DEF WatchInit
<1>4. listed = {} /\ \A h \in Transfers : route[h] = "unsent"
  BY DEF WatchInit
<1>5. SentInOrder /\ ListedUntilTold
  BY <1>4 DEF SentInOrder, ListedUntilTold
<1>6. HoldsSent
  BY <1>2, <1>4 DEF HoldsSent
<1>7. DropsSent /\ DropsAlerted
  BY <1>3 DEF DropsSent, DropsAlerted, Drop
<1>8. OneWrites /\ ReadsAll
  BY <1>2, <1>3 DEF OneWrites, ReadsAll, Writer, Drop
<1>. QED
  BY <1>5, <1>6, <1>7, <1>8 DEF Listing

\* Capping a list with the one that was sent last keeps that one.
LEMMA CappedKeepsLast ==
  ASSUME NEW list \in SUBSET Transfers, NEW h \in Transfers, \A g \in list : g <= h
  PROVE  h \in Capped({h} \cup list)
<1>1. {g \in {h} \cup list : g > h} = {}
  <2>1. MaxTransfers \in Nat
    BY WatchBoundsAssumption
  <2>2. \A g \in {h} \cup list : ~ (g > h)
    BY <2>1 DEF Transfers
  <2>. QED
    BY <2>2
<1>2. Cardinality({g \in {h} \cup list : g > h}) = 0
  BY <1>1, FS_EmptySet
<1>. QED
  BY <1>2, WatchBoundsAssumption DEF Capped

\* Once writers overlapped, only what was sent and alerted is to be kept.
LEMMA OverlappedLists ==
  ASSUME SentInOrder', HoldsSent', DropsSent', DropsAlerted', Overlapped'
  PROVE  Listing'
  BY DEF Listing, ListedUntilTold, Overlapped

LEMMA SendsLists ==
  ASSUME WatchShapes, Listing, NEW s \in Screens, NEW h \in Transfers, Sends(s, h)
  PROVE  Listing'
<1>0. /\ writing \in [Screens -> Writings] /\ listed \subseteq Transfers /\ parted \subseteq Transfers
      /\ route \in [Transfers -> Routes] /\ MaxTransfers \in Nat
  BY WatchBoundsAssumption DEF WatchShapes, WatchTypeOK, Writings, Routes
<1>1. /\ writing[s].pc = "idle" /\ route[h] = "unsent"
      /\ \A g \in Transfers : g < h => route[g] # "unsent"
      /\ route' = [route EXCEPT ![h] = "moving"]
      /\ writing' = [writing EXCEPT ![s] = [pc |-> "saves", about |-> {h}, read |-> Followed]]
      /\ Reads({}) /\ UNCHANGED <<listed, pass, aged>>
  BY DEF Sends, stores
<1>2. /\ writing'[s].pc = "saves" /\ writing'[s].about = {h} /\ writing'[s].read = Followed
      /\ \A t \in Screens \ {s} : writing'[t] = writing[t]
      /\ route'[h] = "moving" /\ \A g \in Transfers \ {h} : route'[g] = route[g]
  BY <1>0, <1>1
<1>3. parted \subseteq parted' /\ (Overlap => parted' = Transfers) /\ (~Overlap => parted' = parted)
  BY <1>0, <1>1 DEF Reads
<1>4. SentInOrder'
  BY <1>0, <1>1, <1>2 DEF Listing, SentInOrder, Transfers
<1>5. \A g \in Followed : g \in Transfers /\ route[g] # "unsent" /\ g <= h
  BY <1>0, <1>1 DEF Listing, SentInOrder, HoldsSent, Followed, Transfers
<1>6. HoldsSent'
  BY <1>0, <1>1, <1>2, <1>3, <1>5 DEF Listing, HoldsSent, Writings
<1>7. DropsAlerted'
  BY <1>1, <1>3 DEF Listing, DropsAlerted, Tracked
<1>10. DropsSent'
  <2>1. \A g \in Transfers : route[g] # "unsent" => route'[g] # "unsent"
    BY <1>1, <1>2
  <2>2. \A k \in Passes : pass[k].read \subseteq Transfers
    BY DEF WatchShapes, WatchTypeOK
  <2>. QED
    BY <1>1, <2>1, <2>2 DEF Listing, DropsSent, Drop
<1>8. CASE Overlap
  BY <1>3, <1>4, <1>6, <1>7, <1>8, <1>10, OverlappedLists DEF Overlapped
<1>9. CASE ~Overlap
  <2>1. OneWrites' /\ ReadsAll'
    BY <1>1, <1>2, <1>9 DEF OneWrites, ReadsAll, Overlap, Midway, PassMidway, Writer, Drop, Followed, Young
  <2>2. ListedUntilTold'
    BY <1>1, <1>2, <1>3, <1>9 DEF Listing, HoldsSent, ListedUntilTold, Young
  <2>. QED
    BY <1>4, <1>6, <1>7, <1>10, <2>1, <2>2 DEF Listing
<1>. QED
  BY <1>8, <1>9

LEMMA ForgetsLists ==
  ASSUME WatchShapes, Listing, NEW s \in Screens, NEW h \in Transfers, Forgets(s, h)
  PROVE  Listing'
<1>0. /\ writing \in [Screens -> Writings] /\ listed \subseteq Transfers /\ parted \subseteq Transfers
  BY DEF WatchShapes, WatchTypeOK, Writings
<1>1. /\ writing[s].pc = "idle" /\ route[h] # "unsent"
      /\ writing' = [writing EXCEPT ![s] = [pc |-> "removes", about |-> {h}, read |-> Followed]]
      /\ Reads({h}) /\ UNCHANGED <<listed, pass, aged, route>>
  BY DEF Forgets, stores
<1>2. /\ writing'[s].pc = "removes" /\ writing'[s].about = {h} /\ writing'[s].read = Followed
      /\ \A t \in Screens \ {s} : writing'[t] = writing[t]
  BY <1>0, <1>1
<1>3. parted \subseteq parted' /\ h \in parted' /\ (Overlap => parted' = Transfers)
  BY <1>0, <1>1 DEF Reads
<1>4. SentInOrder'
  BY <1>1 DEF Listing, SentInOrder
<1>6. HoldsSent'
  BY <1>0, <1>1, <1>2, <1>3 DEF Listing, HoldsSent, Writings, Followed
<1>7. DropsAlerted'
  BY <1>1, <1>3 DEF Listing, DropsAlerted, Tracked
<1>10. DropsSent'
  BY <1>1 DEF Listing, DropsSent, Drop
<1>8. CASE Overlap
  BY <1>3, <1>4, <1>6, <1>7, <1>8, <1>10, OverlappedLists DEF Overlapped
<1>9. CASE ~Overlap
  <2>1. OneWrites' /\ ReadsAll'
    BY <1>1, <1>2, <1>9 DEF OneWrites, ReadsAll, Overlap, Midway, PassMidway, Writer, Drop, Followed, Young
  <2>2. ListedUntilTold'
    BY <1>1, <1>2, <1>3, <1>9 DEF Listing, HoldsSent, ListedUntilTold, Young
  <2>. QED
    BY <1>4, <1>6, <1>7, <1>10, <2>1, <2>2 DEF Listing
<1>. QED
  BY <1>8, <1>9

LEMMA ScreenWritesLists ==
  ASSUME WatchShapes, Listing, NEW s \in Screens, ScreenWrites(s)
  PROVE  Listing'
<1>0. /\ writing \in [Screens -> Writings] /\ listed \subseteq Transfers /\ parted \subseteq Transfers
  BY DEF WatchShapes, WatchTypeOK, Writings
<1>1. PICK h \in writing[s].about :
        LET others == Dropped(writing[s].read, h)
            list == IF writing[s].pc = "saves" THEN Capped({h} \cup others) ELSE others
        IN Writes(list) /\ parted' = parted \cup (others \ list)
  BY DEF ScreenWrites
<1>. DEFINE others == Dropped(writing[s].read, h)
            list == IF writing[s].pc = "saves" THEN Capped({h} \cup others) ELSE others
<1>2. /\ writing[s].pc # "idle" /\ writing' = [writing EXCEPT ![s] = Untouched]
      /\ listed' = list /\ parted' = parted \cup (others \ list)
      /\ UNCHANGED <<pass, aged, route>>
  BY <1>1 DEF ScreenWrites, Writes
<1>3. /\ h \in Transfers /\ writing[s].about = {h} /\ others = writing[s].read \ {h}
      /\ others \subseteq Transfers /\ list \subseteq {h} \cup others
  BY <1>0 DEF Listing, HoldsSent, Writings, Dropped, Capped
<1>4. h \in list \/ h \in parted
  <2>1. CASE writing[s].pc = "saves"
    <3>1. \A g \in others : g <= h
      BY <1>3, <2>1 DEF Listing, HoldsSent
    <3>. QED
      BY <1>3, <2>1, <3>1, CappedKeepsLast
  <2>2. CASE writing[s].pc # "saves"
    BY <1>0, <1>2, <1>3, <2>2 DEF Listing, HoldsSent, Writings
  <2>. QED
    BY <2>1, <2>2
<1>. HIDE DEF others, list
<1>5. /\ writing'[s] = Untouched /\ writing'[s].pc = "idle" /\ writing'[s].about = {} /\ writing'[s].read = {}
      /\ \A t \in Screens \ {s} : writing'[t] = writing[t]
  BY <1>0, <1>2 DEF Untouched
<1>6. SentInOrder' /\ DropsSent' /\ DropsAlerted'
  BY <1>2 DEF Listing, SentInOrder, DropsSent, DropsAlerted, Tracked, Drop
<1>7. HoldsSent'
  BY <1>2, <1>3, <1>5 DEF Listing, HoldsSent
<1>8. CASE Overlapped
  <2>1. Overlapped'
    BY <1>2, <1>8 DEF Overlapped
  <2>. QED
    BY <1>6, <1>7, <2>1, OverlappedLists
<1>9. CASE ~Overlapped
  <2>0. OneWrites /\ ReadsAll
    BY <1>9 DEF Listing
  <2>1. Followed \subseteq writing[s].read /\ (\A t \in Screens : Writer(t) => t = s) /\ \A k \in Passes : ~Drop(k)
    BY <1>2, <2>0 DEF OneWrites, ReadsAll, Writer
  <2>2. OneWrites' /\ ReadsAll'
    BY <1>2, <1>5, <2>1 DEF OneWrites, ReadsAll, Writer, Drop
  <2>3. ListedUntilTold'
    <3>1. SUFFICES ASSUME NEW g \in Transfers, route[g] # "unsent", Young(g), g \notin parted'
                   PROVE  g \in list
      BY <1>2 DEF ListedUntilTold, Young
    <3>2. g \in listed \/ \E t \in Screens : g \in writing[t].about
      BY <1>2, <3>1 DEF Listing, ListedUntilTold
    <3>3. \A t \in Screens : t # s => writing[t].about = {}
      BY <2>1 DEF Listing, HoldsSent, Writer
    <3>4. g \in others \/ g = h
      BY <1>3, <2>1, <3>1, <3>2, <3>3 DEF Followed
    <3>. QED
      BY <1>2, <1>4, <3>1, <3>4
  <2>. QED
    BY <1>6, <1>7, <2>2, <2>3 DEF Listing
<1>. QED
  BY <1>8, <1>9

LEMMA ScreenClosesLists ==
  ASSUME WatchShapes, Listing, NEW s \in Screens, ScreenCloses(s)
  PROVE  Listing'
<1>0. writing \in [Screens -> Writings]
  BY DEF WatchShapes, WatchTypeOK, Writings
<1>1. /\ parted' = parted \cup writing[s].about
      /\ writing' = [writing EXCEPT ![s] = Untouched]
      /\ UNCHANGED <<listed, pass, aged, route>>
  BY DEF ScreenCloses, stores
<1>2. /\ writing'[s] = Untouched /\ writing'[s].pc = "idle" /\ writing'[s].about = {} /\ writing'[s].read = {}
      /\ \A t \in Screens \ {s} : writing'[t] = writing[t]
  BY <1>0, <1>1 DEF Untouched
<1>3. SentInOrder' /\ DropsSent' /\ DropsAlerted'
  BY <1>1 DEF Listing, SentInOrder, DropsSent, DropsAlerted, Tracked, Drop
<1>4. HoldsSent'
  BY <1>1, <1>2 DEF Listing, HoldsSent
<1>5. ListedUntilTold'
  BY <1>1, <1>2 DEF Listing, ListedUntilTold, Young
<1>6. Overlapped' \/ (OneWrites' /\ ReadsAll')
  BY <1>1, <1>2 DEF Listing, Overlapped, OneWrites, ReadsAll, Writer, Drop, Followed, Young
<1>. QED
  BY <1>3, <1>4, <1>5, <1>6 DEF Listing

\* Nothing that the list is about moves, but for transfers that end or age.
LEMMA ListingStays ==
  ASSUME Listing, UNCHANGED <<listed, writing, parted>>, aged \subseteq aged',
         \A g \in Transfers : route[g] = "unsent" <=> route'[g] = "unsent",
         WatchTypeOK, DropsAlerted',
         \A k \in Passes : Drop(k)' => Drop(k) /\ pass'[k].read = pass[k].read
  PROVE  Listing'
<1>1. SentInOrder'
  BY DEF Listing, SentInOrder
<1>2. HoldsSent'
  BY DEF Listing, HoldsSent, WatchTypeOK
<1>3. ListedUntilTold' /\ DropsSent'
  BY DEF Listing, ListedUntilTold, Young, DropsSent, WatchTypeOK
<1>4. Overlapped' \/ (OneWrites' /\ ReadsAll')
  BY DEF Listing, Overlapped, OneWrites, ReadsAll, Writer, Drop, Followed, Young
<1>. QED
  BY <1>1, <1>2, <1>3, <1>4 DEF Listing

LEMMA AlarmLists ==
  ASSUME WatchShapes, Listing, NEW k \in Passes, AlarmRings(k)
  PROVE  Listing'
<1>1. UNCHANGED <<listed, writing, parted, aged, route>>
      /\ \A l \in Passes : pass'[l] = pass[l] \/ pass'[l].pc = "tracks"
  BY AlarmRingsTo DEF stores, chains, history
<1>2. DropsAlerted'
  BY <1>1 DEF Listing, DropsAlerted, Tracked
<1>3. \A l \in Passes : Drop(l)' => Drop(l) /\ pass'[l].read = pass[l].read
  BY <1>1 DEF Drop
<1>. QED
  BY <1>1, <1>2, <1>3, ListingStays DEF WatchShapes

\* A pass that goes on leaves the list alone until it reads it.
LEMMA PassLists ==
  ASSUME WatchShapes, Listing, NEW k \in Passes,
         TrackFindsNothing(k) \/ Keeps(k) \/ Alerts(k) \/ NotesRead(k) \/ Marks(k)
  PROVE  Listing'
<1>0. UNCHANGED <<listed, writing, aged, route>> /\ parted \subseteq parted'
  BY DEF TrackFindsNothing, Keeps, Alerts, NotesRead, Marks, stores, history
<1>1. /\ \A l \in Passes \ {k} : pass'[l] = pass[l]
      /\ \/ pass'[k].pc \in {"notes", "marks", "noted"} /\ pass'[k].todo = pass[k].todo
         \/ pass'[k].pc \in {"tracks", "idle"}
  <2>0. WatchTypeOK /\ pass[k].todo \in SUBSET Transfers /\ pass \in [Passes -> PassRecords]
        /\ {"tracks", "idle", "notes", "marks", "noted"} \subseteq PassPoints
    BY DEF WatchShapes, WatchTypeOK, PassRecords, PassPoints
  <2>1. CASE TrackFindsNothing(k) \/ Keeps(k)
    BY <2>0, <2>1, PassMovesOnTo DEF TrackFindsNothing, Keeps
  <2>2. CASE Alerts(k)
    BY <2>0, <2>2, PassGoesOn DEF Alerts
  <2>3. CASE NotesRead(k)
    <3>1. CASE Untold(Tracked(k))
      BY <2>0, <2>3, <3>1 DEF NotesRead, PassRecords
    <3>2. CASE ~Untold(Tracked(k))
      BY <2>0, <2>3, <3>2, PassGoesOn DEF NotesRead
    <3>. QED
      BY <3>1, <3>2
  <2>4. CASE Marks(k)
    BY <2>0, <2>4, PassGoesOn DEF Marks
  <2>. QED
    BY <2>1, <2>2, <2>3, <2>4
<1>2. pass'[k].pc \in {"notes", "marks", "noted"} => Tracked(k) \in parted' /\ Tracked(k)' = Tracked(k)
  <2>1. pass'[k].pc \in {"notes", "marks", "noted"} => pass'[k].todo = pass[k].todo
    BY <1>1
  <2>2. CASE Alerts(k)
    BY <2>1, <2>2 DEF Alerts, Tracked
  <2>3. CASE NotesRead(k) \/ Marks(k)
    BY <1>0, <2>1, <2>3 DEF NotesRead, Marks, PassIs, Listing, DropsAlerted, Tracked
  <2>4. CASE TrackFindsNothing(k) \/ Keeps(k)
    BY <2>4, PassMovesOnTo DEF TrackFindsNothing, Keeps, WatchShapes
  <2>. QED
    BY <2>2, <2>3, <2>4
<1>3. DropsAlerted'
  BY <1>0, <1>1, <1>2 DEF Listing, DropsAlerted, Tracked
<1>4. \A l \in Passes : Drop(l)' => Drop(l) /\ pass'[l].read = pass[l].read
  BY <1>1 DEF Drop
<1>5. parted' = parted \/ Alerts(k)
  BY DEF TrackFindsNothing, Keeps, NotesRead, Marks, history
<1>6. SentInOrder' /\ HoldsSent' /\ DropsSent' /\ ListedUntilTold'
  BY <1>0, <1>4 DEF Listing, SentInOrder, HoldsSent, DropsSent, ListedUntilTold, Young
<1>7. Overlapped' \/ (OneWrites' /\ ReadsAll')
  BY <1>0, <1>4 DEF Listing, Overlapped, OneWrites, ReadsAll, Writer, Drop, Followed, Young
<1>. QED
  BY <1>3, <1>6, <1>7 DEF Listing

LEMMA DropReadsLists ==
  ASSUME WatchShapes, Listing, NEW k \in Passes, DropReads(k)
  PROVE  Listing'
<1>0. pass \in [Passes -> PassRecords] /\ parted \subseteq Transfers
  BY DEF WatchShapes, WatchTypeOK, PassRecords, PassPoints
<1>1. /\ pass[k].pc = "noted" /\ pass' = [pass EXCEPT ![k].pc = "drops", ![k].read = Followed]
      /\ Reads({}) /\ UNCHANGED <<listed, writing, aged, route>>
  BY DEF DropReads, PassIs, stores
<1>2. /\ pass'[k].pc = "drops" /\ pass'[k].read = Followed /\ pass'[k].todo = pass[k].todo
      /\ \A l \in Passes \ {k} : pass'[l] = pass[l]
  BY <1>0, <1>1 DEF PassRecords
<1>3. parted \subseteq parted' /\ (Overlap => parted' = Transfers)
  BY <1>0, <1>1 DEF Reads
<1>4. DropsAlerted'
  BY <1>1, <1>2, <1>3 DEF Listing, DropsAlerted, Tracked
<1>5. SentInOrder' /\ HoldsSent' /\ DropsSent' /\ ListedUntilTold'
  <2>1. SentInOrder' /\ HoldsSent' /\ ListedUntilTold'
    BY <1>1, <1>3 DEF Listing, SentInOrder, HoldsSent, ListedUntilTold, Young
  <2>2. \A h \in Followed : route[h] # "unsent"
    BY DEF Listing, HoldsSent, Followed
  <2>3. DropsSent'
    BY <1>1, <1>2, <2>2 DEF Listing, DropsSent, Drop
  <2>. QED
    BY <2>1, <2>3
<1>6. Overlapped' \/ (OneWrites' /\ ReadsAll')
  <2>1. CASE Overlap
    BY <1>3, <2>1 DEF Overlapped
  <2>2. CASE ~Overlap
    <3>1. (\A s \in Screens : ~Writer(s)') /\ (\A l \in Passes : Drop(l)' => l = k)
      <4>1. \A s \in Screens : writing[s].pc = "idle"
        BY <2>2 DEF Overlap, Midway
      <4>2. \A l \in Passes : pass[l].pc # "drops"
        BY <2>2 DEF Overlap, PassMidway
      <4>. QED
        BY <1>1, <1>2, <4>1, <4>2 DEF Writer, Drop
    <3>2. Followed' = Followed
      BY <1>1 DEF Followed, Young
    <3>. QED
      BY <1>2, <3>1, <3>2 DEF OneWrites, ReadsAll
  <2>. QED
    BY <2>1, <2>2
<1>. QED
  BY <1>4, <1>5, <1>6 DEF Listing

LEMMA DropsLists ==
  ASSUME WatchShapes, Listing, NEW k \in Passes, Drops(k)
  PROVE  Listing'
<1>. DEFINE h == Tracked(k)
<1>0. pass \in [Passes -> PassRecords]
  BY DEF WatchShapes, WatchTypeOK, PassRecords, PassPoints
<1>1. /\ pass[k].pc = "drops" /\ listed' = pass[k].read \ {h} /\ PassMovesOn(k)
      /\ UNCHANGED <<writing, aged, route, parted>>
  BY DEF Drops, PassIs, Writes, Dropped, history
<1>2. /\ \A l \in Passes \ {k} : pass'[l] = pass[l]
      /\ pass'[k].pc \in {"tracks", "idle"}
  BY <1>1, PassMovesOnTo DEF WatchShapes
<1>3. h \in parted
  BY <1>1 DEF Listing, DropsAlerted
<1>. HIDE DEF h
<1>4. DropsAlerted' /\ SentInOrder'
  BY <1>1, <1>2 DEF Listing, DropsAlerted, SentInOrder, Tracked
<1>5. HoldsSent' /\ DropsSent'
  BY <1>1, <1>2 DEF Listing, HoldsSent, DropsSent, Drop
<1>6. CASE Overlapped
  BY <1>1, <1>4, <1>5, <1>6, OverlappedLists DEF Overlapped
<1>7. CASE ~Overlapped
  <2>1. OneWrites /\ ReadsAll
    BY <1>7 DEF Listing
  <2>2. /\ Followed \subseteq pass[k].read /\ \A s \in Screens : ~Writer(s)
        /\ \A l \in Passes : Drop(l) => l = k
    BY <1>1, <2>1 DEF OneWrites, ReadsAll, Drop
  <2>3. OneWrites' /\ ReadsAll'
    BY <1>1, <1>2, <2>2 DEF OneWrites, ReadsAll, Writer, Drop
  <2>4. ListedUntilTold'
    <3>1. SUFFICES ASSUME NEW g \in Transfers, route[g] # "unsent", Young(g), g \notin parted
                   PROVE  g \in listed' \/ \E s \in Screens : g \in writing[s].about
      BY <1>1 DEF ListedUntilTold, Young
    <3>2. g \in listed \/ \E s \in Screens : g \in writing[s].about
      BY <3>1 DEF Listing, ListedUntilTold
    <3>. QED
      BY <1>1, <1>3, <2>2, <3>1, <3>2 DEF Followed
  <2>. QED
    BY <1>4, <1>5, <2>3, <2>4 DEF Listing
<1>. QED
  BY <1>6, <1>7

LEMMA WatchLists == WatchShapes /\ Listing /\ [WatchNext]_watchVars => Listing'
<1>. SUFFICES ASSUME WatchShapes, Listing, [WatchNext]_watchVars PROVE Listing'
  OBVIOUS
<1>0. WatchTypeOK
  BY DEF WatchShapes
<1>1. ASSUME NEW s \in Screens, ScreenWrites(s) PROVE Listing'
  BY <1>1, ScreenWritesLists
<1>2. ASSUME NEW s \in Screens, ScreenCloses(s) PROVE Listing'
  BY <1>2, ScreenClosesLists
<1>3. ASSUME NEW s \in Screens, NEW h \in Transfers, Sends(s, h) PROVE Listing'
  BY <1>3, SendsLists
<1>4. ASSUME NEW s \in Screens, NEW h \in Transfers, Forgets(s, h) PROVE Listing'
  BY <1>4, ForgetsLists
<1>5. ASSUME NEW k \in Passes, AlarmRings(k) PROVE Listing'
  BY <1>5, AlarmLists
<1>6. ASSUME NEW k \in Passes,
             TrackFindsNothing(k) \/ Keeps(k) \/ Alerts(k) \/ NotesRead(k) \/ Marks(k)
      PROVE  Listing'
  BY <1>6, PassLists
<1>7. ASSUME NEW k \in Passes, DropReads(k) PROVE Listing'
  BY <1>7, DropReadsLists
<1>8. ASSUME NEW k \in Passes, Drops(k) PROVE Listing'
  BY <1>8, DropsLists
<1>9. CASE ChangeHeard \/ SyncReads \/ SyncGets \/ SyncCreates \/ WatchWorkerStarts \/ UNCHANGED watchVars
  <2>1. UNCHANGED <<listed, writing, parted, aged, route, pass>>
    BY <1>9, SyncShapes DEF chains, history, watchVars, stores
  <2>2. DropsAlerted'
    BY <2>1 DEF Listing, DropsAlerted, Tracked
  <2>. QED
    BY <1>0, <2>1, <2>2, ListingStays DEF Drop
<1>10. CASE WatchWorkerStops
  <2>1. UNCHANGED <<listed, writing, parted, aged, route>> /\ \A k \in Passes : ~ Runs(k)'
    BY <1>10, WorkerStopsShapes DEF stores, chains
  <2>2. DropsAlerted' /\ \A k \in Passes : ~ Drop(k)'
    BY <2>1 DEF DropsAlerted, Runs, Drop
  <2>. QED
    BY <1>0, <2>1, <2>2, ListingStays
<1>11. ASSUME NEW h \in Transfers, Arrives(h) \/ Ages(h) PROVE Listing'
  <2>1. /\ UNCHANGED <<listed, writing, pass, parted>> /\ aged \subseteq aged'
        /\ \A g \in Transfers : route[g] = "unsent" <=> route'[g] = "unsent"
    BY <1>11, ChainShapes DEF stores, history
  <2>2. DropsAlerted'
    BY <2>1 DEF Listing, DropsAlerted, Tracked
  <2>. QED
    BY <1>0, <2>1, <2>2, ListingStays DEF Drop
<1>. QED
  BY <1>1, <1>2, <1>3, <1>4, <1>5, <1>6, <1>7, <1>8, <1>9, <1>10, <1>11 DEF WatchNext

-----------------------------------------------------------------------------
(* What of it holds for any number of transfers *)

(* The state of the list, the watch and its passes has its types                *)
(* (lib/pending-transfers.ts, lib/transfer-watch.ts).                           *)
THEOREM WatchTypes == WatchSpec => []WatchTypeOK
<1>1. WatchShapes => WatchTypeOK
  BY DEF WatchShapes
<1>. QED
  BY <1>1, WatchInitShapes, WatchKeepsShapes, PTL DEF WatchSpec

(* Whenever the worker has nothing under way, transfers yet to be told of have  *)
(* an alarm that will wake it, wherever stops and writes of the list fall       *)
(* (lib/transfer-watch.ts, syncTransferWatch).                                  *)
THEOREM PendingStayWatched == WatchSpec => []PendingIsWatched
<1>1. WatchInit => LookedFor
  <2>1. WatchInit => Watchable = {}
    BY DEF WatchInit, Watchable, Followed
  <2>. QED
    BY <2>1 DEF LookedFor
<1>2. LookedFor => PendingIsWatched
  BY DEF LookedFor, PendingIsWatched, Runs, PassIs
<1>. QED
  BY <1>1, <1>2, WatchInitShapes, WatchKeepsShapes, LookedForKeeps, PTL DEF WatchSpec

(* A transfer that was sent stays listed until it was told, seen to end or      *)
(* pushed out, unless two writers of the list overlapped                        *)
(* (lib/pending-transfers.ts, savePendingTransfer and removePendingTransfer).   *)
THEOREM SentStayListed == WatchSpec => []ListedUntilTold
<1>1. Listing => ListedUntilTold
  BY DEF Listing
<1>. QED
  BY <1>1, WatchInitShapes, WatchKeepsShapes, ListingInitially, WatchLists, PTL DEF WatchSpec

(* A transfer's end is told once, whatever the screens write beside the worker, *)
(* but for a stop between the alert and its note, as long as no more transfers  *)
(* were sent than are remembered (lib/transfer-watch.ts, markNotified).         *)
THEOREM EndsAreToldOnce ==
  ASSUME MaxTransfers <= MaxNotified
  PROVE  WatchSpec => []ToldOnce
<1>1. WatchShapes /\ Telling /\ [WatchNext]_watchVars => Telling'
  BY WatchTells
<1>2. Telling => ToldOnce
  BY DEF Telling
<1>. QED
  BY <1>1, <1>2, WatchInitShapes, WatchKeepsShapes, TellingInitially, PTL DEF WatchSpec

-----------------------------------------------------------------------------
(* The parts together *)

(***************************************************************************)
(* Whichever part runs, the others stutter, so each part's own invariant is *)
(* kept by its own lemma.                                                    *)
(***************************************************************************)
PartsInv == /\ IInv /\ FeedInv /\ WatchShapes
            /\ StreamInv /\ WholeInv

LEMMA PartsStart == PartsInit => PartsInv
  BY InitKeeps, FeedStart, WatchInitShapes, StreamInitInv, WholeStart
     DEF PartsInit, PartsInv

LEMMA PartsStay == ASSUME SideBySide PROVE PartsInv /\ [PartsNext]_<<part, allVars>> => PartsInv'
<1>. SUFFICES ASSUME PartsInv, [PartsNext]_<<part, allVars>> PROVE PartsInv'
  OBVIOUS
<1>1. /\ [Next]_vars /\ [FeedNext]_feedVars /\ [WatchNext]_watchVars
      /\ [StreamNext]_streamVars /\ [SwapNext]_swapVars
  BY DEF PartsNext, allVars
<1>2. IInv'
  BY <1>1, NextKeeps DEF PartsInv
<1>3. FeedInv' /\ WatchShapes'
  BY <1>1, FeedStep, WatchKeepsShapes DEF PartsInv
<1>4. StreamInv' /\ WholeInv'
  BY <1>1, StreamNextInv, WholeStep DEF PartsInv
<1>. QED
  BY <1>2, <1>3, <1>4 DEF PartsInv

(* The keyring, the events, the watches, the streams and the swap screen have   *)
(* their types whichever of them runs, where the operations that run beside one *)
(* another are those the popup sends while another of its requests waits.       *)
THEOREM PartsTypes ==
  ASSUME SideBySide
  PROVE  PartsSpec => []PartsTypeOK
<1>1. PartsInv /\ [PartsNext]_<<part, allVars>> => PartsInv'
  BY PartsStay
<1>2. IInv => TypeOK
  BY HasIt DEF IInv, StoreInv, SessionInv, TypeOK
<1>3. PartsInv => PartsTypeOK
  BY <1>2 DEF PartsInv, PartsTypeOK, FeedInv, WatchShapes, StreamInv, WholeInv
<1>. QED
  BY <1>1, <1>3, PartsStart, PTL DEF PartsSpec
=============================================================================
