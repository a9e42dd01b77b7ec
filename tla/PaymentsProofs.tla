--------------------------- MODULE PaymentsProofs ---------------------------
(* Theorems about the plan of a transfer over one leg and about the sending of *)
(* what is signed, for any number of channels, plans and sends.                *)
EXTENDS MCAnswers, FiniteSetTheorems, WellFoundedInduction, TLAPS

\* A set of natural numbers has a least one.
LEMMA LeastNatural ==
  ASSUME NEW S \in SUBSET Nat, S # {}
  PROVE  \E m \in S : \A n \in S : m <= n
<1> DEFINE R == OpToRel(<, Nat)
<1>1. IsWellFoundedOn(R, Nat)
  BY NatLessThanWellFounded
<1>2. \A x, y \in Nat : x < y => <<x, y>> \in R
  BY DEF OpToRel
<1> HIDE DEF R
<1>3. PICK m \in S : \A n \in S : ~ (<<n, m>> \in R)
  BY <1>1, WFMin
<1>4. \A n \in S : ~ (n < m)
  BY <1>2, <1>3, Zenon
<1> QED
  BY <1>4

-----------------------------------------------------------------------------
(* The plan *)

-----------------------------------------------------------------------------
(* A plan settles *)

Outs == {"none", "usable", "refused", "unsure", "unrouted", "aborted"}
Trips == [st : {"idle", "reading", "routing", "checking", "waiting", "ended"},
          forced : Channels \cup {0}, pinned : BOOLEAN, graph : SUBSET Channels,
          pick : Channels \cup {0}, fresh : BOOLEAN, round : 0 .. MaxPlanRounds,
          tried : BOOLEAN, again : BOOLEAN, missed : BOOLEAN, late : BOOLEAN, out : Outs]

Underway == trip.st \notin {"idle", "ended"}
Answered == {c \in Channels : answer[c] # "none"}
\* What the rounds before this one asked: not the channel this one is asking.
AskedBefore == IF trip.st = "checking" /\ trip.fresh THEN Answered \ {trip.pick} ELSE Answered

\* Each round but the first was brought about by an answer or by the lists.
RoundsAreEarned ==
  Underway =>
    trip.round <= 1 + Cardinality(AskedBefore) + (IF trip.tried THEN 1 ELSE 0)
PicksAChannel == trip.st = "checking" => trip.pick \in Channels
WaitsOnce == trip.st = "waiting" => ~trip.tried
\* Under a plan that no pin and no voucher binds, a channel is ruled out by the
\* plan's own check, or by one that came in late.
Unforced ==
  Underway /\ trip.forced = 0 =>
    /\ trip.pinned = FALSE
    /\ trip.st = "routing" => \A c \in trip.graph : answer[c] # "refused" \/ trip.late
    /\ trip.st = "checking" /\ ~trip.fresh =>
         answer[trip.pick] # "none" /\ (answer[trip.pick] # "refused" \/ trip.late)

PlanInv ==
  /\ RouteTypeOK
  /\ trip.again = FALSE
  /\ RoundsAreEarned /\ PicksAChannel /\ WaitsOnce /\ Unforced /\ PlanSettles

FewChannels == IsFiniteSet(Channels) /\ Cardinality(Channels) <= MaxPlanRounds - 2

USE DEF MaxPlanRounds

LEMMA MinIsIn ==
  ASSUME NEW S \in SUBSET Nat, S # {}
  PROVE  Min(S) \in S
<1>1. \E x \in S : \A y \in S : x <= y
  BY LeastNatural
<1>. QED
  BY <1>1, Zenon DEF Min

LEMMA PickIsAChannel ==
  ASSUME NEW graph \in SUBSET Channels, trip.forced # 0 \/ graph # {},
         trip.forced \in Channels \cup {0}
  PROVE  /\ Pick(graph) \in Channels
         /\ trip.forced = 0 => Pick(graph) \in graph
<1>1. CASE trip.forced # 0
  BY <1>1 DEF Pick
<1>2. CASE trip.forced = 0
  <2>. DEFINE best == {c \in graph : Verified(c)}
  <2>1. best \in SUBSET graph /\ graph \in SUBSET Nat /\ graph # {}
    BY <1>2, ChannelAssumption
  <2>. HIDE DEF best
  <2>2. (IF best # {} THEN best ELSE graph) \in SUBSET Nat
        /\ (IF best # {} THEN best ELSE graph) # {}
    BY <2>1
  <2>3. Min(IF best # {} THEN best ELSE graph) \in (IF best # {} THEN best ELSE graph)
    BY <2>2, MinIsIn
  <2>. QED
    BY <1>2, <2>1, <2>3 DEF Pick, best
<1>. QED
  BY <1>1, <1>2

LEMMA NoTripTrips ==
  NoTrip \in Trips /\ NoTrip.st = "idle" /\ NoTrip.tried = FALSE /\ NoTrip.again = FALSE
<1>1. 0 \in Channels \cup {0} /\ {} \in SUBSET Channels /\ "none" \in Outs /\ 0 \in 0 .. MaxPlanRounds
  BY DEF Outs
<1>. QED
  BY <1>1 DEF NoTrip, Trips

LEMMA NextRoundTrips ==
  ASSUME NEW now \in Trips, NEW out \in Outs
  PROVE  /\ NextRound(now, out) \in Trips
         /\ now.round < MaxPlanRounds =>
              /\ NextRound(now, out).st = "reading"
              /\ NextRound(now, out).round = now.round + 1
              /\ NextRound(now, out).tried = now.tried
              /\ NextRound(now, out).forced = now.forced
              /\ NextRound(now, out).pinned = now.pinned
              /\ NextRound(now, out).again = now.again
<1>1. CASE now.round < MaxPlanRounds
  <2>. DEFINE further == [now EXCEPT !.st = "reading", !.round = now.round + 1, !.out = out]
  <2>1. now.round + 1 \in 0 .. MaxPlanRounds
    BY <1>1 DEF Trips
  <2>2. further \in Trips
    BY <2>1 DEF Trips
  <2>3. /\ further.st = "reading" /\ further.round = now.round + 1 /\ further.tried = now.tried
        /\ further.forced = now.forced /\ further.pinned = now.pinned /\ further.again = now.again
    BY DEF Trips
  <2>4. NextRound(now, out) = further
    BY <1>1 DEF NextRound
  <2>. QED
    BY <2>2, <2>3, <2>4
<1>2. CASE ~ (now.round < MaxPlanRounds)
  BY <1>2 DEF Trips, NextRound
<1>. QED
  BY <1>1, <1>2

LEMMA AnsweredIsFinite ==
  ASSUME FewChannels, RouteTypeOK
  PROVE  /\ IsFiniteSet(Answered) /\ Cardinality(Answered) \in Nat
         /\ Cardinality(Answered) <= MaxPlanRounds - 2
<1>1. Answered \in SUBSET Channels
  BY DEF Answered
<1>2. IsFiniteSet(Answered) /\ Cardinality(Answered) <= Cardinality(Channels)
  BY <1>1, FS_Subset DEF FewChannels
<1>3. Cardinality(Answered) \in Nat /\ Cardinality(Channels) \in Nat
  BY <1>2, FS_CardinalityType DEF FewChannels
<1>. QED
  BY <1>2, <1>3 DEF FewChannels, MaxPlanRounds

\* What is under way is in a round that leaves room for another.
LEMMA RoomForAnother ==
  ASSUME FewChannels, RouteTypeOK, RoundsAreEarned, PicksAChannel, Underway,
         (trip.st = "checking" /\ trip.fresh) \/ ~trip.tried
  PROVE  trip.round < MaxPlanRounds
<1>0. IsFiniteSet(Answered) /\ Cardinality(Answered) \in Nat /\ Cardinality(Answered) <= 3
  BY AnsweredIsFinite DEF MaxPlanRounds
<1>1. trip.round \in Nat /\ trip.tried \in BOOLEAN
  BY DEF RouteTypeOK
<1>2. CASE trip.st = "checking" /\ trip.fresh
  <2>1. AskedBefore \in SUBSET (Channels \ {trip.pick}) /\ trip.pick \in Channels
    BY <1>2 DEF AskedBefore, Answered, PicksAChannel
  <2>2. IsFiniteSet(Channels \ {trip.pick}) /\ Cardinality(Channels \ {trip.pick}) = Cardinality(Channels) - 1
    BY <2>1, FS_RemoveElement DEF FewChannels
  <2>3. IsFiniteSet(AskedBefore) /\ Cardinality(AskedBefore) <= Cardinality(Channels) - 1
    BY <2>1, <2>2, FS_Subset
  <2>4. Cardinality(AskedBefore) \in Nat /\ Cardinality(Channels) \in Nat /\ Cardinality(Channels) <= 3
    BY <2>3, FS_CardinalityType DEF FewChannels, MaxPlanRounds
  <2>. QED
    BY <1>1, <2>3, <2>4 DEF RoundsAreEarned, MaxPlanRounds
<1>3. CASE ~trip.tried /\ ~(trip.st = "checking" /\ trip.fresh)
  <2>1. AskedBefore = Answered
    BY <1>3 DEF AskedBefore
  <2>. QED
    BY <1>0, <1>1, <1>3, <2>1 DEF RoundsAreEarned, MaxPlanRounds
<1>. QED
  BY <1>2, <1>3

LEMMA PlanInitially == ASSUME FewChannels PROVE RouteInit => PlanInv
<1>. SUFFICES ASSUME RouteInit PROVE PlanInv
  OBVIOUS
<1>1. RouteTypeOK
  <2>1. trip \in Trips
    BY NoTripTrips DEF RouteInit
  <2>. QED
    <3>1. /\ world \in [good : SUBSET Channels, ahead : SUBSET Channels, back : SUBSET Channels]
          /\ rows = {}
          /\ answer \in [Channels -> {"none", "usable", "refused"}]
      BY DEF RouteInit, NoAnswers
    <3>2. /\ walk \in [list : {"none", "leaving", "arriving"}, failed : BOOLEAN]
          /\ walked \in BOOLEAN /\ asked \in 0 .. MaxPlans
      <4>1. 0 \in 0 .. MaxPlans
        BY ChannelAssumption
      <4>2. NoWalk \in [list : {"none", "leaving", "arriving"}, failed : BOOLEAN]
        BY DEF NoWalk
      <4>. QED
        BY <4>1, <4>2 DEF RouteInit
    <3>. QED
      BY <2>1, <3>1, <3>2 DEF RouteTypeOK, Trips, Outs
<1>. QED
  BY <1>1 DEF RouteInit, NoTrip, PlanInv, RoundsAreEarned, PicksAChannel, WaitsOnce, Unforced,
              PlanSettles, Underway

\* Beside a plan: the answers there are stay, others come, and a refusal of what the
\* plan has in hand is noted; the rest of the plan stays.
LEMMA BesideKeeps ==
  ASSUME FewChannels, PlanInv, RouteTypeOK', NEW late \in BOOLEAN,
         trip' = [trip EXCEPT !.late = late], trip.late => late,
         \A c \in Channels : answer[c] # "none" => answer'[c] = answer[c],
         trip.st = "routing" =>
           \A c \in trip.graph : answer[c] # "refused" /\ answer'[c] = "refused" => late
  PROVE  PlanInv'
<1>0. /\ trip'.st = trip.st /\ trip'.round = trip.round /\ trip'.tried = trip.tried
      /\ trip'.forced = trip.forced /\ trip'.pinned = trip.pinned /\ trip'.again = trip.again
      /\ trip'.fresh = trip.fresh /\ trip'.pick = trip.pick /\ trip'.graph = trip.graph
      /\ trip'.out = trip.out /\ trip'.late = late
  BY DEF PlanInv, RouteTypeOK
<1>1. Answered \in SUBSET Answered' /\ Answered' \in SUBSET Channels
  BY DEF Answered
<1>2. AskedBefore \in SUBSET AskedBefore' /\ AskedBefore' \in SUBSET Channels
  BY <1>0, <1>1 DEF AskedBefore
<1>3. IsFiniteSet(AskedBefore') /\ Cardinality(AskedBefore) <= Cardinality(AskedBefore')
  BY <1>2, FS_Subset DEF FewChannels
<1>4. Cardinality(AskedBefore') \in Nat
  BY <1>3, FS_CardinalityType
<1>5. IsFiniteSet(AskedBefore) /\ Cardinality(AskedBefore) \in Nat
  BY <1>2, <1>3, FS_Subset, FS_CardinalityType
<1>6. RoundsAreEarned'
  BY <1>0, <1>3, <1>4, <1>5 DEF RoundsAreEarned, Underway, PlanInv, RouteTypeOK
<1>7. Unforced'
  BY <1>0 DEF Unforced, Underway, PlanInv, PicksAChannel
<1>. QED
  BY <1>0, <1>6, <1>7 DEF PlanInv, PicksAChannel, WaitsOnce, PlanSettles

LEMMA LearnsAnswers ==
  ASSUME RouteTypeOK, NEW c \in Channels, NEW v \in Verdicts(c), Learns(c, v)
  PROVE  /\ answer' \in [Channels -> {"none", "usable", "refused"}]
         /\ \A d \in Channels : answer[d] # "none" => answer'[d] # "none"
         /\ \A d \in Channels \ {c} : answer'[d] = answer[d]
         /\ v # "unsure" => answer'[c] = v /\ answer'[c] # "none"
         /\ rows' \subseteq [channel : Channels, by : {"leaving", "arriving"}]
         /\ \A row \in rows' : row.by = "arriving" => row.channel \in world.back
  BY DEF RouteTypeOK, Learns, Verdicts

LEMMA ChecksBesideKeeps ==
  ASSUME FewChannels, PlanInv, NEW c \in Channels, ChecksBeside(c)
  PROVE  PlanInv'
<1>1. PICK v \in Verdicts(c) :
        /\ Learns(c, v)
        /\ trip' = IF trip.st = "routing" /\ v = "refused" /\ c \in trip.graph
                   THEN [trip EXCEPT !.late = TRUE] ELSE trip
  BY DEF ChecksBeside
<1>. DEFINE now == trip.late \/ (trip.st = "routing" /\ v = "refused" /\ c \in trip.graph)
<1>2. now \in BOOLEAN /\ trip' = [trip EXCEPT !.late = now] /\ (trip.late => now)
  <2>1. trip \in Trips /\ trip.late \in BOOLEAN /\ now \in BOOLEAN
    BY DEF PlanInv, RouteTypeOK, Trips, Outs
  <2>2. trip = [trip EXCEPT !.late = trip.late]
    BY <2>1 DEF Trips
  <2>3. CASE trip.st = "routing" /\ v = "refused" /\ c \in trip.graph
    BY <1>1, <2>1, <2>3
  <2>4. CASE ~(trip.st = "routing" /\ v = "refused" /\ c \in trip.graph)
    <3>1. now = trip.late
      BY <2>1, <2>4
    <3>. QED
      BY <1>1, <2>1, <2>2, <2>4, <3>1
  <2>. QED
    BY <2>3, <2>4
<1>3. RouteTypeOK'
  <2>1. trip \in Trips
    BY DEF PlanInv, RouteTypeOK, Trips, Outs
  <2>2. trip' \in Trips
    BY <1>2, <2>1 DEF Trips
  <2>. QED
    BY <1>1, <2>2, LearnsAnswers DEF ChecksBeside, PlanInv, RouteTypeOK, Trips, Outs
<1>4. \A d \in Channels : answer[d] # "none" => answer'[d] = answer[d]
  BY <1>1, LearnsAnswers DEF ChecksBeside, PlanInv
<1>5. trip.st = "routing" =>
        \A d \in trip.graph : answer[d] # "refused" /\ answer'[d] = "refused" => now
  <2>1. ASSUME NEW d \in Channels, answer[d] # "refused", answer'[d] = "refused"
        PROVE  d = c /\ v = "refused"
    <3>1. d = c
      BY <1>1, <2>1, LearnsAnswers DEF PlanInv
    <3>. QED
      BY <1>1, <2>1, <3>1, LearnsAnswers DEF PlanInv, Learns, Verdicts
  <2>. QED
    BY <2>1 DEF PlanInv, RouteTypeOK
<1>. QED
  BY <1>2, <1>3, <1>4, <1>5, BesideKeeps

LEMMA AsksPlanKeeps ==
  ASSUME FewChannels, PlanInv, NEW forced \in Channels \cup {0}, NEW pinned \in BOOLEAN,
         AsksPlan(forced, pinned)
  PROVE  PlanInv'
<1>1. trip' = [NoTrip EXCEPT !.st = "reading", !.forced = forced, !.pinned = pinned, !.round = 1]
      /\ UNCHANGED memory /\ asked' = asked + 1 /\ asked < MaxPlans /\ (forced = 0 => pinned = FALSE)
  BY DEF AsksPlan
<1>2. trip' \in Trips /\ trip'.st = "reading" /\ trip'.round = 1 /\ trip'.forced = forced
      /\ trip'.pinned = pinned /\ trip'.tried = FALSE /\ trip'.again = FALSE
  <2>1. "reading" \in {"idle", "reading", "routing", "checking", "waiting", "ended"} /\ 1 \in 0 .. MaxPlanRounds
    OBVIOUS
  <2>. DEFINE starts == [NoTrip EXCEPT !.st = "reading", !.forced = forced, !.pinned = pinned, !.round = 1]
  <2>2. starts \in Trips
    BY <2>1, NoTripTrips DEF Trips
  <2>3. starts.st = "reading" /\ starts.round = 1 /\ starts.forced = forced /\ starts.pinned = pinned
    BY NoTripTrips DEF Trips
  <2>4. starts.tried = FALSE /\ starts.again = FALSE
    BY NoTripTrips DEF Trips
  <2>. QED
    BY <1>1, <2>2, <2>3, <2>4
<1>3. /\ world' \in [good : SUBSET Channels, ahead : SUBSET Channels, back : SUBSET Channels]
      /\ rows' \subseteq [channel : Channels, by : {"leaving", "arriving"}]
      /\ \A row \in rows' : row.by = "arriving" => row.channel \in world'.back
  <2>1. CASE asked # 0
    BY <2>1 DEF AsksPlan, PlanInv, RouteTypeOK
  <2>2. CASE asked = 0
    <3>1. world' \in [good : SUBSET Channels, ahead : Lists, back : Lists]
          /\ \E kept \in Kept : rows' = [channel : kept, by : {"leaving"}]
      BY <2>2 DEF AsksPlan
    <3>. QED
      BY <3>1, ChannelAssumption
  <2>. QED
    BY <2>1, <2>2
<1>4. asked' \in 0 .. MaxPlans
  BY <1>1, ChannelAssumption DEF PlanInv, RouteTypeOK
<1>5. RouteTypeOK'
  BY <1>1, <1>2, <1>3, <1>4 DEF PlanInv, RouteTypeOK, Trips, Outs, memory
<1>6. Cardinality(AskedBefore') \in Nat
  <2>1. AskedBefore' = Answered
    BY <1>1, <1>2 DEF AskedBefore, Answered, memory
  <2>. QED
    BY <2>1, AnsweredIsFinite DEF PlanInv
<1>. QED
  BY <1>1, <1>2, <1>5, <1>6
     DEF PlanInv, RoundsAreEarned, PicksAChannel, WaitsOnce, Unforced, PlanSettles, Underway

LEMMA AbandonsKeeps == ASSUME PlanInv, Abandons PROVE PlanInv'
<1>1. trip' = [trip EXCEPT !.st = "ended", !.out = "aborted"] /\ UNCHANGED <<world, rows, memory, asked>>
  BY DEF Abandons
<1>2. RouteTypeOK' /\ trip'.st = "ended" /\ trip'.out = "aborted" /\ trip'.again = trip.again
  BY <1>1 DEF PlanInv, RouteTypeOK, memory
<1>. QED
  BY <1>2 DEF PlanInv, RoundsAreEarned, PicksAChannel, WaitsOnce, Unforced, PlanSettles, Underway

LEMMA ReadsGraphKeeps == ASSUME PlanInv, ReadsGraph PROVE PlanInv'
<1>1. trip' = [trip EXCEPT !.st = "routing", !.graph = Routable, !.late = FALSE] /\ trip.st = "reading"
      /\ UNCHANGED <<world, rows, answer, walk, walked, asked>>
  BY DEF ReadsGraph, memory
<1>2. Routable \in SUBSET Channels /\ \A c \in Routable : answer[c] # "refused"
  <2>1. Discovered \in SUBSET Channels
    BY DEF PlanInv, RouteTypeOK, Discovered
  <2>2. Canonical \in SUBSET Channels
    BY ChannelAssumption
  <2>. QED
    BY <2>1, <2>2 DEF Routable
<1>3. /\ trip' \in Trips /\ trip'.st = "routing" /\ trip'.graph = Routable /\ trip'.round = trip.round
      /\ trip'.tried = trip.tried /\ trip'.forced = trip.forced /\ trip'.pinned = trip.pinned
      /\ trip'.again = trip.again
  BY <1>1, <1>2 DEF PlanInv, RouteTypeOK, Trips, Outs
<1>4. RouteTypeOK'
  BY <1>1, <1>3 DEF PlanInv, RouteTypeOK, Trips, Outs
<1>5. AskedBefore' = AskedBefore
  BY <1>1, <1>3 DEF AskedBefore, Answered
<1>. QED
  BY <1>1, <1>2, <1>3, <1>4, <1>5
     DEF PlanInv, RoundsAreEarned, PicksAChannel, WaitsOnce, Unforced, PlanSettles, Underway

LEMMA PathFoundKeeps == ASSUME PlanInv, PathFound PROVE PlanInv'
<1>. DEFINE c == Pick(trip.graph)
<1>1. trip' = [trip EXCEPT !.st = "checking", !.pick = c, !.fresh = answer[c] = "none"]
      /\ trip.st = "routing" /\ UNCHANGED <<world, rows, answer, walk, walked, asked>>
  BY DEF PathFound, memory
<1>2. c \in Channels /\ (trip.forced = 0 => c \in trip.graph)
  BY PickIsAChannel DEF PathFound, PlanInv, RouteTypeOK
<1>. HIDE DEF c
<1>3. /\ trip' \in Trips /\ trip'.st = "checking" /\ trip'.pick = c /\ trip'.round = trip.round
      /\ trip'.tried = trip.tried /\ trip'.forced = trip.forced /\ trip'.pinned = trip.pinned
      /\ trip'.again = trip.again /\ trip'.fresh = (answer[c] = "none") /\ trip'.late = trip.late
  BY <1>1, <1>2 DEF PlanInv, RouteTypeOK, Trips, Outs
<1>4. RouteTypeOK'
  BY <1>1, <1>3 DEF PlanInv, RouteTypeOK, Trips, Outs
<1>5. AskedBefore' = AskedBefore
  <2>1. AskedBefore = Answered /\ Answered' = Answered
    BY <1>1 DEF AskedBefore, Answered
  <2>2. answer[c] = "none" => c \notin Answered
    BY DEF Answered
  <2>3. AskedBefore' = IF answer[c] = "none" THEN Answered \ {c} ELSE Answered
    BY <1>3, <2>1, Zenon DEF AskedBefore
  <2>. QED
    BY <2>1, <2>2, <2>3
<1>. QED
  BY <1>1, <1>2, <1>3, <1>4, <1>5
     DEF PlanInv, RoundsAreEarned, PicksAChannel, WaitsOnce, Unforced, PlanSettles, Underway

LEMMA LooksForChannelsKeeps == ASSUME PlanInv, LooksForChannels PROVE PlanInv'
<1>1. trip' = [trip EXCEPT !.st = "waiting"] /\ trip.st = "routing" /\ ~trip.tried
      /\ UNCHANGED <<world, rows, answer, walked, asked>>
      /\ walk' = (IF walk = NoWalk THEN [NoWalk EXCEPT !.list = "leaving"] ELSE walk)
  BY DEF LooksForChannels
<1>2. /\ trip' \in Trips /\ trip'.st = "waiting" /\ trip'.round = trip.round
      /\ trip'.tried = trip.tried /\ trip'.forced = trip.forced /\ trip'.pinned = trip.pinned
      /\ trip'.again = trip.again
  BY <1>1 DEF PlanInv, RouteTypeOK, Trips, Outs
<1>3. walk' \in [list : {"none", "leaving", "arriving"}, failed : BOOLEAN]
  BY <1>1 DEF PlanInv, RouteTypeOK, NoWalk
<1>4. RouteTypeOK'
  BY <1>1, <1>2, <1>3 DEF PlanInv, RouteTypeOK, Trips, Outs
<1>5. AskedBefore' = AskedBefore
  BY <1>1, <1>2 DEF AskedBefore, Answered
<1>. QED
  BY <1>1, <1>2, <1>4, <1>5
     DEF PlanInv, RoundsAreEarned, PicksAChannel, WaitsOnce, Unforced, PlanSettles, Underway

LEMMA NoRouteKeeps == ASSUME PlanInv, NoRoute PROVE PlanInv'
<1>1. trip' = [trip EXCEPT !.st = "ended", !.out = "unrouted",
                             !.missed = Routable \cap (world.ahead \cup world.back) # {}]
      /\ UNCHANGED <<world, rows, memory, asked>>
  BY DEF NoRoute
<1>2. /\ trip' \in Trips /\ trip'.st = "ended" /\ trip'.out = "unrouted" /\ trip'.again = trip.again
  BY <1>1 DEF PlanInv, RouteTypeOK, Trips, Outs
<1>3. RouteTypeOK'
  BY <1>1, <1>2 DEF PlanInv, RouteTypeOK, memory, Trips, Outs
<1>. QED
  BY <1>2, <1>3 DEF PlanInv, RoundsAreEarned, PicksAChannel, WaitsOnce, Unforced, PlanSettles, Underway

LEMMA PathCheckedKeeps == ASSUME FewChannels, PlanInv, PathChecked PROVE PlanInv'
<1>. DEFINE c == trip.pick
<1>1. trip.st = "checking" /\ c \in Channels /\ Underway /\ UNCHANGED <<world, walk, walked, asked>>
  BY DEF PathChecked, PlanInv, PicksAChannel, Underway
<1>2. PICK v \in (IF trip.fresh THEN Verdicts(c) ELSE {answer[c]}) :
        /\ IF trip.fresh THEN Learns(c, v) ELSE UNCHANGED <<answer, rows>>
        /\ trip' = IF trip.fresh /\ (v = "usable" \/ (v = "refused" /\ ~trip.pinned))
                   THEN NextRound(trip, v) ELSE [trip EXCEPT !.st = "ended", !.out = v]
  BY DEF PathChecked
<1>3. v \in Outs
  BY <1>1, <1>2 DEF Verdicts, Outs, PlanInv, RouteTypeOK
<1>4. /\ answer' \in [Channels -> {"none", "usable", "refused"}]
      /\ rows' \subseteq [channel : Channels, by : {"leaving", "arriving"}]
      /\ \A row \in rows' : row.by = "arriving" => row.channel \in world.back
  <2>1. CASE trip.fresh
    BY <1>1, <1>2, <2>1, LearnsAnswers DEF PlanInv
  <2>2. CASE ~trip.fresh
    BY <1>2, <2>2 DEF PlanInv, RouteTypeOK
  <2>. QED
    BY <2>1, <2>2
<1>5. trip \in Trips
  BY DEF PlanInv, RouteTypeOK, Trips, Outs
<1>6. CASE trip.fresh /\ (v = "usable" \/ (v = "refused" /\ ~trip.pinned))
  <2>1. trip.round < MaxPlanRounds
    BY <1>1, <1>6, RoomForAnother DEF PlanInv
  <2>2. /\ trip' \in Trips /\ trip'.st = "reading" /\ trip'.round = trip.round + 1
        /\ trip'.tried = trip.tried /\ trip'.forced = trip.forced /\ trip'.pinned = trip.pinned
        /\ trip'.again = trip.again
    BY <1>2, <1>3, <1>5, <1>6, <2>1, NextRoundTrips
  <2>3. RouteTypeOK'
    BY <1>1, <1>4, <2>2 DEF PlanInv, RouteTypeOK, Trips, Outs
  <2>4. Answered' = (Answered \ {c}) \cup {c} /\ AskedBefore = Answered \ {c} /\ AskedBefore' = Answered'
    <3>1. /\ \A d \in Channels : answer[d] # "none" => answer'[d] # "none"
          /\ \A d \in Channels \ {c} : answer'[d] = answer[d]
          /\ answer'[c] # "none"
      BY <1>1, <1>2, <1>6, LearnsAnswers DEF PlanInv
    <3>. QED
      BY <1>1, <1>6, <2>2, <3>1 DEF AskedBefore, Answered
  <2>5. IsFiniteSet(Answered \ {c}) /\ Cardinality(Answered \ {c}) \in Nat
    BY AnsweredIsFinite, FS_RemoveElement, FS_CardinalityType DEF PlanInv
  <2>6. Cardinality(AskedBefore') = Cardinality(AskedBefore) + 1
    BY <2>4, <2>5, FS_AddElement
  <2>7. RoundsAreEarned'
    BY <1>1, <2>2, <2>4, <2>5, <2>6 DEF RoundsAreEarned, PlanInv, RouteTypeOK
  <2>. QED
    BY <1>1, <2>2, <2>3, <2>7 DEF PlanInv, PicksAChannel, WaitsOnce, Unforced, PlanSettles, Underway
<1>7. CASE ~ (trip.fresh /\ (v = "usable" \/ (v = "refused" /\ ~trip.pinned)))
  <2>1. trip' \in Trips /\ trip'.st = "ended" /\ trip'.out = v /\ trip'.again = trip.again
        /\ trip'.forced = trip.forced /\ trip'.late = trip.late
    BY <1>2, <1>3, <1>5, <1>7 DEF Trips
  <2>2. RouteTypeOK'
    BY <1>1, <1>4, <2>1 DEF PlanInv, RouteTypeOK, Trips, Outs
  <2>3. v = "refused" => trip.forced # 0 \/ trip.late
    BY <1>1, <1>2, <1>7 DEF PlanInv, Unforced
  <2>. QED
    BY <2>1, <2>2, <2>3 DEF PlanInv, RoundsAreEarned, PicksAChannel, WaitsOnce, Unforced, PlanSettles, Underway
<1>. QED
  BY <1>6, <1>7

\* The lists are read: whoever waits for them goes on.
LEMMA WalkEndsKeeps ==
  ASSUME FewChannels, PlanInv, NEW failed \in BOOLEAN, WalkEnds(failed),
         UNCHANGED <<world, answer, asked>>,
         rows' \subseteq [channel : Channels, by : {"leaving", "arriving"}],
         \A row \in rows' : row.by = "arriving" => row.channel \in world.back
  PROVE  PlanInv'
<1>1. walk' = NoWalk /\ walked' = (walked \/ ~failed)
      /\ trip' = (IF trip.st = "waiting" THEN NextRound([trip EXCEPT !.tried = TRUE], trip.out) ELSE trip)
  BY DEF WalkEnds
<1>2. walk' \in [list : {"none", "leaving", "arriving"}, failed : BOOLEAN] /\ walked' \in BOOLEAN
  BY <1>1 DEF NoWalk
<1>3. CASE trip.st # "waiting"
  <2>1. RouteTypeOK'
    BY <1>1, <1>2, <1>3 DEF PlanInv, RouteTypeOK
  <2>. QED
    BY <1>1, <1>3, <2>1
       DEF PlanInv, RoundsAreEarned, PicksAChannel, WaitsOnce, Unforced, PlanSettles, Underway,
           AskedBefore, Answered
<1>4. CASE trip.st = "waiting"
  <2>. DEFINE now == [trip EXCEPT !.tried = TRUE]
  <2>1. trip \in Trips /\ trip.tried = FALSE
    BY <1>4 DEF PlanInv, RouteTypeOK, Trips, Outs, WaitsOnce
  <2>2. now \in Trips /\ now.tried = TRUE /\ now.round = trip.round /\ now.forced = trip.forced
        /\ now.pinned = trip.pinned /\ now.again = trip.again /\ trip.out \in Outs
    BY <2>1 DEF Trips
  <2>3. trip.round < MaxPlanRounds
    BY <1>4, <2>1, RoomForAnother DEF PlanInv, Underway
  <2>4. trip' = NextRound(now, trip.out)
    BY <1>1, <1>4
  <2>. HIDE DEF now
  <2>5. /\ trip' \in Trips /\ trip'.st = "reading" /\ trip'.round = trip.round + 1
        /\ trip'.tried = TRUE /\ trip'.forced = trip.forced /\ trip'.pinned = trip.pinned
        /\ trip'.again = trip.again
    BY <2>2, <2>3, <2>4, NextRoundTrips
  <2>6. RouteTypeOK'
    BY <1>2, <2>5 DEF PlanInv, RouteTypeOK, Trips, Outs
  <2>7. AskedBefore' = Answered /\ AskedBefore = Answered
    BY <1>4, <2>5 DEF AskedBefore, Answered
  <2>8. RoundsAreEarned'
    BY <1>4, <2>1, <2>5, <2>7, AnsweredIsFinite DEF RoundsAreEarned, Underway, PlanInv, RouteTypeOK
  <2>. QED
    BY <1>4, <2>5, <2>6, <2>8 DEF PlanInv, PicksAChannel, WaitsOnce, Unforced, PlanSettles, Underway
<1>. QED
  BY <1>3, <1>4

\* Neither the plan nor the answers move.
LEMMA RowsKeep ==
  ASSUME PlanInv, UNCHANGED <<world, answer, asked, trip, walked>>,
         walk' \in [list : {"none", "leaving", "arriving"}, failed : BOOLEAN],
         rows' \subseteq [channel : Channels, by : {"leaving", "arriving"}],
         \A row \in rows' : row.by = "arriving" => row.channel \in world.back
  PROVE  PlanInv'
<1>1. RouteTypeOK'
  BY DEF PlanInv, RouteTypeOK
<1>. QED
  BY <1>1 DEF PlanInv, RoundsAreEarned, PicksAChannel, WaitsOnce, Unforced, PlanSettles, Underway,
              AskedBefore, Answered

LEMMA ListsKeep ==
  ASSUME FewChannels, PlanInv, LeavingListRead \/ ArrivingListRead \/ ListFails \/ ListsBeside
  PROVE  PlanInv'
<1>0. RouteTypeOK
  BY DEF PlanInv
<1>1. CASE LeavingListRead
  <2>1. /\ rows' \subseteq [channel : Channels, by : {"leaving", "arriving"}]
        /\ \A row \in rows' : row.by = "arriving" => row.channel \in world.back
    BY <1>0, <1>1 DEF LeavingListRead, RouteTypeOK
  <2>2. CASE \E c \in world.ahead : answer[c] # "refused"
    BY <1>1, <2>1, <2>2, WalkEndsKeeps DEF LeavingListRead
  <2>3. CASE ~ \E c \in world.ahead : answer[c] # "refused"
    <3>1. walk' = [walk EXCEPT !.list = "arriving"] /\ UNCHANGED <<world, answer, asked, trip, walked>>
      BY <1>1, <2>3 DEF LeavingListRead
    <3>2. walk' \in [list : {"none", "leaving", "arriving"}, failed : BOOLEAN]
      BY <1>0, <3>1 DEF RouteTypeOK
    <3>. QED
      BY <2>1, <3>1, <3>2, RowsKeep
  <2>. QED
    BY <2>2, <2>3
<1>2. CASE ArrivingListRead
  <2>1. /\ rows' \subseteq [channel : Channels, by : {"leaving", "arriving"}]
        /\ \A row \in rows' : row.by = "arriving" => row.channel \in world.back
    BY <1>0, <1>2 DEF ArrivingListRead, RouteTypeOK
  <2>2. walk.failed \in BOOLEAN
    BY <1>0 DEF RouteTypeOK
  <2>. QED
    BY <1>2, <2>1, <2>2, WalkEndsKeeps DEF ArrivingListRead
<1>3. CASE ListFails
  <2>1. /\ rows' \subseteq [channel : Channels, by : {"leaving", "arriving"}]
        /\ \A row \in rows' : row.by = "arriving" => row.channel \in world.back
    BY <1>0, <1>3 DEF ListFails, RouteTypeOK
  <2>2. CASE walk.list = "leaving"
    <3>1. walk' = [list |-> "arriving", failed |-> TRUE] /\ UNCHANGED <<world, answer, asked, trip, walked>>
      BY <1>3, <2>2 DEF ListFails
    <3>2. walk' \in [list : {"none", "leaving", "arriving"}, failed : BOOLEAN]
      BY <3>1
    <3>. QED
      BY <2>1, <3>1, <3>2, RowsKeep
  <2>3. CASE walk.list # "leaving"
    BY <1>3, <2>1, <2>3, WalkEndsKeeps DEF ListFails
  <2>. QED
    BY <2>2, <2>3
<1>4. CASE ListsBeside
  <2>1. /\ rows' \subseteq [channel : Channels, by : {"leaving", "arriving"}]
        /\ \A row \in rows' : row.by = "arriving" => row.channel \in world.back
    BY <1>0, <1>4 DEF ListsBeside, RouteTypeOK
  <2>. QED
    BY <1>0, <1>4, <2>1, RowsKeep DEF ListsBeside, memory, RouteTypeOK
<1>. QED
  BY <1>1, <1>2, <1>3, <1>4

LEMMA PopupClosesKeeps == ASSUME PlanInv, PopupCloses PROVE PlanInv'
<1>1. /\ trip' = NoTrip /\ answer' = NoAnswers /\ walk' = NoWalk /\ walked' = FALSE
      /\ UNCHANGED <<world, rows, asked>>
  BY DEF PopupCloses
<1>2. NoWalk \in [list : {"none", "leaving", "arriving"}, failed : BOOLEAN]
      /\ NoAnswers \in [Channels -> {"none", "usable", "refused"}]
  BY DEF NoWalk, NoAnswers
<1>3. RouteTypeOK'
  <2>1. trip' \in Trips /\ RouteTypeOK
    BY <1>1, NoTripTrips DEF PlanInv
  <2>. QED
    BY <1>1, <1>2, <2>1 DEF RouteTypeOK, Trips, Outs
<1>. QED
  BY <1>1, <1>3, NoTripTrips
     DEF PlanInv, RoundsAreEarned, PicksAChannel, WaitsOnce, Unforced, PlanSettles, Underway

LEMMA RouteNextKeeps == ASSUME FewChannels PROVE PlanInv /\ [RouteNext]_routeVars => PlanInv'
<1>. SUFFICES ASSUME PlanInv, [RouteNext]_routeVars PROVE PlanInv'
  OBVIOUS
<1>1. ASSUME NEW forced \in Channels \cup {0}, NEW pinned \in BOOLEAN, AsksPlan(forced, pinned)
      PROVE  PlanInv'
  BY <1>1, AsksPlanKeeps
<1>2. CASE Abandons
  BY <1>2, AbandonsKeeps
<1>3. CASE ReadsGraph
  BY <1>3, ReadsGraphKeeps
<1>4. CASE PathFound
  BY <1>4, PathFoundKeeps
<1>5. CASE LooksForChannels
  BY <1>5, LooksForChannelsKeeps
<1>6. CASE NoRoute
  BY <1>6, NoRouteKeeps
<1>7. CASE PathChecked
  BY <1>7, PathCheckedKeeps
<1>8. ASSUME NEW c \in Channels, ChecksBeside(c) PROVE PlanInv'
  BY <1>8, ChecksBesideKeeps
<1>9. CASE LeavingListRead \/ ArrivingListRead \/ ListFails \/ ListsBeside
  BY <1>9, ListsKeep
<1>10. CASE PopupCloses
  BY <1>10, PopupClosesKeeps
<1>11. CASE UNCHANGED routeVars
  BY <1>11 DEF routeVars, memory, PlanInv, RouteTypeOK, RoundsAreEarned, PicksAChannel, WaitsOnce, Unforced,
               PlanSettles, Underway, AskedBefore, Answered
<1>. QED
  BY <1>1, <1>2, <1>3, <1>4, <1>5, <1>6, <1>7, <1>8, <1>9, <1>10, <1>11 DEF RouteNext

(* A plan ends settled, whatever lists, checks and given-up plans come in       *)
(* between: it never runs out of rounds where the leg has at most three         *)
(* channels, as many as MAX_PLAN_ROUNDS leaves room for, and no channel that it *)
(* chose itself is refused at its end unless a check of another came between    *)
(* the graph it read and its own look at the channel (planTransfer).            *)
THEOREM PlansSettle ==
  ASSUME FewChannels
  PROVE  RouteSpec => []PlanSettles
<1>1. RouteInit => PlanInv
  BY PlanInitially
<1>2. PlanInv /\ [RouteNext]_routeVars => PlanInv'
  BY RouteNextKeeps
<1>3. PlanInv => PlanSettles
  BY DEF PlanInv
<1>. QED
  BY <1>1, <1>2, <1>3, PTL DEF RouteSpec

-----------------------------------------------------------------------------
(* The types of a plan, for any number of channels *)

Listed ==
  /\ rows \subseteq [channel : Channels, by : {"leaving", "arriving"}]
  /\ \A row \in rows : row.by = "arriving" => row.channel \in world.back
Answering == answer \in [Channels -> {"none", "usable", "refused"}]
Walks == [list : {"none", "leaving", "arriving"}, failed : BOOLEAN]
Besides == walk \in Walks /\ walked \in BOOLEAN /\ asked \in 0 .. MaxPlans
PlanShapes ==
  /\ world \in [good : SUBSET Channels, ahead : SUBSET Channels, back : SUBSET Channels]
  /\ Listed /\ Answering /\ Besides
  /\ trip \in Trips /\ PicksAChannel

LEMMA ShapesAreTypes == PlanShapes <=> RouteTypeOK /\ PicksAChannel
  BY DEF PlanShapes, Listed, Answering, Walks, Besides, RouteTypeOK, Trips, Outs

LEMMA NoWalkWalks == NoWalk \in Walks
  BY DEF NoWalk, Walks

LEMMA ShapesInitially == RouteInit => PlanShapes
<1>. SUFFICES ASSUME RouteInit PROVE PlanShapes
  OBVIOUS
<1>1. 0 \in 0 .. MaxPlans
  BY ChannelAssumption
<1>2. /\ world \in [good : SUBSET Channels, ahead : SUBSET Channels, back : SUBSET Channels]
      /\ Listed /\ Answering
  BY DEF RouteInit, NoAnswers, Listed, Answering
<1>3. trip \in Trips /\ PicksAChannel
  BY NoTripTrips DEF RouteInit, PicksAChannel
<1>. QED
  BY <1>1, <1>2, <1>3, NoWalkWalks DEF RouteInit, PlanShapes, Besides

\* The walk ends, and the plan that waits for it goes on.
LEMMA WalkEndsShapes ==
  ASSUME PlanShapes, NEW failed \in BOOLEAN, WalkEnds(failed), UNCHANGED <<world, answer, asked>>, Listed'
  PROVE  PlanShapes'
<1>1. walk' \in Walks /\ walked' \in BOOLEAN
  BY NoWalkWalks DEF WalkEnds, PlanShapes, Besides
<1>2. trip' \in Trips /\ PicksAChannel'
  <2>1. CASE trip.st # "waiting"
    BY <2>1 DEF WalkEnds, PlanShapes, PicksAChannel
  <2>2. CASE trip.st = "waiting"
    <3>. DEFINE now == [trip EXCEPT !.tried = TRUE]
    <3>1. now \in Trips /\ trip.out \in Outs
      BY DEF PlanShapes, Trips
    <3>2. trip' = NextRound(now, trip.out)
      BY <2>2 DEF WalkEnds
    <3>. HIDE DEF now
    <3>3. trip' \in Trips /\ trip'.st \in {"reading", "ended"}
      BY <3>1, <3>2, NextRoundTrips DEF NextRound, Trips
    <3>. QED
      BY <3>3 DEF PicksAChannel
  <2>. QED
    BY <2>1, <2>2
<1>. QED
  BY <1>1, <1>2 DEF PlanShapes, Answering, Besides

LEMMA ListsShapes ==
  ASSUME PlanShapes, LeavingListRead \/ ArrivingListRead \/ ListFails \/ ListsBeside
  PROVE  PlanShapes'
<1>1. Listed' /\ UNCHANGED <<world, answer, asked>>
  BY DEF LeavingListRead, ArrivingListRead, ListFails, ListsBeside, memory, PlanShapes, Listed
<1>2. CASE \E failed \in BOOLEAN : WalkEnds(failed)
  BY <1>1, <1>2, WalkEndsShapes
<1>3. CASE ~ \E failed \in BOOLEAN : WalkEnds(failed)
  <2>1. walk.failed \in BOOLEAN
    BY DEF PlanShapes, Besides, Walks
  <2>2. UNCHANGED <<walked, trip>> /\ walk' \in Walks
    <3>1. CASE LeavingListRead
      BY <1>3, <3>1 DEF LeavingListRead, PlanShapes, Besides, Walks
    <3>2. CASE ArrivingListRead
      BY <1>3, <2>1, <3>2 DEF ArrivingListRead
    <3>3. CASE ListFails
      <4>1. ~WalkEnds(TRUE)
        BY <1>3
      <4>2. walk' = [list |-> "arriving", failed |-> TRUE] /\ UNCHANGED <<walked, trip>>
        BY <3>3, <4>1 DEF ListFails
      <4>. QED
        BY <4>2 DEF Walks
    <3>4. CASE ListsBeside
      BY <3>4 DEF ListsBeside, memory, PlanShapes, Besides
    <3>. QED
      BY <3>1, <3>2, <3>3, <3>4
  <2>. QED
    BY <1>1, <2>2 DEF PlanShapes, Answering, Besides, PicksAChannel
<1>. QED
  BY <1>2, <1>3

\* The plan steps: what it looks at next is a channel and a round there are.
LEMMA TripShapes ==
  ASSUME PlanShapes,
         Abandons \/ ReadsGraph \/ PathFound \/ LooksForChannels \/ NoRoute
  PROVE  PlanShapes'
<1>1. UNCHANGED <<world, rows, answer, walked, asked>> /\ walk' \in Walks
  BY NoWalkWalks
     DEF Abandons, ReadsGraph, PathFound, LooksForChannels, NoRoute, memory, PlanShapes, Besides, Walks
<1>2. trip' \in Trips /\ PicksAChannel'
  <2>1. CASE Abandons
    BY <2>1 DEF Abandons, PlanShapes, PicksAChannel, Trips, Outs
  <2>2. CASE ReadsGraph
    <3>1. Routable \in SUBSET Channels
      <4>1. Discovered \in SUBSET Channels
        BY DEF PlanShapes, Listed, Discovered
      <4>. QED
        BY <4>1, ChannelAssumption DEF Routable
    <3>. QED
      BY <2>2, <3>1 DEF ReadsGraph, PlanShapes, PicksAChannel, Trips
  <2>3. CASE PathFound
    <3>. DEFINE c == Pick(trip.graph)
    <3>1. c \in Channels
      BY <2>3, PickIsAChannel DEF PathFound, PlanShapes, Trips
    <3>2. trip' = [trip EXCEPT !.st = "checking", !.pick = c, !.fresh = answer[c] = "none"]
      BY <2>3 DEF PathFound
    <3>. HIDE DEF c
    <3>. QED
      BY <3>1, <3>2 DEF PlanShapes, PicksAChannel, Trips
  <2>4. CASE LooksForChannels
    BY <2>4 DEF LooksForChannels, PlanShapes, PicksAChannel, Trips
  <2>5. CASE NoRoute
    <3>. DEFINE missed == Routable \cap (world.ahead \cup world.back) # {}
    <3>1. missed \in BOOLEAN
      OBVIOUS
    <3>. HIDE DEF missed
    <3>2. trip' = [trip EXCEPT !.st = "ended", !.out = "unrouted", !.missed = missed]
      BY <2>5 DEF NoRoute, missed
    <3>. QED
      BY <3>1, <3>2 DEF PlanShapes, PicksAChannel, Trips, Outs
  <2>. QED
    BY <2>1, <2>2, <2>3, <2>4, <2>5
<1>. QED
  BY <1>1, <1>2 DEF PlanShapes, Listed, Answering, Besides

LEMMA PathCheckedShapes == ASSUME PlanShapes, PathChecked PROVE PlanShapes'
<1>1. trip.st = "checking" /\ trip.pick \in Channels /\ UNCHANGED <<world, walk, walked, asked>>
  BY DEF PathChecked, PlanShapes, PicksAChannel
<1>2. PICK v \in (IF trip.fresh THEN Verdicts(trip.pick) ELSE {answer[trip.pick]}) :
        /\ IF trip.fresh THEN Learns(trip.pick, v) ELSE UNCHANGED <<answer, rows>>
        /\ trip' = IF trip.fresh /\ (v = "usable" \/ (v = "refused" /\ ~trip.pinned))
                   THEN NextRound(trip, v) ELSE [trip EXCEPT !.st = "ended", !.out = v]
  BY DEF PathChecked
<1>3. v \in Outs
  BY <1>1, <1>2 DEF Verdicts, Outs, PlanShapes, Answering
<1>4. Listed' /\ Answering'
  BY <1>1, <1>2, LearnsAnswers, ShapesAreTypes DEF PlanShapes, Listed, Answering
<1>5. trip' \in Trips /\ trip'.st \in {"reading", "ended"}
  <2>1. NextRound(trip, v) \in Trips /\ NextRound(trip, v).st \in {"reading", "ended"}
    BY <1>3, NextRoundTrips DEF NextRound, PlanShapes, Trips
  <2>2. LET ends == [trip EXCEPT !.st = "ended", !.out = v] IN ends \in Trips /\ ends.st = "ended"
    BY <1>3 DEF PlanShapes, Trips
  <2>. QED
    BY <1>2, <2>1, <2>2
<1>. QED
  BY <1>1, <1>4, <1>5 DEF PlanShapes, Besides, PicksAChannel

LEMMA AsksPlanShapes ==
  ASSUME PlanShapes, NEW forced \in Channels \cup {0}, NEW pinned \in BOOLEAN, AsksPlan(forced, pinned)
  PROVE  PlanShapes'
<1>. DEFINE starts == [NoTrip EXCEPT !.st = "reading", !.forced = forced, !.pinned = pinned, !.round = 1]
<1>1. starts \in Trips /\ starts.st = "reading"
  <2>1. "reading" \in {"idle", "reading", "routing", "checking", "waiting", "ended"} /\ 1 \in 0 .. MaxPlanRounds
    OBVIOUS
  <2>. QED
    BY <2>1, NoTripTrips DEF Trips
<1>2. /\ world' \in [good : SUBSET Channels, ahead : SUBSET Channels, back : SUBSET Channels]
      /\ Listed'
  <2>1. CASE asked # 0
    BY <2>1 DEF AsksPlan, PlanShapes, Listed
  <2>2. CASE asked = 0
    <3>1. world' \in [good : SUBSET Channels, ahead : Lists, back : Lists]
          /\ \E kept \in Kept : rows' = [channel : kept, by : {"leaving"}]
      BY <2>2 DEF AsksPlan
    <3>. QED
      BY <3>1, ChannelAssumption DEF Listed
  <2>. QED
    BY <2>1, <2>2
<1>3. asked' \in 0 .. MaxPlans /\ UNCHANGED <<answer, walk, walked>> /\ trip' = starts
  BY ChannelAssumption DEF AsksPlan, memory, PlanShapes, Besides
<1>. QED
  BY <1>1, <1>2, <1>3 DEF PlanShapes, Answering, Besides, PicksAChannel

LEMMA ShapesStay == PlanShapes /\ [RouteNext]_routeVars => PlanShapes'
<1>. SUFFICES ASSUME PlanShapes, [RouteNext]_routeVars PROVE PlanShapes'
  OBVIOUS
<1>1. ASSUME NEW c \in Channels, ChecksBeside(c) PROVE PlanShapes'
  <2>1. PICK v \in Verdicts(c) : Learns(c, v)
    BY <1>1 DEF ChecksBeside
  <2>2. Listed' /\ Answering'
    BY <1>1, <2>1, LearnsAnswers, ShapesAreTypes DEF ChecksBeside, PlanShapes, Listed, Answering
  <2>. QED
    <3>1. trip' \in Trips /\ trip'.st = trip.st /\ trip'.pick = trip.pick
      BY <1>1 DEF ChecksBeside, PlanShapes, Trips
    <3>. QED
      BY <1>1, <2>2, <3>1 DEF ChecksBeside, PlanShapes, Besides, PicksAChannel
<1>2. CASE PopupCloses
  BY <1>2, NoTripTrips, NoWalkWalks
     DEF PopupCloses, NoAnswers, PlanShapes, Listed, Answering, Besides, PicksAChannel
<1>3. CASE UNCHANGED routeVars
  BY <1>3 DEF routeVars, memory, PlanShapes, Listed, Answering, Besides, PicksAChannel
<1>. QED
  BY <1>1, <1>2, <1>3, AsksPlanShapes, TripShapes, PathCheckedShapes, ListsShapes DEF RouteNext

HIDE DEF MaxPlanRounds

-----------------------------------------------------------------------------
(* Sending *)

(***************************************************************************)
(* Broadcast.  The argument: a send has one transaction at most that can    *)
(* still enter a block, and none once it has paid.  A send is signed again  *)
(* only after an answer that says its transaction is in no block and no     *)
(* pool, or after a block in which it failed; an answer that is lost ends   *)
(* it.                                                                       *)
(***************************************************************************)
SendRecords == [st : {"new", "reading", "signed", "waiting", "ended"},
                attempt : 0 .. 1, forced : Seqs \cup {NoSeq}, seq : Seqs \cup {NoSeq},
                out : {"none", "success", "refused", "lost"}]

Unpaid(s) == paid[s] = 0 /\ \A t \in pool : t.send # s

PayShape ==
  /\ next \in Seqs
  /\ block \in [Sends -> {"none", "paid", "failed", "mismatch"}]
  /\ paid \in [Sends -> 0 .. 1]
  /\ send \in [Sends -> SendRecords]
  /\ \A t \in pool : t.send \in Sends
OneAtATime == \A t, u \in pool : t.send = u.send => t = u
PaidIsOver == \A t \in pool : paid[t.send] = 0
UnpaidWhileSigning ==
  \A s \in Sends : send[s].st \in {"new", "reading", "signed"} => Unpaid(s)
UnpaidWhenFailed ==
  \A s \in Sends :
    send[s].st = "waiting" /\ block[s] \in {"failed", "mismatch"} => Unpaid(s)
UnpaidWhenRefused == \A s \in Sends : send[s].out = "refused" => Unpaid(s) /\ send[s].st = "ended"
PayInv == /\ PayShape /\ OneAtATime /\ PaidIsOver /\ UnpaidWhileSigning
          /\ UnpaidWhenFailed /\ UnpaidWhenRefused

\* A step of a send that leaves the chain alone.
Steps(s) ==
  /\ s \in Sends
  /\ UNCHANGED chain
  /\ \E r \in SendRecords :
       /\ send' = [send EXCEPT ![s] = r]
       /\ r.st \in {"reading", "signed"} => Unpaid(s)
       /\ r.st = "waiting" => FALSE
       /\ r.st # "new"
       /\ r.out = "refused" => Unpaid(s) /\ r.st = "ended"

\* Such a step keeps the invariant.
LEMMA StepsInv == ASSUME PayInv, NEW s, Steps(s) PROVE PayInv'
<1> USE DEF PayInv, Steps, chain
<1> PICK r \in SendRecords : send' = [send EXCEPT ![s] = r] /\ r.st # "waiting" /\ r.st # "new"
     /\ (r.st \in {"reading", "signed"} => Unpaid(s))
     /\ (r.out = "refused" => Unpaid(s) /\ r.st = "ended")
  OBVIOUS
<1>1. \A x \in Sends : send'[x] = IF x = s THEN r ELSE send[x]
  BY DEF PayShape
<1>2. PayShape'
  BY DEF PayShape
<1>3. OneAtATime' /\ PaidIsOver'
  BY DEF OneAtATime, PaidIsOver
<1>4. \A x \in Sends : Unpaid(x)' <=> Unpaid(x)
  BY DEF Unpaid
<1> QED
  BY <1>1, <1>2, <1>3, <1>4 DEF UnpaidWhileSigning, UnpaidWhenFailed, UnpaidWhenRefused

\* The record of a send that is signed again is one.
LEMMA RetryMoves ==
  ASSUME NEW r \in SendRecords, NEW q \in Seqs \cup {NoSeq}
  PROVE  [r EXCEPT !.st = "reading", !.attempt = 1, !.forced = q] \in SendRecords
<1> DEFINE A == 0 .. 1
<1> DEFINE Q == Seqs \cup {NoSeq}
<1>1. 1 \in A
  OBVIOUS
<1>2. SendRecords = [st : {"new", "reading", "signed", "waiting", "ended"}, attempt : A,
                     forced : Q, seq : Q, out : {"none", "success", "refused", "lost"}]
  BY DEF SendRecords
<1> HIDE DEF A, Q
<1>3. \A n \in A : \A x \in Q : [r EXCEPT !.st = "reading", !.attempt = n, !.forced = x] \in SendRecords
  BY <1>2
<1> QED
  BY <1>1, <1>3 DEF Q

\* A mismatch is one: the send is signed again, or the user is told.
LEMMA MismatchSteps ==
  ASSUME PayInv, NEW s \in Sends, NEW q \in Seqs \cup {NoSeq}, Mismatched(s, q),
         UNCHANGED chain, Unpaid(s), send[s].out # "refused"
  PROVE  Steps(s)
<1>1. send[s] \in SendRecords /\ send \in [Sends -> SendRecords]
  BY DEF PayInv, PayShape
<1>2. CASE send[s].attempt = 0
  <2> DEFINE r == [send[s] EXCEPT !.st = "reading", !.attempt = 1, !.forced = q]
  <2>1. r \in SendRecords
    BY <1>1, RetryMoves
  <2>2. r.st = "reading" /\ r.out = send[s].out
    BY <1>1 DEF SendRecords
  <2>3. send' = [send EXCEPT ![s] = r]
    BY <1>1, <1>2 DEF Mismatched, SendRecords
  <2> QED
    BY <2>1, <2>2, <2>3 DEF Steps
<1>3. CASE send[s].attempt # 0
  <2> DEFINE r == [send[s] EXCEPT !.st = "ended", !.out = "refused"]
  <2>1. r \in SendRecords
    BY <1>1 DEF SendRecords
  <2>2. r.st = "ended"
    BY <1>1 DEF SendRecords
  <2>3. send' = [send EXCEPT ![s] = r]
    BY <1>1, <1>3 DEF Mismatched, SendRecords
  <2> QED
    BY <2>1, <2>2, <2>3 DEF Steps
<1> QED
  BY <1>2, <1>3

\* The end of a send is one, and tells of a refusal only when nothing can pay.
LEMMA EndSteps ==
  ASSUME PayInv, NEW s \in Sends, NEW o \in {"success", "refused", "lost"},
         send' = [send EXCEPT ![s].st = "ended", ![s].out = o],
         UNCHANGED chain, o = "refused" => Unpaid(s)
  PROVE  Steps(s)
<1>1. send[s] \in SendRecords /\ send \in [Sends -> SendRecords]
  BY DEF PayInv, PayShape
<1> DEFINE r == [send[s] EXCEPT !.st = "ended", !.out = o]
<1>2. r \in SendRecords
  BY <1>1 DEF SendRecords
<1>3. r.st = "ended" /\ r.out = o
  BY <1>1 DEF SendRecords
<1>4. send' = [send EXCEPT ![s] = r]
  BY <1>1 DEF SendRecords
<1> QED
  BY <1>2, <1>3, <1>4 DEF Steps

\* The sequences of the account.
LEMMA SeqFacts ==
         /\ 0 \in Seqs
         /\ NoSeq \in Nat
         /\ Seqs \subseteq Nat
         /\ \A n \in Seqs : n < MaxSeq => n + 1 \in Seqs
         /\ \A n \in Seqs : (IF n = 0 THEN 0 ELSE n - 1) \in Seqs
  BY SeqAssumption DEF Seqs, NoSeq

\* Each step of a send keeps the invariant.
LEMMA SendKeeps ==
  ASSUME PayInv, NEW s \in Sends,
         \/ Confirms(s) \/ Signs(s) \/ Rejected(s) \/ Included(s) \/ DeadlinePasses(s) \/ Fails(s)
  PROVE  PayInv'
<1>1. send[s] \in SendRecords /\ send \in [Sends -> SendRecords]
  BY DEF PayInv, PayShape
<1>2. send[s].st # "ended" => send[s].out # "refused"
  BY DEF PayInv, UnpaidWhenRefused
<1>3. send[s].st \in {"new", "reading", "signed"} => Unpaid(s)
  BY DEF PayInv, UnpaidWhileSigning
<1>4. NoSeq \in Seqs \cup {NoSeq}
  OBVIOUS
<1>5. CASE Confirms(s)
  <2> DEFINE r == [send[s] EXCEPT !.st = "reading"]
  <2>1. r \in SendRecords
    BY <1>1 DEF SendRecords
  <2>2. r.st = "reading" /\ r.out # "refused"
    BY <1>1, <1>2, <1>5 DEF SendRecords, Confirms
  <2>3. Steps(s)
    BY <1>3, <1>5, <2>1, <2>2 DEF Steps, Confirms
  <2> QED
    BY <2>3, StepsInv
<1>6. CASE Signs(s)
  <2>1. PICK seq \in Answers :
          send' = [send EXCEPT ![s].st = "signed",
                   ![s].seq = IF send[s].forced # NoSeq THEN send[s].forced ELSE seq]
    BY <1>6 DEF Signs
  <2> DEFINE q == IF send[s].forced # NoSeq THEN send[s].forced ELSE seq
  <2> DEFINE r == [send[s] EXCEPT !.st = "signed", !.seq = q]
  <2>2. q \in Seqs \cup {NoSeq}
    BY <1>1, SeqFacts DEF PayInv, PayShape, Answers, SendRecords
  <2>3. r \in SendRecords
    BY <1>1, <2>2 DEF SendRecords
  <2>4. r.st = "signed" /\ r.out # "refused"
    BY <1>1, <1>2, <1>6 DEF SendRecords, Signs
  <2>5. send' = [send EXCEPT ![s] = r]
    BY <1>1, <2>1 DEF SendRecords
  <2>6. Steps(s)
    BY <1>3, <1>6, <2>3, <2>4, <2>5 DEF Steps, Signs
  <2> QED
    BY <2>6, StepsInv
<1>7. CASE Rejected(s)
  <2>1. PICK q \in Seqs \cup {NoSeq} : Mismatched(s, q)
    BY <1>7 DEF Rejected
  <2>2. Steps(s)
    BY <1>2, <1>3, <1>7, <2>1, MismatchSteps DEF Rejected
  <2> QED
    BY <2>2, StepsInv
<1>8. CASE Included(s)
  <2>1. CASE block[s] = "paid" /\ send' = [send EXCEPT ![s].st = "ended", ![s].out = "success"]
    BY <1>8, <2>1, EndSteps, StepsInv DEF Included
  <2>2. CASE block[s] = "failed" /\ send' = [send EXCEPT ![s].st = "ended", ![s].out = "refused"]
    <3>1. Unpaid(s)
      BY <1>8, <2>2 DEF Included, PayInv, UnpaidWhenFailed
    <3> QED
      BY <1>8, <2>2, <3>1, EndSteps, StepsInv DEF Included
  <2>3. CASE block[s] = "mismatch" /\ Mismatched(s, NoSeq)
    <3>1. Unpaid(s)
      BY <1>8, <2>3 DEF Included, PayInv, UnpaidWhenFailed
    <3>2. send[s].out # "refused"
      BY <1>2, <1>8 DEF Included
    <3> QED
      BY <1>4, <1>8, <2>3, <3>1, <3>2, MismatchSteps, StepsInv DEF Included
  <2> QED
    BY <1>8, <2>1, <2>2, <2>3 DEF Included
<1>9. CASE DeadlinePasses(s)
  BY <1>9, EndSteps, StepsInv DEF DeadlinePasses
<1>10. CASE Fails(s)
  BY <1>10, EndSteps, StepsInv DEF Fails, Lost
<1> QED
  BY <1>5, <1>6, <1>7, <1>8, <1>9, <1>10

\* A send whose transaction is accepted had none that could pay.
LEMMA AcceptedKeeps ==
  ASSUME PayInv, NEW s \in Sends, Accepted(s)
  PROVE  PayInv'
<1> DEFINE r == [send[s] EXCEPT !.st = "waiting"]
<1>1. send[s] \in SendRecords /\ send \in [Sends -> SendRecords]
  BY DEF PayInv, PayShape
<1>2. r \in SendRecords
  BY <1>1 DEF SendRecords
<1>3. r.st = "waiting" /\ r.out # "refused"
  BY <1>1 DEF SendRecords, Accepted, PayInv, UnpaidWhenRefused
<1>4. send' = [send EXCEPT ![s] = r]
  BY DEF Accepted
<1>5. \A x \in Sends : send'[x] = IF x = s THEN r ELSE send[x]
  BY <1>1, <1>4
<1>6. Unpaid(s)
  BY DEF Accepted, PayInv, UnpaidWhileSigning
<1>7. Tx(s).send = s
  BY DEF Tx
<1>8. PayShape'
  BY <1>1, <1>2, <1>4, <1>7 DEF PayInv, PayShape, Accepted
<1>9. OneAtATime' /\ PaidIsOver'
  BY <1>6, <1>7 DEF PayInv, OneAtATime, PaidIsOver, Unpaid, Accepted
<1>10. \A x \in Sends : x # s => (Unpaid(x)' <=> Unpaid(x)) /\ block'[x] = block[x]
  BY <1>7 DEF Unpaid, Accepted, PayInv, PayShape
<1>11. block'[s] = "none"
  BY DEF Accepted, PayInv, PayShape
<1> QED
  BY <1>3, <1>5, <1>8, <1>9, <1>10, <1>11
  DEF PayInv, UnpaidWhileSigning, UnpaidWhenFailed, UnpaidWhenRefused

\* Nor had one whose reply is lost, and it is not signed again.
LEMMA ReplyIsLostKeeps ==
  ASSUME PayInv, NEW s \in Sends, ReplyIsLost(s)
  PROVE  PayInv'
<1> DEFINE r == [send[s] EXCEPT !.st = "ended", !.out = "lost"]
<1>1. send[s] \in SendRecords /\ send \in [Sends -> SendRecords]
  BY DEF PayInv, PayShape
<1>2. r \in SendRecords /\ r.st = "ended" /\ r.out = "lost"
  <2>1. r \in SendRecords
    BY <1>1 DEF SendRecords
  <2>2. r.st = "ended" /\ r.out = "lost"
    BY <1>1 DEF SendRecords
  <2> QED
    BY <2>1, <2>2
<1>4. send' = [send EXCEPT ![s] = r]
  BY <1>1 DEF ReplyIsLost, Lost, SendRecords
<1>5. \A x \in Sends : send'[x] = IF x = s THEN r ELSE send[x]
  BY <1>1, <1>4
<1>6. Unpaid(s)
  BY DEF ReplyIsLost, PayInv, UnpaidWhileSigning
<1>7. Tx(s).send = s
  BY DEF Tx
<1>12. pool' = pool \/ pool' = pool \cup {Tx(s)}
  BY DEF ReplyIsLost
<1>8. PayShape'
  BY <1>1, <1>2, <1>4, <1>7, <1>12 DEF PayInv, PayShape, ReplyIsLost
<1>9. OneAtATime' /\ PaidIsOver'
  BY <1>6, <1>7, <1>12 DEF PayInv, OneAtATime, PaidIsOver, Unpaid, ReplyIsLost
<1>10. \A x \in Sends : x # s => (Unpaid(x)' <=> Unpaid(x)) /\ block'[x] = block[x]
  BY <1>7, <1>12 DEF Unpaid, ReplyIsLost
<1> QED
  BY <1>2, <1>5, <1>8, <1>9, <1>10
  DEF PayInv, UnpaidWhileSigning, UnpaidWhenFailed, UnpaidWhenRefused

\* A block pays a send at most once: its one transaction is gone after it.
LEMMA DeliversKeeps ==
  ASSUME PayInv, NEW t \in pool, Delivers(t)
  PROVE  PayInv'
<1>1. t.send \in Sends /\ paid[t.send] = 0 /\ ~ Unpaid(t.send)
  BY DEF PayInv, PayShape, PaidIsOver, Unpaid
<1>2. \A u \in pool' : u \in pool /\ u.send # t.send
  BY DEF Delivers, PayInv, OneAtATime
<1>3. \A x \in Sends : x # t.send => paid'[x] = paid[x] /\ block'[x] = block[x]
  BY DEF Delivers, PayInv, PayShape
<1>4. \/ paid'[t.send] = 1 /\ block'[t.send] = "paid" /\ paid' = [paid EXCEPT ![t.send] = 1]
      \/ paid'[t.send] = 0 /\ block'[t.send] = "failed" /\ paid' = paid
  BY <1>1 DEF Delivers, PayInv, PayShape
<1>5. PayShape'
  <2>1. next' \in Seqs
    BY SeqFacts DEF Delivers, PayInv, PayShape
  <2>2. paid' \in [Sends -> 0 .. 1]
    BY <1>1, <1>4 DEF PayInv, PayShape
  <2> QED
    BY <1>2, <2>1, <2>2 DEF Delivers, PayInv, PayShape
<1>6. OneAtATime' /\ PaidIsOver'
  BY <1>2, <1>3 DEF PayInv, PayShape, OneAtATime, PaidIsOver
<1>7. \A x \in Sends : x # t.send /\ Unpaid(x) => Unpaid(x)'
  BY <1>2, <1>3 DEF Unpaid
<1>8. block'[t.send] = "failed" => Unpaid(t.send)'
  BY <1>2, <1>4 DEF Unpaid
<1> QED
  BY <1>1, <1>3, <1>4, <1>5, <1>6, <1>7, <1>8
  DEF PayInv, UnpaidWhileSigning, UnpaidWhenFailed, UnpaidWhenRefused, Delivers

\* A dropped transaction was the only one of its send, and did not pay.
LEMMA OvertakenKeeps ==
  ASSUME PayInv, NEW t \in pool, Overtaken(t)
  PROVE  PayInv'
<1>1. t.send \in Sends /\ paid[t.send] = 0
  BY DEF PayInv, PayShape, PaidIsOver
<1>2. \A u \in pool' : u \in pool /\ u.send # t.send
  BY DEF Overtaken, PayInv, OneAtATime
<1>3. \A x \in Sends : x # t.send => block'[x] = block[x]
  BY DEF Overtaken, PayInv, PayShape
<1>4. PayShape'
  BY <1>2 DEF Overtaken, PayInv, PayShape
<1>5. OneAtATime' /\ PaidIsOver'
  BY <1>2 DEF PayInv, OneAtATime, PaidIsOver, Overtaken
<1>6. \A x \in Sends : Unpaid(x) => Unpaid(x)'
  BY <1>2 DEF Unpaid, Overtaken
<1>7. Unpaid(t.send)'
  BY <1>1, <1>2 DEF Unpaid, Overtaken
<1> QED
  BY <1>3, <1>4, <1>5, <1>6, <1>7
  DEF PayInv, UnpaidWhileSigning, UnpaidWhenFailed, UnpaidWhenRefused, Overtaken

\* The account's other transactions touch no send.
LEMMA AccountMovesOnKeeps ==
  ASSUME PayInv, AccountMovesOn
  PROVE  PayInv'
<1>1. next' \in Seqs
  BY SeqFacts DEF AccountMovesOn, PayInv, PayShape
<1> QED
  BY <1>1 DEF AccountMovesOn, PayInv, PayShape, OneAtATime, PaidIsOver, Unpaid,
     UnpaidWhileSigning, UnpaidWhenFailed, UnpaidWhenRefused

\* No send has signed at first.
LEMMA PayInitially == PayInit => PayInv
<1> SUFFICES ASSUME PayInit PROVE PayInv
  OBVIOUS
<1>1. NewSend \in SendRecords
  BY SeqAssumption DEF NewSend, SendRecords, Seqs, NoSeq
<1>2. NewSend.st = "new" /\ NewSend.out = "none"
  BY DEF NewSend
<1>3. PayShape
  BY <1>1, SeqFacts DEF PayInit, PayShape
<1> QED
  BY <1>2, <1>3 DEF PayInit, PayInv, OneAtATime, PaidIsOver, Unpaid,
     UnpaidWhileSigning, UnpaidWhenFailed, UnpaidWhenRefused

\* One lemma for each part of the next-state relation.
LEMMA PayNextKeeps == PayInv /\ [PayNext]_payVars => PayInv'
<1> SUFFICES ASSUME PayInv, [PayNext]_payVars PROVE PayInv'
  OBVIOUS
<1>1. CASE UNCHANGED payVars
  BY <1>1 DEF payVars, chain, PayInv, PayShape, OneAtATime, PaidIsOver, Unpaid,
     UnpaidWhileSigning, UnpaidWhenFailed, UnpaidWhenRefused
<1>2. CASE PayNext
  BY <1>2, SendKeeps, AcceptedKeeps, ReplyIsLostKeeps, DeliversKeeps, OvertakenKeeps,
     AccountMovesOnKeeps DEF PayNext
<1> QED
  BY <1>1, <1>2

\* isSequenceMismatch, waitForInclusion: one press of Sign never pays twice, and
\* none that is told the chain refused it has paid or can pay yet, for every
\* number of sends and of the account's transactions.
THEOREM SignedOncePaidOnce == PaySpec => []PaysOnce
<1>1. PayInv => PaysOnce
  BY DEF PayInv, PayShape, PaysOnce, UnpaidWhenRefused, Unpaid
<1> QED
  BY <1>1, PayInitially, PayNextKeeps, PTL DEF PaySpec

\* What waits for a block was signed with a sequence.
PoolShape == pool \subseteq [send : Sends, seq : Nat]

LEMMA PoolStays == PayInv /\ PoolShape /\ [PayNext]_payVars => PoolShape'
<1> SUFFICES ASSUME PayInv, PoolShape, [PayNext]_payVars PROVE PoolShape'
  OBVIOUS
<1>1. ASSUME NEW s \in Sends PROVE Tx(s) \in [send : Sends, seq : Nat]
  <2>1. send[s].seq \in Nat
    BY SeqAssumption DEF PayInv, PayShape, SendRecords, Seqs, NoSeq
  <2> QED
    BY <2>1 DEF Tx
<1>2. ASSUME NEW s \in Sends, Accepted(s) \/ ReplyIsLost(s) PROVE PoolShape'
  BY <1>1, <1>2 DEF Accepted, ReplyIsLost, PoolShape
<1>3. CASE pool' \subseteq pool
  BY <1>3 DEF PoolShape
<1> QED
  BY <1>2, <1>3
     DEF PayNext, Confirms, Signs, Rejected, Included, DeadlinePasses, Fails, Delivers, Overtaken,
         AccountMovesOn, chain, payVars

-----------------------------------------------------------------------------
(* The two together *)

AnswersInv == PlanShapes /\ PayInv /\ PoolShape

LEMMA AnswersStart == AnswersInit => AnswersInv
  BY ShapesInitially, PayInitially DEF AnswersInit, AnswersInv, PayInit, PoolShape

LEMMA AnswersStay == AnswersInv /\ [AnswersNext]_<<part, vars, routeVars, payVars>> => AnswersInv'
<1> SUFFICES ASSUME AnswersInv, [AnswersNext]_<<part, vars, routeVars, payVars>> PROVE AnswersInv'
  OBVIOUS
<1>1. [RouteNext]_routeVars /\ [PayNext]_payVars
  BY DEF AnswersNext, NoMoreSequences
<1> QED
  BY <1>1, ShapesStay, PayNextKeeps, PoolStays DEF AnswersInv

\* What a plan and a send are, for any number of channels, plans and sends, beside
\* the calls or not (lib/route-plan.ts, lib/broadcast.ts).
THEOREM PlansAndSendsTypes == AnswersSpec => []PlanAndPayTypeOK
<1>1. AnswersInv => PlanAndPayTypeOK
  <2> SUFFICES ASSUME AnswersInv PROVE PlanAndPayTypeOK
    OBVIOUS
  <2>1. RouteTypeOK
    BY ShapesAreTypes DEF AnswersInv
  <2>2. PayTypeOK
    BY DEF AnswersInv, PayInv, PayShape, SendRecords, PoolShape, PayTypeOK
  <2> QED
    BY <2>1, <2>2 DEF PlanAndPayTypeOK
<1> QED
  BY <1>1, AnswersStart, AnswersStay, PTL DEF AnswersSpec
=============================================================================
