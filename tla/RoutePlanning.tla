--------------------------- MODULE RoutePlanning ---------------------------
(***************************************************************************)
(* Plans of a transfer over one leg, from one chain to another              *)
(* (lib/route-plan.ts): rounds that read the channel graph, let the engine  *)
(* pick a channel and check it on both chains; the reading of the chains'   *)
(* channel lists when the graph has no path, which outlives a plan that is  *)
(* given up; and the checks and lists the screens ask for beside a plan.    *)
(* A channel stands for a transfer channel from the leaving chain to the    *)
(* arriving one, by its number on the leaving chain.                        *)
(***************************************************************************)
EXTENDS Naturals, FiniteSets, FiniteSetsExt

CONSTANTS Channels,   \* channels of the leg, by number
          Canonical,  \* those the chain registry names: a row of every load
          Lists,      \* what a chain's channel list may name
          Kept,       \* channels an earlier session may have stored
          MaxPlans    \* bound: plans asked for

ASSUME ChannelAssumption ==
  /\ Channels \subseteq Nat \ {0} /\ Canonical \subseteq Channels
  /\ Lists \subseteq SUBSET Channels /\ Kept \subseteq SUBSET Channels
  /\ MaxPlans \in Nat

VARIABLES
  world,   \* the chains: channels that pass a check, and what each list names
  rows,    \* discovered rows of the route cache, by the end that named them
  answer,  \* channelChecks
  walk,    \* discoveryRuns of the leg: the list being read, and a failure so far
  walked,  \* walkedLegs has the leg
  asked,   \* plans asked for
  trip     \* the plan of the screen: planTransfer

memory == <<answer, walk, walked>>
routeVars == <<world, rows, memory, asked, trip>>

MaxPlanRounds == 5
\* One round fewer.
FourRounds == 4

NoWalk == [list |-> "none", failed |-> FALSE]
NoAnswers == [c \in Channels |-> "none"]
NoTrip == [st |-> "idle", forced |-> 0, pinned |-> FALSE, graph |-> {}, pick |-> 0,
           fresh |-> FALSE, round |-> 0, tried |-> FALSE, out |-> "none",
           again |-> FALSE, missed |-> FALSE, late |-> FALSE]

RouteInit ==
  /\ world = [good |-> {}, ahead |-> {}, back |-> {}]
  /\ rows = {}
  /\ answer = NoAnswers
  /\ walk = NoWalk
  /\ walked = FALSE
  /\ asked = 0
  /\ trip = NoTrip

-----------------------------------------------------------------------------
(* The graph *)

Discovered == {row.channel : row \in rows}

\* routableLinks without the rule about refused channels.
RoutableOrRefused ==
  LET links == Canonical \cup Discovered
  IN {c \in links : c \in Canonical \/ links \cap Canonical = {}}

\* routableLinks: what was ruled out is dropped, and a canonical channel that
\* was not keeps the others out.
Routable ==
  LET links == {c \in Canonical \cup Discovered : answer[c] # "refused"}
  IN {c \in links : c \in Canonical \/ links \cap Canonical = {}}

\* routeToLink: what the planner calls verified.
Verified(c) == answer[c] = "usable" \/ c \in Discovered

\* planRoute: a channel forced by a pin or by the voucher that unwinds, else the
\* first of those verified, else the first.
Pick(graph) ==
  LET best == {c \in graph : Verified(c)}
  IN IF trip.forced # 0 THEN trip.forced
     ELSE Min(IF best # {} THEN best ELSE graph)

-----------------------------------------------------------------------------
(* Plans *)

\* A screen plans anew: the former plan is over or was given up.  The first
\* session finds the chains, and the rows an earlier one left, as they are.
AsksPlan(forced, pinned) ==
  /\ trip.st \in {"idle", "ended"} /\ asked < MaxPlans
  /\ forced = 0 => ~pinned
  /\ trip' = [NoTrip EXCEPT !.st = "reading", !.forced = forced, !.pinned = pinned, !.round = 1]
  /\ asked' = asked + 1
  /\ IF asked # 0 THEN UNCHANGED <<world, rows>>
     ELSE /\ world' \in [good : SUBSET Channels, ahead : Lists, back : Lists]
          /\ \E kept \in Kept : rows' = [channel : kept, by : {"leaving"}]
  /\ UNCHANGED memory

\* controller.abort: the plan stops waiting; the walk does not.
Abandons ==
  /\ trip.st \notin {"idle", "ended"}
  /\ trip' = [trip EXCEPT !.st = "ended", !.out = "aborted"]
  /\ UNCHANGED <<world, rows, memory, asked>>

\* channelDirectory
ReadsGraph ==
  /\ trip.st = "reading"
  /\ trip' = [trip EXCEPT !.st = "routing", !.graph = Routable, !.late = FALSE]
  /\ UNCHANGED <<world, rows, memory, asked>>

\* planTransfer: what to do after a round, when another one is wanted.
NextRound(now, out) ==
  IF now.round < MaxPlanRounds
  THEN [now EXCEPT !.st = "reading", !.round = @ + 1, !.out = out]
  ELSE [now EXCEPT !.st = "ended", !.out = out, !.again = TRUE]

\* routeTransfer has a path, and checkPath begins: is its channel known?
PathFound ==
  /\ trip.st = "routing"
  /\ trip.forced # 0 \/ trip.graph # {}
  /\ LET c == Pick(trip.graph)
     IN trip' = [trip EXCEPT !.st = "checking", !.pick = c, !.fresh = answer[c] = "none"]
  /\ UNCHANGED <<world, rows, memory, asked>>

\* discoverLegs: the lists of the leg are read, by this plan's walk or one under
\* way, unless this session or this plan has read them.
LooksForChannels ==
  /\ trip.st = "routing" /\ trip.forced = 0 /\ trip.graph = {}
  /\ ~walked /\ ~trip.tried
  /\ trip' = [trip EXCEPT !.st = "waiting"]
  /\ walk' = IF walk = NoWalk THEN [NoWalk EXCEPT !.list = "leaving"] ELSE walk
  /\ UNCHANGED <<world, rows, answer, walked, asked>>

\* There is no path and nothing left to read: noChannelWarnings.
NoRoute ==
  /\ trip.st = "routing" /\ trip.forced = 0 /\ trip.graph = {}
  /\ walked \/ trip.tried
  /\ trip' = [trip EXCEPT !.st = "ended", !.out = "unrouted",
                          !.missed = Routable \cap (world.ahead \cup world.back) # {}]
  /\ UNCHANGED <<world, rows, memory, asked>>

-----------------------------------------------------------------------------
(* Checks *)

\* inspectChannelHop: both chains answer, or one cannot be asked.
Verdicts(c) == {IF c \in world.good THEN "usable" ELSE "refused", "unsure"}

\* checkChannelHop: a definite answer is kept, and goes into the route cache.
Learns(c, verdict) ==
  LET row == [channel |-> c, by |-> "leaving"]
  IN IF verdict = "unsure" THEN UNCHANGED <<answer, rows>>
     ELSE /\ answer' = [answer EXCEPT ![c] = verdict]
          /\ rows' = IF verdict = "usable" THEN rows \cup {row} ELSE rows \ {row}

\* checkPath, planAgain: another round after a refusal that can be routed around
\* and after a confirmation, if it was learned just now.
PathChecked ==
  /\ trip.st = "checking"
  /\ \E verdict \in IF trip.fresh THEN Verdicts(trip.pick) ELSE {answer[trip.pick]} :
       /\ IF trip.fresh THEN Learns(trip.pick, verdict) ELSE UNCHANGED <<answer, rows>>
       /\ trip' = IF trip.fresh /\ (verdict = "usable" \/ (verdict = "refused" /\ ~trip.pinned))
                  THEN NextRound(trip, verdict)
                  ELSE [trip EXCEPT !.st = "ended", !.out = verdict]
  /\ UNCHANGED <<world, walk, walked, asked>>

\* runPreviewChecks, detectOnce: the screens check channels on their own, those of
\* a route they know and those of a pair of chains.  They are the popup's and not
\* the plan's: one that Send began goes on beside the plans of Swap.  History: a
\* channel of the graph the plan has read is refused before the plan looks it up.
ChecksBeside(c) ==
  /\ asked # 0
  /\ answer[c] = "none"
  /\ \E verdict \in Verdicts(c) :
       /\ Learns(c, verdict)
       /\ trip' = IF trip.st = "routing" /\ verdict = "refused" /\ c \in trip.graph
                  THEN [trip EXCEPT !.late = TRUE] ELSE trip
  /\ UNCHANGED <<world, walk, walked, asked>>

-----------------------------------------------------------------------------
(* Channel lists *)

\* discoverOnce: a walk that read every list is kept, and whoever waits goes on.
WalkEnds(failed) ==
  /\ walk' = NoWalk
  /\ walked' = (walked \/ ~failed)
  /\ trip' = IF trip.st = "waiting"
             THEN NextRound([trip EXCEPT !.tried = TRUE], trip.out) ELSE trip

\* walkLeg: the leaving chain's list first; the arriving chain's too, unless the
\* first names a channel that was not ruled out.
LeavingListRead ==
  /\ walk.list = "leaving"
  /\ rows' = rows \cup [channel : world.ahead, by : {"leaving"}]
  /\ IF \E c \in world.ahead : answer[c] # "refused"
     THEN WalkEnds(FALSE)
     ELSE walk' = [walk EXCEPT !.list = "arriving"] /\ UNCHANGED <<walked, trip>>
  /\ UNCHANGED <<world, answer, asked>>

\* The arriving chain's channels are taken in the direction asked for.
ArrivingListAsLeaving ==
  /\ walk.list = "arriving"
  /\ rows' = rows \cup [channel : world.ahead, by : {"arriving"}]
  /\ WalkEnds(walk.failed)
  /\ UNCHANGED <<world, answer, asked>>

ArrivingListRead ==
  /\ walk.list = "arriving"
  /\ rows' = rows \cup [channel : world.back, by : {"arriving"}]
  /\ WalkEnds(walk.failed)
  /\ UNCHANGED <<world, answer, asked>>

ListFails ==
  /\ walk.list # "none"
  /\ IF walk.list = "leaving"
     THEN walk' = [list |-> "arriving", failed |-> TRUE] /\ UNCHANGED <<walked, trip>>
     ELSE WalkEnds(TRUE)
  /\ UNCHANGED <<world, rows, answer, asked>>

\* discoverChannels by detectOnce and by the channel sheet, on their own.
ListsBeside ==
  /\ asked # 0
  /\ rows' = rows \cup [channel : world.ahead, by : {"leaving"}]
  /\ UNCHANGED <<world, memory, asked, trip>>

\* The popup closes: the module's memory is gone, the rows are not.
PopupCloses ==
  /\ asked # 0
  /\ answer' = NoAnswers /\ walk' = NoWalk /\ walked' = FALSE
  /\ trip' = NoTrip
  /\ UNCHANGED <<world, rows, asked>>

RouteNext ==
  \/ \E forced \in Channels \cup {0}, pinned \in BOOLEAN : AsksPlan(forced, pinned)
  \/ Abandons \/ ReadsGraph \/ PathFound \/ LooksForChannels \/ NoRoute
  \/ PathChecked
  \/ \E c \in Channels : ChecksBeside(c)
  \/ LeavingListRead \/ ArrivingListRead \/ ListFails \/ ListsBeside
  \/ PopupCloses

RouteSpec == RouteInit /\ [][RouteNext]_routeVars

-----------------------------------------------------------------------------
(* Properties *)

\* The state of lib/route-plan.ts has its types; a row the arriving chain named
\* is of a channel its list names.
RouteTypeOK ==
  /\ world \in [good : SUBSET Channels, ahead : SUBSET Channels, back : SUBSET Channels]
  /\ rows \subseteq [channel : Channels, by : {"leaving", "arriving"}]
  /\ \A row \in rows : row.by = "arriving" => row.channel \in world.back
  /\ answer \in [Channels -> {"none", "usable", "refused"}]
  /\ walk \in [list : {"none", "leaving", "arriving"}, failed : BOOLEAN]
  /\ walked \in BOOLEAN /\ asked \in 0 .. MaxPlans
  /\ trip \in [st : {"idle", "reading", "routing", "checking", "waiting", "ended"},
               forced : Channels \cup {0}, pinned : BOOLEAN, graph : SUBSET Channels,
               pick : Channels \cup {0}, fresh : BOOLEAN, round : 0 .. MaxPlanRounds,
               tried : BOOLEAN, again : BOOLEAN, missed : BOOLEAN, late : BOOLEAN,
               out : {"none", "usable", "refused", "unsure", "unrouted", "aborted"}]

\* A plan that ends has settled, wherever the lists, the checks of the screens
\* and plans given up before come in.  MAX_PLAN_ROUNDS "leaves room for an expired
\* canonical channel, its fallback, one discovery and the confirming round": with
\* as many channels no plan runs out of rounds.  And checkPath ends with a refused
\* channel only where it was forced on the plan, by a pin or a voucher, or was
\* refused by another's check while the plan had the graph in hand; one that was
\* found in the graph and refused by the plan's own check is planned around.  Its
\* doc knows of the forced channels only: without `late' this does not hold.
PlanSettles ==
  trip.st = "ended" => /\ ~trip.again
                       /\ trip.out = "refused" => trip.forced # 0 \/ trip.late

\* discoverOnce says of a plan that is given up: "A cancelled plan stops waiting;
\* the walk finishes for the next one."  A plan that ends with the warning that
\* reading the lists turned up none leaves no channel that they turned up.
NoneMeansNone == trip.st = "ended" /\ trip.out = "unrouted" /\ walked => ~trip.missed

=============================================================================
