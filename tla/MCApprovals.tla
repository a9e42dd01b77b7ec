----------------------------- MODULE MCApprovals -----------------------------
(* Small instances of Approvals for TLC: a behaviour shows one side of it,    *)
(* the frames on the pages or the queue at its limit.                        *)
EXTENDS Approvals, TLC

VARIABLE side

CONSTANTS o1, t1, t2, c1, s1, s2, f1, f2

SameTabFrames == (f1 :> t1) @@ (f2 :> t1)

\* Two frames, two tabs, one page, two requests.
FramesSide == pages'[s2] = "closed" /\ next' <= 3

\* No frame, one tab, two pages, and one request more than the queue holds: a
\* signature, asked for while no page is on its way out.
QueueSide ==
  /\ frames' = frames
  /\ \A id \in Ids : req'[id] # NoRequest => req'[id].tab = t1
  /\ next' = 4 => req'[3].kind # "enable" /\ \A s \in Pages : pages'[s] # "leaving"

SidesInit == side \in {"frames", "queue"} /\ Init
SidesNext ==
  /\ UNCHANGED side
  /\ \/ side = "frames" /\ Next /\ FramesSide
     \/ side = "queue" /\ Next /\ QueueSide

SidesSpec == SidesInit /\ [][SidesNext]_<<side, vars>> /\ TimersFire
=============================================================================
