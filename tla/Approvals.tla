------------------------------ MODULE Approvals ------------------------------
(***************************************************************************)
(* The approval queue of the background worker (lib/approvals.ts), the     *)
(* extension pages that can answer it (lib/approval-ui.ts) and the in-page *)
(* connect frames bound to one request each (entrypoints/background.ts,    *)
(* onPortConnect).  A request is a promise the dApp waits on: it is        *)
(* approved, rejected (by the user, by a timer, by a closing surface, by a *)
(* lock) or lost with the worker that held it.                             *)
(*                                                                         *)
(* Request ids are random UUIDs in the code; here they are drawn in        *)
(* increasing order, so that queue order is id order and `queue.find`      *)
(* picks the least match.                                                  *)
(***************************************************************************)
EXTENDS Naturals, FiniteSets

CONSTANTS Origins,    \* sites, by the origin the browser reports
          Tabs,       \* browser tabs
          Chains,     \* chains a site may ask for
          Pages,      \* extension pages holding an approval-ui port
          Frames,     \* in-page connect frames
          FrameTab,   \* the tab each connect frame lives in
          MaxPending, \* SECURITY_CONFIG.rateLimits.maxPendingApprovals
          MaxIds      \* bound of the model: requests one behaviour may queue

ASSUME FrameTabAssumption == FrameTab \in [Frames -> Tabs]
ASSUME BoundsAssumption == MaxPending \in Nat /\ MaxIds \in Nat

Ids == 1 .. MaxIds
NoFrame == "no frame"
ASSUME NoFrameAssumption == NoFrame \notin Frames
\* The prompts the worker queues.  "sign" stands for signAmino, signDirect and
\* signArbitrary, which the code treats alike (SIGNING_KINDS).
Kinds == {"enable", "sign", "suggestChain"}
Hosts == {"none", "overlay", "popup"}
NoRequest == [kind |-> "none"]
Requests == [kind : Kinds, origin : Origins, tab : Tabs,
             chains : SUBSET Chains, host : Hosts]

VARIABLES
  queue,      \* ids waiting for an answer
  req,        \* the request behind each id
  promise,    \* what the dApp's promise for each id has come to
  resolvers,  \* ids whose resolve and reject functions are held
  timers,     \* ids with an expiry timer running
  next,       \* the next fresh id
  placing,    \* connection requests awaiting the content script's answer
  verifying,  \* signing requests whose answer waits for the password check
  pages,      \* state of each extension page: "closed", "open" or "leaving"
  ports,      \* approval-ui ports the worker counts
  latch,      \* windowOpening: "idle", "opening" or "cooling"
  frames,     \* state of each connect frame and the id its port names
  bindings    \* overlayBindings: the frame that owns each in-page prompt

queueVars == <<queue, req, promise, resolvers, timers, next>>
pageVars  == <<pages, ports, latch>>
frameVars == <<frames, bindings>>
vars == <<queueVars, placing, verifying, pageVars, frameVars>>

Absent == [st |-> "absent", id |-> 0]

TypeOK ==
  /\ queue \subseteq Ids
  /\ req \in [Ids -> Requests \cup {NoRequest}]
  /\ \A id \in queue : req[id] \in Requests
  /\ promise \in [Ids -> {"none", "pending", "approved", "rejected", "lost"}]
  /\ resolvers \subseteq Ids
  /\ timers \subseteq Ids
  /\ next \in 1 .. MaxIds + 1
  /\ placing \subseteq Ids
  /\ verifying \subseteq Ids
  /\ pages \in [Pages -> {"closed", "open", "leaving"}]
  /\ ports \subseteq Pages
  /\ latch \in {"idle", "opening", "cooling"}
  /\ frames \in [Frames -> [st : {"absent", "opening", "open", "closing"},
                            id : Ids \cup {0}]]
  /\ bindings \in [Ids -> Frames \cup {NoFrame}]

Init ==
  /\ queue = {}
  /\ req = [id \in Ids |-> NoRequest]
  /\ promise = [id \in Ids |-> "none"]
  /\ resolvers = {}
  /\ timers = {}
  /\ next = 1
  /\ placing = {}
  /\ verifying = {}
  /\ pages = [s \in Pages |-> "closed"]
  /\ ports = {}
  /\ latch = "idle"
  /\ frames = [f \in Frames |-> Absent]
  /\ bindings = [id \in Ids |-> NoFrame]

-----------------------------------------------------------------------------
(* lib/approvals.ts *)

\* Mutant: the expiry timer is left running.
SettleLeavesTimer(S, outcome) ==
  LET gone == S \cap queue
  IN /\ queue' = queue \ gone
     /\ resolvers' = resolvers \ gone
     /\ promise' = [id \in Ids |-> IF id \in gone THEN outcome ELSE promise[id]]
     /\ UNCHANGED <<timers, req, next>>

\* Mutant: an id is settled without asking whether it is still queued.
SettleBlindly(S, outcome) ==
  /\ queue' = queue \ S
  /\ resolvers' = resolvers \ S
  /\ timers' = timers \ S
  /\ promise' = [id \in Ids |-> IF id \in S THEN outcome ELSE promise[id]]
  /\ UNCHANGED <<req, next>>

\* settle() for every id of S that is still queued: the entry, its resolver and
\* its timer go, and the promise takes the outcome.
Settle(S, outcome) ==
  LET gone == S \cap queue
  IN /\ queue' = queue \ gone
     /\ resolvers' = resolvers \ gone
     /\ timers' = timers \ gone
     /\ promise' = [id \in Ids |-> IF id \in gone /\ id \in resolvers
                                   THEN outcome ELSE promise[id]]
     /\ UNCHANGED <<req, next>>

\* rejectApprovalsWhere: every queued request of S, one after the other, with
\* nothing in between.
Reject(S) == Settle(S, "rejected")

\* Mutant: the request never expires.
EnqueueWithoutTimer(request) ==
  /\ next \in Ids
  /\ Cardinality(queue) < MaxPending
  /\ queue' = queue \cup {next}
  /\ req' = [req EXCEPT ![next] = request]
  /\ promise' = [promise EXCEPT ![next] = "pending"]
  /\ resolvers' = resolvers \cup {next}
  /\ next' = next + 1
  /\ UNCHANGED timers

\* Mutant: the id is queued without its request.
EnqueueIdOnly(request) ==
  /\ next \in Ids
  /\ Cardinality(queue) < MaxPending
  /\ queue' = queue \cup {next}
  /\ promise' = [promise EXCEPT ![next] = "pending"]
  /\ resolvers' = resolvers \cup {next}
  /\ timers' = timers \cup {next}
  /\ next' = next + 1
  /\ UNCHANGED req

\* enqueueApprovalWithId: refused when the queue is full.
Enqueue(request) ==
  /\ next \in Ids
  /\ Cardinality(queue) < MaxPending
  /\ queue' = queue \cup {next}
  /\ req' = [req EXCEPT ![next] = request]
  /\ promise' = [promise EXCEPT ![next] = "pending"]
  /\ resolvers' = resolvers \cup {next}
  /\ timers' = timers \cup {next}
  /\ next' = next + 1

\* findPendingEnable: connection requests of the same origin in the same tab.
PendingEnables(o, t) ==
  {id \in queue : req[id].kind = "enable" /\ req[id].origin = o /\ req[id].tab = t}

FirstOf(id, S) == id \in S /\ \A other \in S : id <= other

\* extendApprovalChains
ExtendChains(id, cs) ==
  /\ req' = [req EXCEPT ![id].chains = @ \cup cs]
  /\ UNCHANGED <<queue, promise, resolvers, timers, next>>

\* setApprovalHost: nothing when the request is already answered.
HostSet(id, host) ==
  IF id \in queue THEN [req EXCEPT ![id].host = host] ELSE req

\* openApprovalUi: nothing when a surface is open or one is on its way.
LatchAfterOpen == IF ports = {} /\ latch = "idle" THEN "opening" ELSE latch

-----------------------------------------------------------------------------
(* Requests arriving from a page (lib/provider-handler.ts) *)

NewRequest(kind, o, t, cs, host) ==
  [kind |-> kind, origin |-> o, tab |-> t, chains |-> cs, host |-> host]

\* enable() while the same site already has a prompt up: share it.
JoinEnable(o, t, cs) ==
  /\ \E id \in Ids : FirstOf(id, PendingEnables(o, t)) /\ ExtendChains(id, cs)
  /\ UNCHANGED <<placing, verifying, pageVars, frameVars>>

\* enable() whose prompt goes to the popup at once: the popup is already open,
\* the wallet was locked, or the origin is a lookalike.
EnableInPopup(o, t, cs) ==
  /\ PendingEnables(o, t) = {}
  /\ Enqueue(NewRequest("enable", o, t, cs, "popup"))
  /\ latch' = LatchAfterOpen
  /\ UNCHANGED <<placing, verifying, pages, ports, frameVars>>

\* enable() that asks the content script to draw the prompt over the page.
EnableInPage(o, t, cs) ==
  /\ PendingEnables(o, t) = {}
  /\ ports = {}
  /\ Enqueue(NewRequest("enable", o, t, cs, "none"))
  /\ placing' = placing \cup {next}
  /\ UNCHANGED <<verifying, pageVars, frameVars>>

\* The content script answers: the frame is on screen (its port went out before
\* its load event), or it could not be shown and the popup takes the request.
FrameLoaded(id) ==
  \E f \in Frames : /\ frames[f].st # "absent" /\ frames[f].id = id
                    /\ FrameTab[f] = req[id].tab

PlaceEnable(id, inPage) ==
  /\ id \in placing
  /\ inPage => FrameLoaded(id) \/ id \notin queue
  /\ placing' = placing \ {id}
  /\ req' = HostSet(id, IF inPage THEN "overlay" ELSE "popup")
  /\ latch' = IF inPage THEN latch ELSE LatchAfterOpen
  /\ UNCHANGED <<queue, promise, resolvers, timers, next, verifying, pages, ports,
                 frameVars>>

\* approveInPopup: signatures and chain suggestions.
AskInPopup(kind, o, t, cs) ==
  /\ Enqueue(NewRequest(kind, o, t, cs, "popup"))
  /\ latch' = LatchAfterOpen
  /\ UNCHANGED <<placing, verifying, pages, ports, frameVars>>

-----------------------------------------------------------------------------
(* Answers (entrypoints/background.ts, RESOLVE_APPROVAL and REJECT_APPROVAL) *)

PageOnScreen == \E s \in Pages : pages[s] = "open"

\* An extension page answers a request.  A signature that is being approved
\* waits for the password check first, and the request may go meanwhile.
PageApproves(id) ==
  /\ PageOnScreen
  /\ id \in queue
  /\ IF req[id].kind = "sign"
     THEN verifying' = verifying \cup {id} /\ UNCHANGED queueVars
     ELSE Settle({id}, "approved") /\ UNCHANGED verifying
  /\ UNCHANGED <<placing, pageVars, frameVars>>

PasswordChecked(id, right) ==
  /\ id \in verifying
  /\ verifying' = verifying \ {id}
  /\ IF right THEN Settle({id}, "approved") ELSE UNCHANGED queueVars
  /\ UNCHANGED <<placing, pageVars, frameVars>>

PageRejects(id) ==
  /\ PageOnScreen
  /\ id \in queue
  /\ Reject({id})
  /\ UNCHANGED <<placing, verifying, pageVars, frameVars>>

\* frameOwnsApproval: the frame is the one bound to a live connection request.
FrameOwns(f, id) ==
  /\ bindings[id] = f
  /\ id \in queue
  /\ req[id].kind = "enable"

FrameAnswers(f, id, outcome) ==
  /\ frames[f].st = "open"
  /\ FrameOwns(f, id)
  /\ Settle({id}, outcome)
  /\ UNCHANGED <<placing, verifying, pageVars, frameVars>>

\* The timer set when the request was queued.
Expire(id) ==
  /\ id \in timers
  /\ Reject({id})
  /\ UNCHANGED <<placing, verifying, pageVars, frameVars>>

\* tabs.onRemoved
CloseTab(t) ==
  /\ Reject({id \in queue : req[id].tab = t})
  /\ frames' = [f \in Frames |-> IF FrameTab[f] = t /\ frames[f].st = "open"
                                 THEN [frames[f] EXCEPT !.st = "closing"]
                                 ELSE frames[f]]
  /\ UNCHANGED <<placing, verifying, pageVars, bindings>>

\* clearApprovals, called by lockWallet.
ClearOnLock ==
  /\ Reject(queue)
  /\ UNCHANGED <<placing, verifying, pageVars, frameVars>>

-----------------------------------------------------------------------------
(* Extension pages (lib/approval-ui.ts) *)

\* openNow brings up a page, or the user opens one from the toolbar.  The page
\* connects its port as it loads.
PageOpens(s) ==
  /\ pages[s] = "closed"
  /\ pages' = [pages EXCEPT ![s] = "open"]
  /\ ports' = ports \cup {s}
  /\ latch' = IF latch = "opening" THEN "cooling" ELSE latch
  /\ UNCHANGED <<queueVars, placing, verifying, frameVars>>

\* openNow failed, or the page it asked for is slow to load.
OpenFails ==
  /\ latch = "opening"
  /\ latch' = "cooling"
  /\ UNCHANGED <<queueVars, placing, verifying, pages, ports, frameVars>>

\* The 1.5 s after openNow finished.
LatchClears ==
  /\ latch = "cooling"
  /\ latch' = "idle"
  /\ UNCHANGED <<queueVars, placing, verifying, pages, ports, frameVars>>

\* The worker sees a port go.  When it was the last, the close listener rejects
\* what the popup was showing.
PortGone(s) ==
  /\ ports' = ports \ {s}
  /\ IF ports = {s}
     THEN Reject({id \in queue : req[id].host = "popup"})
     ELSE UNCHANGED queueVars

\* pagehide: the page lets its port go and stops reconnecting.
PageLeaves(s) ==
  /\ pages[s] = "open"
  /\ pages' = [pages EXCEPT ![s] = "leaving"]
  /\ PortGone(s)
  /\ UNCHANGED <<placing, verifying, latch, frameVars>>

PageCloses(s) ==
  /\ pages[s] = "leaving"
  /\ pages' = [pages EXCEPT ![s] = "closed"]
  /\ UNCHANGED <<queueVars, placing, verifying, ports, latch, frameVars>>

\* pageshow of a page kept in the back/forward cache: it may reconnect again.
PageReturns(s) ==
  /\ pages[s] = "leaving"
  /\ pages' = [pages EXCEPT ![s] = "open"]
  /\ UNCHANGED <<queueVars, placing, verifying, ports, latch, frameVars>>

\* Mutant: a page that said it was leaving connects again.
ReconnectWhileLeaving(s) ==
  /\ pages[s] # "closed"
  /\ s \notin ports
  /\ ports' = ports \cup {s}
  /\ UNCHANGED <<queueVars, placing, verifying, pages, latch, frameVars>>

\* The keep-alive ping of a page on screen whose port was lost.
Reconnect(s) ==
  /\ pages[s] = "open"
  /\ s \notin ports
  /\ ports' = ports \cup {s}
  /\ UNCHANGED <<queueVars, placing, verifying, pages, latch, frameVars>>

-----------------------------------------------------------------------------
(* Connect frames (entrypoints/connect/main.tsx, background.ts onPortConnect) *)

\* A page of tab FrameTab[f] loads the frame URL for a request: the content
\* script does when asked to, and so can the website itself.
FrameOpens(f, id) ==
  /\ frames[f].st = "absent"
  /\ id < next
  /\ frames' = [frames EXCEPT ![f] = [st |-> "opening", id |-> id]]
  /\ UNCHANGED <<queueVars, placing, verifying, pageVars, bindings>>

MayBind(f, id) ==
  id \in queue /\ req[id].kind = "enable" /\ req[id].tab = FrameTab[f]

FrameRefused(f) ==
  /\ frames[f].st = "opening"
  /\ ~MayBind(f, frames[f].id)
  /\ frames' = [frames EXCEPT ![f] = Absent]
  /\ UNCHANGED <<queueVars, placing, verifying, pageVars, bindings>>

FrameBinds(f) ==
  LET id == frames[f].id
  IN /\ frames[f].st = "opening"
     /\ MayBind(f, id)
     /\ bindings[id] = NoFrame
     /\ bindings' = [bindings EXCEPT ![id] = f]
     /\ frames' = [frames EXCEPT ![f].st = "open"]
     /\ UNCHANGED <<queueVars, placing, verifying, pageVars>>

\* Mutant: the last frame to claim a prompt gets it.
FrameDuplicateWins(f) ==
  LET id == frames[f].id
  IN /\ frames[f].st = "opening"
     /\ MayBind(f, id)
     /\ bindings[id] # NoFrame
     /\ bindings' = [bindings EXCEPT ![id] = f]
     /\ frames' = [frames EXCEPT ![f].st = "open"]
     /\ UNCHANGED <<queueVars, placing, verifying, pageVars>>

\* A second frame claiming the same prompt cancels the request.
FrameDuplicate(f) ==
  LET id == frames[f].id
  IN /\ frames[f].st = "opening"
     /\ MayBind(f, id)
     /\ bindings[id] # NoFrame
     /\ Reject({id})
     /\ frames' = [frames EXCEPT ![f] = Absent]
     /\ UNCHANGED <<placing, verifying, pageVars, bindings>>

\* The frame is removed, navigated away or torn down by its guard...
FrameGoes(f) ==
  /\ frames[f].st = "open"
  /\ frames' = [frames EXCEPT ![f].st = "closing"]
  /\ UNCHANGED <<queueVars, placing, verifying, pageVars, bindings>>

\* Mutant: the binding goes, the request stays.
FrameUnbindsOnly(f) ==
  LET id == frames[f].id
  IN /\ frames[f].st = "closing"
     /\ bindings' = [bindings EXCEPT ![id] = NoFrame]
     /\ frames' = [frames EXCEPT ![f] = Absent]
     /\ UNCHANGED <<queueVars, placing, verifying, pageVars>>

\* ... and the worker hears of it.
FrameUnbinds(f) ==
  LET id == frames[f].id
  IN /\ frames[f].st = "closing"
     /\ bindings' = [bindings EXCEPT ![id] = NoFrame]
     /\ Reject({id})
     /\ frames' = [frames EXCEPT ![f] = Absent]
     /\ UNCHANGED <<placing, verifying, pageVars>>

-----------------------------------------------------------------------------
\* The browser stops the worker: everything it held in memory goes, and the
\* ports of pages and frames with it.  Pages connect again (Reconnect); a frame
\* opens its port once only.
WorkerStops ==
  /\ queue' = {}
  /\ resolvers' = {}
  /\ timers' = {}
  /\ promise' = [id \in Ids |-> IF promise[id] = "pending" THEN "lost" ELSE promise[id]]
  /\ placing' = {}
  /\ verifying' = {}
  /\ ports' = {}
  /\ latch' = "idle"
  /\ bindings' = [id \in Ids |-> NoFrame]
  /\ frames' = [f \in Frames |-> IF frames[f].st = "opening" THEN frames[f] ELSE Absent]
  /\ UNCHANGED <<req, next, pages>>

-----------------------------------------------------------------------------
Ask ==
  \E o \in Origins, t \in Tabs, cs \in SUBSET Chains \ {{}} :
    \/ JoinEnable(o, t, cs)
    \/ EnableInPopup(o, t, cs)
    \/ EnableInPage(o, t, cs)
    \/ \E kind \in Kinds \ {"enable"} : AskInPopup(kind, o, t, cs)

Answer ==
  \E id \in Ids :
    \/ PageApproves(id)
    \/ PageRejects(id)
    \/ \E right \in BOOLEAN : PasswordChecked(id, right)
    \/ \E f \in Frames, outcome \in {"approved", "rejected"} : FrameAnswers(f, id, outcome)
    \/ Expire(id)
    \/ \E inPage \in BOOLEAN : PlaceEnable(id, inPage)

PageStep ==
  \E s \in Pages :
    PageOpens(s) \/ PageLeaves(s) \/ PageCloses(s) \/ PageReturns(s) \/ Reconnect(s)

FrameStep ==
  \E f \in Frames :
    \/ \E id \in Ids : FrameOpens(f, id)
    \/ FrameRefused(f) \/ FrameBinds(f) \/ FrameDuplicate(f)
    \/ FrameGoes(f) \/ FrameUnbinds(f)

Next ==
  \/ Ask
  \/ Answer
  \/ PageStep
  \/ FrameStep
  \/ \E t \in Tabs : CloseTab(t)
  \/ ClearOnLock
  \/ OpenFails
  \/ LatchClears
  \/ WorkerStops

Spec == Init /\ [][Next]_vars

\* setTimeout fires; nothing is assumed of the user or of the pages.
TimersFire == \A id \in Ids : WF_vars(Expire(id))

FairSpec == Spec /\ TimersFire

-----------------------------------------------------------------------------
(* Properties *)

\* Every queued request can still be answered and will expire, and nothing else
\* holds a resolver or a timer: the four maps of lib/approvals.ts, kept by hand
\* in settle() and enqueueApprovalWithId(), always describe the same requests.
PendingIsArmed ==
  /\ resolvers = queue
  /\ timers = queue
  /\ queue = {id \in Ids : promise[id] = "pending"}

\* Under the queue, the timers and the surfaces, a prompt is asked once and
\* answered once, never above the rate limit (lib/approvals.ts, settle).
Contract == INSTANCE Prompts
AsksAndAnswersOnce == Contract!Spec

\* A connect frame and the request it answers belong together: the worker's
\* binding and the frame's open port name each other, the frame sits in the tab
\* that asked, and the request is a connection.  No frame ever takes over the
\* prompt of another (background.ts onPortConnect, frameOwnsApproval).
FrameOwnsItsPrompt ==
  /\ \A id \in Ids : bindings[id] # NoFrame =>
       /\ frames[bindings[id]].id = id
       /\ frames[bindings[id]].st \in {"open", "closing"}
       /\ FrameTab[bindings[id]] = req[id].tab
       /\ req[id].kind = "enable"
  /\ \A f \in Frames : frames[f].st \in {"open", "closing"} =>
       /\ frames[f].id \in Ids
       /\ bindings[frames[f].id] = f

\* A request shown over the page still has its frame, or the news that the frame
\* went is on its way to the worker: enable() is never left waiting on a prompt
\* that is not there (connect/main.tsx, "always settles instead of hanging").
OverlayPromptAlive ==
  \A id \in queue : req[id].host = "overlay" =>
    \E f \in Frames : /\ frames[f].id = id
                      /\ frames[f].st \in {"opening", "open", "closing"}
                      /\ FrameTab[f] = req[id].tab

\* The worker never counts a surface that no longer exists: a counted port is
\* the port of a page on screen (approval-ui.ts holdApprovalUiPort).
NoGhostSurface == \A s \in ports : pages[s] = "open"

\* Never more prompts than the rate limit, however the answers interleave.
QueueBounded == Cardinality(queue) <= MaxPending

\* Every request a dApp is waiting on comes to an end, with nobody answering.
EveryRequestEnds ==
  \A id \in Ids : promise[id] = "pending" ~> promise[id] # "pending"
=============================================================================
