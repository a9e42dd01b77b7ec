--------------------------- MODULE ApprovalsProofs ---------------------------
(***************************************************************************)
(* Theorems about Approvals, for every number of sites, tabs, pages and     *)
(* frames and every queue limit.                                            *)
(***************************************************************************)
EXTENDS Approvals, FiniteSetTheorems, TLAPS

\* What is left of the queue after settling, and that settling keeps types.
LEMMA SettleTypes ==
  ASSUME TypeOK, NEW S \in SUBSET Ids,
         NEW outcome \in {"approved", "rejected", "lost"}, Settle(S, outcome)
  PROVE  /\ queue' \subseteq Ids
         /\ resolvers' \subseteq Ids
         /\ timers' \subseteq Ids
         /\ promise' \in [Ids -> {"none", "pending", "approved", "rejected", "lost"}]
         /\ req' = req
         /\ \A id \in queue' : req'[id] \in Requests
         /\ next' = next
  BY DEF TypeOK, Settle

\* Enqueueing a request keeps types and takes a slot within the bound.
LEMMA EnqueueTypes ==
  ASSUME TypeOK, NEW request \in Requests, Enqueue(request)
  PROVE  /\ queue' \subseteq Ids
         /\ resolvers' \subseteq Ids
         /\ timers' \subseteq Ids
         /\ promise' \in [Ids -> {"none", "pending", "approved", "rejected", "lost"}]
         /\ req' \in [Ids -> Requests \cup {NoRequest}]
         /\ \A id \in queue' : req'[id] \in Requests
         /\ next' \in 1 .. MaxIds + 1
         /\ next \in Ids
  BY BoundsAssumption DEF TypeOK, Enqueue, Ids

\* What enqueueApprovalWithId builds is a request.
LEMMA NewRequestType ==
  ASSUME NEW kind \in Kinds, NEW o \in Origins, NEW t \in Tabs,
         NEW cs \in SUBSET Chains, NEW host \in Hosts
  PROVE  NewRequest(kind, o, t, cs, host) \in Requests
  BY DEF NewRequest, Requests


\* Every variable keeps its type.
LEMMA TypePreserved ==
  ASSUME TypeOK, [Next]_vars
  PROVE  TypeOK'
<1>. USE DEF vars, queueVars, pageVars, frameVars
<1>1. CASE Ask
  <2>. SUFFICES ASSUME NEW o \in Origins, NEW t \in Tabs, NEW cs \in SUBSET Chains,
                       \/ JoinEnable(o, t, cs)
                       \/ EnableInPopup(o, t, cs)
                       \/ EnableInPage(o, t, cs)
                       \/ \E kind \in Kinds \ {"enable"} : AskInPopup(kind, o, t, cs)
                PROVE  TypeOK'
    BY <1>1 DEF Ask
  <2>1. CASE JoinEnable(o, t, cs)
    <3>1. PICK id \in Ids : FirstOf(id, PendingEnables(o, t)) /\ ExtendChains(id, cs)
      BY <2>1 DEF JoinEnable
    <3>2. req[id] \in Requests
      BY <3>1 DEF TypeOK, FirstOf, PendingEnables, NoRequest
    <3>. QED
      BY <2>1, <3>1, <3>2 DEF TypeOK, JoinEnable, ExtendChains, Requests
  <2>2. CASE EnableInPopup(o, t, cs)
    <3>1. NewRequest("enable", o, t, cs, "popup") \in Requests
      BY NewRequestType DEF Kinds, Hosts
    <3>. QED
      BY <2>2, <3>1, EnqueueTypes DEF TypeOK, EnableInPopup, LatchAfterOpen
  <2>3. CASE EnableInPage(o, t, cs)
    <3>1. NewRequest("enable", o, t, cs, "none") \in Requests
      BY NewRequestType DEF Kinds, Hosts
    <3>. QED
      BY <2>3, <3>1, EnqueueTypes DEF TypeOK, EnableInPage
  <2>4. ASSUME NEW kind \in Kinds \ {"enable"}, AskInPopup(kind, o, t, cs)
        PROVE  TypeOK'
    <3>1. NewRequest(kind, o, t, cs, "popup") \in Requests
      BY NewRequestType DEF Hosts
    <3>. QED
      BY <2>4, <3>1, EnqueueTypes DEF TypeOK, AskInPopup, LatchAfterOpen
  <2>. QED
    BY <2>1, <2>2, <2>3, <2>4
<1>2. CASE Answer
  <2>. SUFFICES ASSUME NEW id \in Ids,
                       \/ PageApproves(id)
                       \/ PageRejects(id)
                       \/ \E right \in BOOLEAN : PasswordChecked(id, right)
                       \/ \E f \in Frames, outcome \in {"approved", "rejected"} :
                            FrameAnswers(f, id, outcome)
                       \/ Expire(id)
                       \/ \E inPage \in BOOLEAN : PlaceEnable(id, inPage)
                PROVE  TypeOK'
    BY <1>2 DEF Answer
  <2>1. CASE PageApproves(id)
    BY <2>1, SettleTypes DEF TypeOK, PageApproves
  <2>2. CASE PageRejects(id)
    BY <2>2, SettleTypes DEF TypeOK, PageRejects, Reject
  <2>3. ASSUME NEW right \in BOOLEAN, PasswordChecked(id, right)
        PROVE  TypeOK'
    BY <2>3, SettleTypes DEF TypeOK, PasswordChecked
  <2>4. ASSUME NEW f \in Frames, NEW outcome \in {"approved", "rejected"},
               FrameAnswers(f, id, outcome)
        PROVE  TypeOK'
    BY <2>4, SettleTypes DEF TypeOK, FrameAnswers
  <2>5. CASE Expire(id)
    BY <2>5, SettleTypes DEF TypeOK, Expire, Reject
  <2>6. ASSUME NEW inPage \in BOOLEAN, PlaceEnable(id, inPage)
        PROVE  TypeOK'
    <3>1. CASE id \in queue
      BY <2>6, <3>1 DEF TypeOK, PlaceEnable, HostSet, LatchAfterOpen, Requests, Hosts
    <3>2. CASE id \notin queue
      BY <2>6, <3>2 DEF TypeOK, PlaceEnable, HostSet, LatchAfterOpen
    <3>. QED
      BY <3>1, <3>2
  <2>. QED
    BY <2>1, <2>2, <2>3, <2>4, <2>5, <2>6
<1>3. CASE PageStep
  <2>. SUFFICES ASSUME NEW s \in Pages,
                       \/ PageOpens(s) \/ PageLeaves(s) \/ PageCloses(s)
                       \/ PageReturns(s) \/ Reconnect(s)
                PROVE  TypeOK'
    BY <1>3 DEF PageStep
  <2>1. CASE PageOpens(s)
    BY <2>1 DEF TypeOK, PageOpens
  <2>2. CASE PageLeaves(s)
    <3>1. {id \in queue : req[id].host = "popup"} \in SUBSET Ids
      BY DEF TypeOK
    <3>. QED
      BY <2>2, <3>1, SettleTypes DEF TypeOK, PageLeaves, PortGone, Reject
  <2>3. CASE PageCloses(s)
    BY <2>3 DEF TypeOK, PageCloses
  <2>4. CASE PageReturns(s)
    BY <2>4 DEF TypeOK, PageReturns
  <2>5. CASE Reconnect(s)
    BY <2>5 DEF TypeOK, Reconnect
  <2>. QED
    BY <2>1, <2>2, <2>3, <2>4, <2>5
<1>4. CASE FrameStep
  <2>. SUFFICES ASSUME NEW f \in Frames,
                       \/ \E id \in Ids : FrameOpens(f, id)
                       \/ FrameRefused(f) \/ FrameBinds(f) \/ FrameDuplicate(f)
                       \/ FrameGoes(f) \/ FrameUnbinds(f)
                PROVE  TypeOK'
    BY <1>4 DEF FrameStep
  <2>1. ASSUME NEW id \in Ids, FrameOpens(f, id)
        PROVE  TypeOK'
    BY <2>1 DEF TypeOK, FrameOpens
  <2>2. CASE FrameRefused(f)
    BY <2>2 DEF TypeOK, FrameRefused, Absent
  <2>3. CASE FrameBinds(f)
    BY <2>3 DEF TypeOK, FrameBinds
  <2>4. CASE FrameDuplicate(f)
    <3>1. frames[f].id \in Ids
      BY <2>4 DEF TypeOK, FrameDuplicate, MayBind
    <3>. QED
      BY <2>4, <3>1, SettleTypes DEF TypeOK, FrameDuplicate, Absent, Reject
  <2>5. CASE FrameGoes(f)
    BY <2>5 DEF TypeOK, FrameGoes
  <2>6. CASE FrameUnbinds(f)
    <3>1. {frames[f].id} \cap queue \in SUBSET Ids
      BY DEF TypeOK
    <3>2. Settle({frames[f].id} \cap queue, "rejected")
      BY <2>6 DEF FrameUnbinds, Reject, Settle
    <3>. QED
      BY <2>6, <3>1, <3>2, SettleTypes DEF TypeOK, FrameUnbinds, Absent
  <2>. QED
    BY <2>1, <2>2, <2>3, <2>4, <2>5, <2>6
<1>5. ASSUME NEW t \in Tabs, CloseTab(t)
      PROVE  TypeOK'
  <2>1. {id \in queue : req[id].tab = t} \in SUBSET Ids
    BY DEF TypeOK
  <2>2. frames' \in [Frames -> [st : {"absent", "opening", "open", "closing"},
                                id : Ids \cup {0}]]
    BY <1>5 DEF TypeOK, CloseTab
  <2>. QED
    BY <1>5, <2>1, <2>2, SettleTypes DEF TypeOK, CloseTab, Reject
<1>6. CASE ClearOnLock
  BY <1>6, SettleTypes DEF TypeOK, ClearOnLock, Reject
<1>7. CASE OpenFails
  BY <1>7 DEF TypeOK, OpenFails
<1>8. CASE LatchClears
  BY <1>8 DEF TypeOK, LatchClears
<1>9. CASE WorkerStops
  BY <1>9 DEF TypeOK, WorkerStops, Absent
<1>10. CASE UNCHANGED vars
  BY <1>10 DEF TypeOK
<1>. QED
  BY <1>1, <1>2, <1>3, <1>4, <1>5, <1>6, <1>7, <1>8, <1>9, <1>10 DEF Next

-----------------------------------------------------------------------------
(* What a step can do to the queue. *)

\* Only prompts still queued change, and neither their kind nor their tab does.
Edits ==
  /\ UNCHANGED <<queue, promise, resolvers, timers, next>>
  /\ req' \in [Ids -> Requests \cup {NoRequest}]
  /\ \A id \in Ids : req'[id] # req[id] =>
       id \in queue /\ req'[id].kind = req[id].kind /\ req'[id].tab = req[id].tab

\* A step leaves the queue alone, settles, enqueues, edits a request or loses the worker.
LEMMA AnswerSteps ==
  ASSUME TypeOK, Next
  PROVE  \/ UNCHANGED queueVars
         \/ \E S \in SUBSET Ids : Settle(S, "rejected")
         \/ \E id \in Ids : Settle({id}, "approved")
         \/ \E request \in Requests : Enqueue(request)
         \/ Edits
         \/ WorkerStops
<1>. USE DEF queueVars
<1>1. CASE Ask
  <2>. SUFFICES ASSUME NEW o \in Origins, NEW t \in Tabs, NEW cs \in SUBSET Chains,
                       \/ JoinEnable(o, t, cs)
                       \/ EnableInPopup(o, t, cs)
                       \/ EnableInPage(o, t, cs)
                       \/ \E kind \in Kinds \ {"enable"} : AskInPopup(kind, o, t, cs)
                PROVE  Edits \/ \E request \in Requests : Enqueue(request)
    BY <1>1 DEF Ask
  <2>1. CASE JoinEnable(o, t, cs)
    <3>1. PICK id \in Ids : FirstOf(id, PendingEnables(o, t)) /\ ExtendChains(id, cs)
      BY <2>1 DEF JoinEnable
    <3>2. id \in queue /\ req[id] \in Requests
      BY <3>1 DEF TypeOK, FirstOf, PendingEnables
    <3>. QED
      BY <3>1, <3>2 DEF Edits, TypeOK, ExtendChains, Requests
  <2>2. ASSUME EnableInPopup(o, t, cs) \/ EnableInPage(o, t, cs)
        PROVE  \E request \in Requests : Enqueue(request)
    <3>1. /\ NewRequest("enable", o, t, cs, "popup") \in Requests
          /\ NewRequest("enable", o, t, cs, "none") \in Requests
      BY NewRequestType DEF Kinds, Hosts
    <3>. QED
      BY <2>2, <3>1 DEF EnableInPopup, EnableInPage
  <2>3. ASSUME NEW kind \in Kinds \ {"enable"}, AskInPopup(kind, o, t, cs)
        PROVE  \E request \in Requests : Enqueue(request)
    <3>1. NewRequest(kind, o, t, cs, "popup") \in Requests
      BY NewRequestType DEF Hosts
    <3>. QED
      BY <2>3, <3>1 DEF AskInPopup
  <2>. QED
    BY <2>1, <2>2, <2>3
<1>2. CASE Answer
  <2>. SUFFICES ASSUME NEW id \in Ids,
                       \/ PageApproves(id)
                       \/ PageRejects(id)
                       \/ \E right \in BOOLEAN : PasswordChecked(id, right)
                       \/ \E f \in Frames, outcome \in {"approved", "rejected"} :
                            FrameAnswers(f, id, outcome)
                       \/ Expire(id)
                       \/ \E inPage \in BOOLEAN : PlaceEnable(id, inPage)
                PROVE  \/ UNCHANGED queueVars
                       \/ \E S \in SUBSET Ids : Settle(S, "rejected")
                       \/ \E i \in Ids : Settle({i}, "approved")
                       \/ Edits
    BY <1>2 DEF Answer
  <2>1. {id} \in SUBSET Ids
    OBVIOUS
  <2>2. ASSUME NEW inPage \in BOOLEAN, PlaceEnable(id, inPage)
        PROVE  Edits
    <3>1. CASE id \in queue
      BY <2>2, <3>1 DEF Edits, TypeOK, PlaceEnable, HostSet, Requests, Hosts
    <3>2. CASE id \notin queue
      BY <2>2, <3>2 DEF Edits, TypeOK, PlaceEnable, HostSet
    <3>. QED
      BY <3>1, <3>2
  <2>3. CASE PageApproves(id)
    BY <2>1, <2>3 DEF PageApproves
  <2>4. ASSUME NEW right \in BOOLEAN, PasswordChecked(id, right)
        PROVE  UNCHANGED queueVars \/ Settle({id}, "approved")
    BY <2>4 DEF PasswordChecked
  <2>5. CASE PageRejects(id) \/ Expire(id)
    BY <2>1, <2>5 DEF PageRejects, Expire, Reject
  <2>6. ASSUME NEW f \in Frames, NEW outcome \in {"approved", "rejected"},
               FrameAnswers(f, id, outcome)
        PROVE  Settle({id}, outcome)
    BY <2>6 DEF FrameAnswers
  <2>. QED
    BY <2>1, <2>2, <2>3, <2>4, <2>5, <2>6
<1>3. CASE PageStep
  <2>1. {id \in queue : req[id].host = "popup"} \in SUBSET Ids
    BY DEF TypeOK
  <2>. QED
    BY <1>3, <2>1 DEF PageStep, PageOpens, PageLeaves, PageCloses, PageReturns,
                      Reconnect, PortGone, Reject
<1>4. CASE FrameStep
  <2>. SUFFICES ASSUME NEW f \in Frames,
                       \/ \E id \in Ids : FrameOpens(f, id)
                       \/ FrameRefused(f) \/ FrameBinds(f) \/ FrameDuplicate(f)
                       \/ FrameGoes(f) \/ FrameUnbinds(f)
                PROVE  \/ UNCHANGED queueVars
                       \/ \E S \in SUBSET Ids : Settle(S, "rejected")
    BY <1>4 DEF FrameStep
  <2>1. ASSUME FrameDuplicate(f) \/ FrameUnbinds(f)
        PROVE  \E S \in SUBSET Ids : Settle(S, "rejected")
    <3>1. {frames[f].id} \cap queue \in SUBSET Ids
      BY DEF TypeOK
    <3>2. Settle({frames[f].id} \cap queue, "rejected")
      BY <2>1 DEF FrameDuplicate, FrameUnbinds, Reject, Settle
    <3>. QED
      BY <3>1, <3>2
  <2>. QED
    BY <2>1 DEF FrameOpens, FrameRefused, FrameBinds, FrameGoes
<1>5. ASSUME NEW t \in Tabs, CloseTab(t)
      PROVE  \E S \in SUBSET Ids : Settle(S, "rejected")
  <2>1. {id \in queue : req[id].tab = t} \in SUBSET Ids
    BY DEF TypeOK
  <2>. QED
    BY <1>5, <2>1 DEF CloseTab, Reject
<1>6. CASE ClearOnLock
  BY <1>6 DEF ClearOnLock, Reject, TypeOK
<1>7. CASE OpenFails \/ LatchClears
  BY <1>7 DEF OpenFails, LatchClears
<1>. QED
  BY <1>1, <1>2, <1>3, <1>4, <1>5, <1>6, <1>7 DEF Next

\* The same, without telling the two answers apart.
LEMMA QueueSteps ==
  ASSUME TypeOK, Next
  PROVE  \/ UNCHANGED queueVars
         \/ \E S \in SUBSET Ids, outcome \in {"approved", "rejected"} : Settle(S, outcome)
         \/ \E request \in Requests : Enqueue(request)
         \/ Edits
         \/ WorkerStops
<1>1. \A id \in Ids : {id} \in SUBSET Ids
  OBVIOUS
<1>. QED
  BY <1>1, AnswerSteps

-----------------------------------------------------------------------------
(* The queue and its maps. *)

\* Ids below `next` have been asked, the others never were.
FreshIds ==
  \A id \in Ids : IF id < next THEN promise[id] # "none"
                               ELSE promise[id] = "none" /\ bindings[id] = NoFrame

\* The slots, hence the requests in the queue, are finitely many.
LEMMA IdsFinite ==
  ASSUME NEW S \in SUBSET Ids
  PROVE  IsFiniteSet(S)
<1>1. IsFiniteSet(1 .. MaxIds)
  BY BoundsAssumption, FS_Interval
<1>. QED
  BY <1>1, FS_Subset DEF Ids

\* Every step keeps the maps of lib/approvals.ts in agreement and the queue in its limit.
LEMMA ArmedPreserved ==
  ASSUME TypeOK, PendingIsArmed, QueueBounded, [Next]_vars
  PROVE  PendingIsArmed' /\ QueueBounded'
<1>1. CASE UNCHANGED queueVars
  BY <1>1 DEF PendingIsArmed, QueueBounded, queueVars
<1>2. ASSUME NEW S \in SUBSET Ids, NEW outcome \in {"approved", "rejected"},
             Settle(S, outcome)
      PROVE  PendingIsArmed' /\ QueueBounded'
  <2>1. PendingIsArmed'
    BY <1>2 DEF PendingIsArmed, Settle, TypeOK
  <2>2. IsFiniteSet(queue) /\ queue' \subseteq queue
    BY <1>2, IdsFinite DEF Settle, TypeOK
  <2>3. /\ Cardinality(queue') \in Nat /\ Cardinality(queue) \in Nat
        /\ Cardinality(queue') <= Cardinality(queue)
    BY <2>2, FS_Subset, FS_CardinalityType
  <2>. QED
    BY <2>1, <2>3, BoundsAssumption DEF QueueBounded
<1>3. ASSUME NEW request \in Requests, Enqueue(request)
      PROVE  PendingIsArmed' /\ QueueBounded'
  <2>1. PendingIsArmed'
    BY <1>3 DEF PendingIsArmed, Enqueue, TypeOK
  <2>2. IsFiniteSet(queue)
    BY IdsFinite DEF TypeOK
  <2>3. queue' = queue \cup {next} /\ Cardinality(queue) < MaxPending
    BY <1>3 DEF Enqueue
  <2>4. Cardinality(queue) \in Nat /\ Cardinality(queue') \in Nat
    <3>1. IsFiniteSet(queue \cup {next})
      BY <2>2, FS_AddElement
    <3>. QED
      BY <2>2, <2>3, <3>1, FS_CardinalityType
  <2>5. Cardinality(queue \cup {next}) = IF next \in queue THEN Cardinality(queue)
                                                         ELSE Cardinality(queue) + 1
    BY <2>2, FS_AddElement
  <2>. QED
    BY <2>1, <2>3, <2>4, <2>5, BoundsAssumption DEF QueueBounded
<1>4. CASE Edits
  BY <1>4 DEF Edits, PendingIsArmed, QueueBounded
<1>5. CASE WorkerStops
  <2>1. PendingIsArmed'
    BY <1>5 DEF WorkerStops, PendingIsArmed, TypeOK
  <2>2. Cardinality(queue') = 0
    BY <1>5, FS_EmptySet DEF WorkerStops
  <2>. QED
    BY <2>1, <2>2, BoundsAssumption DEF QueueBounded
<1>. QED
  BY <1>1, <1>2, <1>3, <1>4, <1>5, QueueSteps DEF vars, queueVars

\* Every step leaves the slots past the last request unused.
LEMMA FreshPreserved ==
  ASSUME TypeOK, PendingIsArmed, FreshIds, FrameOwnsItsPrompt, [Next]_vars
  PROVE  FreshIds'
<1>1. \A id \in Ids : bindings'[id] = bindings[id] \/ id < next \/ bindings'[id] = NoFrame
  <2>1. ASSUME NEW f \in Frames, FrameBinds(f)
        PROVE  \A id \in Ids : bindings'[id] = bindings[id] \/ id < next
    BY <2>1 DEF FrameBinds, MayBind, TypeOK, PendingIsArmed, FreshIds, Ids
  <2>2. ASSUME NEW f \in Frames, FrameUnbinds(f)
        PROVE  \A id \in Ids : bindings'[id] = bindings[id] \/ bindings'[id] = NoFrame
    BY <2>2 DEF FrameUnbinds, TypeOK
  <2>3. CASE WorkerStops
    BY <2>3 DEF WorkerStops
  <2>4. CASE bindings' = bindings
    BY <2>4
  <2>. QED
    BY <2>1, <2>2, <2>3, <2>4
    DEF Next, Ask, JoinEnable, EnableInPopup, EnableInPage, AskInPopup, Answer,
        PageApproves, PageRejects, PasswordChecked, FrameAnswers, Expire, PlaceEnable,
        PageStep, PageOpens, PageLeaves, PageCloses, PageReturns, Reconnect, FrameStep,
        FrameOpens, FrameRefused, FrameDuplicate, FrameGoes, CloseTab, ClearOnLock,
        OpenFails, LatchClears, vars, frameVars
<1>2. next' = next \/ (next' = next + 1 /\ next \in Ids /\ promise'[next] = "pending")
  <2>1. ASSUME NEW request \in Requests, Enqueue(request)
        PROVE  next' = next + 1 /\ next \in Ids /\ promise'[next] = "pending"
    BY <2>1 DEF Enqueue, TypeOK
  <2>. QED
    BY <2>1, QueueSteps DEF vars, queueVars, Settle, Edits, WorkerStops
<1>3. \A id \in Ids : id # next => (promise[id] = "none" <=> promise'[id] = "none")
  <2>1. ASSUME NEW S \in SUBSET Ids, NEW outcome \in {"approved", "rejected"},
               Settle(S, outcome)
        PROVE  \A id \in Ids : promise[id] = "none" <=> promise'[id] = "none"
    BY <2>1 DEF Settle, TypeOK, PendingIsArmed
  <2>2. ASSUME NEW request \in Requests, Enqueue(request)
        PROVE  \A id \in Ids : id # next => promise'[id] = promise[id]
    BY <2>2 DEF Enqueue, TypeOK
  <2>3. CASE WorkerStops
    BY <2>3 DEF WorkerStops, TypeOK
  <2>. QED
    BY <2>1, <2>2, <2>3, QueueSteps DEF vars, queueVars, Edits
<1>4. next' = next => promise'[next] = promise[next] \/ next \notin Ids
  <2>1. ASSUME NEW S \in SUBSET Ids, NEW outcome \in {"approved", "rejected"},
               Settle(S, outcome)
        PROVE  promise'[next] = promise[next] \/ next \notin Ids
    BY <2>1 DEF Settle, TypeOK, PendingIsArmed, FreshIds
  <2>2. CASE WorkerStops
    BY <2>2 DEF WorkerStops, TypeOK, FreshIds
  <2>3. ASSUME NEW request \in Requests, Enqueue(request)
        PROVE  next' # next
    BY <2>3 DEF Enqueue, TypeOK
  <2>. QED
    BY <2>1, <2>2, <2>3, QueueSteps DEF vars, queueVars, Edits
<1>. QED
  BY <1>1, <1>2, <1>3, <1>4 DEF FreshIds, TypeOK, Ids

-----------------------------------------------------------------------------
(* Surfaces. *)

\* Every step counts only surfaces that are on screen.
LEMMA GhostPreserved ==
  ASSUME TypeOK, NoGhostSurface, [Next]_vars
  PROVE  NoGhostSurface'
<1>1. CASE UNCHANGED <<pages, ports>>
  BY <1>1 DEF NoGhostSurface
<1>2. ASSUME NEW s \in Pages, PageOpens(s)
      PROVE  NoGhostSurface'
  BY <1>2 DEF PageOpens, NoGhostSurface, TypeOK
<1>3. ASSUME NEW s \in Pages, PageLeaves(s)
      PROVE  NoGhostSurface'
  BY <1>3 DEF PageLeaves, PortGone, NoGhostSurface, TypeOK
<1>4. ASSUME NEW s \in Pages, PageCloses(s)
      PROVE  NoGhostSurface'
  BY <1>4 DEF PageCloses, NoGhostSurface, TypeOK
<1>5. ASSUME NEW s \in Pages, PageReturns(s)
      PROVE  NoGhostSurface'
  BY <1>5 DEF PageReturns, NoGhostSurface, TypeOK
<1>6. ASSUME NEW s \in Pages, Reconnect(s)
      PROVE  NoGhostSurface'
  BY <1>6 DEF Reconnect, NoGhostSurface, TypeOK
<1>7. CASE WorkerStops
  BY <1>7 DEF WorkerStops, NoGhostSurface
<1>. QED
  BY <1>1, <1>2, <1>3, <1>4, <1>5, <1>6, <1>7
  DEF Next, Ask, JoinEnable, EnableInPopup, EnableInPage, AskInPopup, Answer,
      PageApproves, PageRejects, PasswordChecked, FrameAnswers, Expire, PlaceEnable,
      PageStep, FrameStep, FrameOpens, FrameRefused, FrameBinds, FrameDuplicate,
      FrameGoes, FrameUnbinds, CloseTab, ClearOnLock, OpenFails, LatchClears, vars,
      pageVars

-----------------------------------------------------------------------------
(* Connect frames. *)

\* What a step does to a request it does not create: kind and tab stay.
LEMMA RequestsStay ==
  ASSUME TypeOK, [Next]_vars, NEW id \in Ids, id # next
  PROVE  req'[id].kind = req[id].kind /\ req'[id].tab = req[id].tab
<1>1. ASSUME NEW request \in Requests, Enqueue(request)
      PROVE  req'[id] = req[id]
  BY <1>1 DEF Enqueue, TypeOK
<1>. QED
  BY <1>1, QueueSteps DEF vars, queueVars, Settle, Edits, WorkerStops

\* Steps that touch neither frames nor bindings.
LEMMA FramesStay ==
  ASSUME TypeOK, [Next]_vars
  PROVE  \/ UNCHANGED frameVars
         \/ \E f \in Frames, id \in Ids : FrameOpens(f, id)
         \/ \E f \in Frames : FrameRefused(f) \/ FrameBinds(f) \/ FrameDuplicate(f)
                              \/ FrameGoes(f) \/ FrameUnbinds(f)
         \/ \E t \in Tabs : CloseTab(t)
         \/ WorkerStops
  BY DEF Next, Ask, JoinEnable, EnableInPopup, EnableInPage, AskInPopup, Answer,
         PageApproves, PageRejects, PasswordChecked, FrameAnswers, Expire, PlaceEnable,
         PageStep, PageOpens, PageLeaves, PageCloses, PageReturns, Reconnect, FrameStep,
         ClearOnLock, OpenFails, LatchClears, vars, frameVars

\* Every step keeps a frame's binding to the prompt its port names, in its tab.
LEMMA FrameOwnerPreserved ==
  ASSUME TypeOK, PendingIsArmed, FreshIds, FrameOwnsItsPrompt, [Next]_vars
  PROVE  FrameOwnsItsPrompt'
<1>. USE DEF FrameOwnsItsPrompt
<1>1. \A id \in Ids : bindings[id] # NoFrame =>
        req'[id].kind = req[id].kind /\ req'[id].tab = req[id].tab
  <2>. SUFFICES ASSUME NEW id \in Ids, bindings[id] # NoFrame
                PROVE  req'[id].kind = req[id].kind /\ req'[id].tab = req[id].tab
    OBVIOUS
  <2>1. id < next
    BY DEF FreshIds
  <2>2. id # next
    BY <2>1 DEF TypeOK, Ids
  <2>. QED
    BY <2>2, RequestsStay
<1>2. CASE UNCHANGED frameVars
  BY <1>1, <1>2 DEF frameVars
<1>3. ASSUME NEW f \in Frames, NEW id \in Ids, FrameOpens(f, id)
      PROVE  FrameOwnsItsPrompt'
  BY <1>1, <1>3 DEF FrameOpens, TypeOK
<1>4. ASSUME NEW f \in Frames, FrameRefused(f)
      PROVE  FrameOwnsItsPrompt'
  BY <1>1, <1>4 DEF FrameRefused, Absent, TypeOK
<1>5. ASSUME NEW f \in Frames, FrameBinds(f)
      PROVE  FrameOwnsItsPrompt'
  <2>1. frames[f].id \in Ids
    BY <1>5 DEF FrameBinds, MayBind, TypeOK
  <2>2. req' = req
    BY <1>5 DEF FrameBinds, queueVars
  <2>3. /\ bindings' = [bindings EXCEPT ![frames[f].id] = f]
        /\ frames' = [frames EXCEPT ![f].st = "open"]
        /\ bindings[frames[f].id] = NoFrame
        /\ req[frames[f].id].kind = "enable"
        /\ req[frames[f].id].tab = FrameTab[f]
        /\ frames[f].st = "opening"
    BY <1>5 DEF FrameBinds, MayBind
  <2>4. /\ frames'[f].id = frames[f].id /\ frames'[f].st = "open"
        /\ \A other \in Frames \ {f} : frames'[other] = frames[other]
        /\ bindings'[frames[f].id] = f
        /\ \A id \in Ids \ {frames[f].id} : bindings'[id] = bindings[id]
    BY <2>1, <2>3 DEF TypeOK
  <2>5. ASSUME NEW id \in Ids, bindings'[id] # NoFrame
        PROVE  /\ frames'[bindings'[id]].id = id
               /\ frames'[bindings'[id]].st \in {"open", "closing"}
               /\ FrameTab[bindings'[id]] = req'[id].tab
               /\ req'[id].kind = "enable"
    <3>1. CASE id = frames[f].id
      BY <2>2, <2>3, <2>4, <3>1
    <3>2. CASE id # frames[f].id
      <4>1. bindings[id] \in Frames /\ bindings[id] # f
        BY <2>3, <2>4, <2>5, <3>2 DEF TypeOK
      <4>. QED
        BY <2>2, <2>4, <2>5, <3>2, <4>1
    <3>. QED
      BY <3>1, <3>2
  <2>6. ASSUME NEW other \in Frames, frames'[other].st \in {"open", "closing"}
        PROVE  frames'[other].id \in Ids /\ bindings'[frames'[other].id] = other
    <3>1. CASE other = f
      BY <2>1, <2>4, <3>1
    <3>2. CASE other # f
      BY <2>3, <2>4, <2>6, <3>2, NoFrameAssumption
    <3>. QED
      BY <3>1, <3>2
  <2>. QED
    BY <2>5, <2>6
<1>6. ASSUME NEW f \in Frames, FrameDuplicate(f)
      PROVE  FrameOwnsItsPrompt'
  BY <1>1, <1>6 DEF FrameDuplicate, Absent, TypeOK
<1>7. ASSUME NEW f \in Frames, FrameGoes(f)
      PROVE  FrameOwnsItsPrompt'
  BY <1>1, <1>7 DEF FrameGoes, TypeOK
<1>8. ASSUME NEW f \in Frames, FrameUnbinds(f)
      PROVE  FrameOwnsItsPrompt'
  <2>1. frames[f].id \in Ids /\ bindings[frames[f].id] = f
    BY <1>8 DEF FrameUnbinds
  <2>2. \A other \in Frames \ {f} : frames[other].st \in {"open", "closing"} =>
          frames[other].id # frames[f].id
    BY <2>1
  <2>3. /\ frames'[f].st = "absent"
        /\ \A other \in Frames \ {f} : frames'[other] = frames[other]
        /\ bindings'[frames[f].id] = NoFrame
        /\ \A id \in Ids \ {frames[f].id} : bindings'[id] = bindings[id]
    BY <1>8, <2>1 DEF FrameUnbinds, Absent, TypeOK
  <2>4. ASSUME NEW id \in Ids, bindings'[id] # NoFrame
        PROVE  /\ frames'[bindings'[id]].id = id
               /\ frames'[bindings'[id]].st \in {"open", "closing"}
               /\ FrameTab[bindings'[id]] = req'[id].tab
               /\ req'[id].kind = "enable"
    <3>1. id # frames[f].id
      BY <2>3, <2>4
    <3>2. bindings[id] \in Frames /\ bindings[id] # f
      BY <2>3, <2>4, <3>1 DEF TypeOK
    <3>. QED
      BY <1>1, <2>3, <2>4, <3>1, <3>2
  <2>5. ASSUME NEW other \in Frames, frames'[other].st \in {"open", "closing"}
        PROVE  frames'[other].id \in Ids /\ bindings'[frames'[other].id] = other
    <3>1. other # f
      BY <2>3, <2>5
    <3>. QED
      BY <2>2, <2>3, <2>5, <3>1
  <2>. QED
    BY <2>4, <2>5
<1>9. ASSUME NEW t \in Tabs, CloseTab(t)
      PROVE  FrameOwnsItsPrompt'
  <2>1. /\ bindings' = bindings
        /\ \A f \in Frames : /\ frames'[f].id = frames[f].id
                             /\ frames'[f].st \in {"open", "closing"}
                                  <=> frames[f].st \in {"open", "closing"}
    BY <1>9 DEF CloseTab, TypeOK
  <2>. QED
    BY <1>1, <2>1 DEF TypeOK
<1>10. CASE WorkerStops
  BY <1>10 DEF WorkerStops, Absent, TypeOK
<1>. QED
  BY <1>2, <1>3, <1>4, <1>5, <1>6, <1>7, <1>8, <1>9, <1>10, FramesStay

\* Only connection requests wait for the content script or sit over the page.
PlacedEnables ==
  /\ \A id \in placing : id < next /\ req[id].kind = "enable"
  /\ \A id \in queue : req[id].host = "overlay" => req[id].kind = "enable"

\* An overlay prompt after a step was one before it, or was placed by the step.
LEMMA OverlaySteps ==
  ASSUME TypeOK, PendingIsArmed, FreshIds, [Next]_vars,
         NEW id \in Ids, id \in queue', req'[id].host = "overlay"
  PROVE  /\ id # next
         /\ \/ id \in queue /\ req[id].host = "overlay"
            \/ PlaceEnable(id, TRUE) /\ id \in queue
<1>. USE DEF queueVars
<1>1. ASSUME NEW o \in Origins, NEW t \in Tabs, NEW cs \in SUBSET Chains, JoinEnable(o, t, cs)
      PROVE  id \in queue /\ req[id].host = "overlay"
  <2>1. PICK other \in Ids : FirstOf(other, PendingEnables(o, t)) /\ ExtendChains(other, cs)
    BY <1>1 DEF JoinEnable
  <2>2. other \in queue /\ req[other] \in Requests
    BY <2>1 DEF TypeOK, FirstOf, PendingEnables
  <2>3. queue' = queue /\ req' = [req EXCEPT ![other].chains = @ \cup cs]
    BY <2>1 DEF ExtendChains
  <2>4. req'[id].host = req[id].host
    BY <2>2, <2>3 DEF TypeOK, Requests
  <2>. QED
    BY <2>3, <2>4
<1>2. ASSUME NEW kind \in Kinds, NEW o \in Origins, NEW t \in Tabs,
             NEW cs \in SUBSET Chains, NEW host \in {"none", "popup"},
             Enqueue(NewRequest(kind, o, t, cs, host))
      PROVE  id # next /\ id \in queue /\ req[id].host = "overlay"
  <2>1. req' = [req EXCEPT ![next] = NewRequest(kind, o, t, cs, host)]
        /\ queue' = queue \cup {next} /\ next \in Ids
    BY <1>2 DEF Enqueue
  <2>2. NewRequest(kind, o, t, cs, host).host # "overlay"
    BY DEF NewRequest
  <2>3. id # next
    BY <2>1, <2>2 DEF TypeOK
  <2>. QED
    BY <2>1, <2>3 DEF TypeOK
<1>3. ASSUME NEW other \in Ids, NEW inPage \in BOOLEAN, PlaceEnable(other, inPage)
      PROVE  \/ id \in queue /\ req[id].host = "overlay"
             \/ PlaceEnable(id, TRUE) /\ id \in queue
  <2>1. queue' = queue
    BY <1>3 DEF PlaceEnable
  <2>2. CASE other = id /\ inPage
    BY <1>3, <2>1, <2>2
  <2>3. CASE other = id /\ ~inPage
    BY <1>3, <2>1, <2>3 DEF PlaceEnable, HostSet, TypeOK, Requests
  <2>4. CASE other # id
    BY <1>3, <2>1, <2>4 DEF PlaceEnable, HostSet, TypeOK
  <2>. QED
    BY <2>2, <2>3, <2>4
<1>4. ASSUME NEW S \in SUBSET Ids, NEW outcome \in {"approved", "rejected"},
             Settle(S, outcome)
      PROVE  id \in queue /\ req[id].host = "overlay"
  BY <1>4 DEF Settle
<1>5. CASE WorkerStops
  BY <1>5 DEF WorkerStops
<1>6. ASSUME UNCHANGED queueVars
      PROVE  id \in queue /\ req[id].host = "overlay"
  BY <1>6
<1>7. id \in queue => id # next
  BY DEF PendingIsArmed, FreshIds, TypeOK, Ids
<1>8. CASE Ask
  <2>1. PICK o \in Origins, t \in Tabs, cs \in SUBSET Chains :
          \/ JoinEnable(o, t, cs)
          \/ EnableInPopup(o, t, cs)
          \/ EnableInPage(o, t, cs)
          \/ \E kind \in Kinds \ {"enable"} : AskInPopup(kind, o, t, cs)
    BY <1>8 DEF Ask
  <2>2. CASE EnableInPopup(o, t, cs) \/ EnableInPage(o, t, cs)
    BY <1>2, <2>2 DEF EnableInPopup, EnableInPage, Kinds
  <2>3. ASSUME NEW kind \in Kinds \ {"enable"}, AskInPopup(kind, o, t, cs)
        PROVE  id # next /\ id \in queue /\ req[id].host = "overlay"
    BY <1>2, <2>3 DEF AskInPopup
  <2>. QED
    BY <1>1, <1>7, <2>1, <2>2, <2>3
<1>9. CASE ~Ask /\ \A other \in Ids, inPage \in BOOLEAN : ~PlaceEnable(other, inPage)
  <2>1. \/ UNCHANGED queueVars
        \/ \E S \in SUBSET Ids, outcome \in {"approved", "rejected"} : Settle(S, outcome)
        \/ WorkerStops
    <3>1. ASSUME NEW other \in Ids
          PROVE  {other} \in SUBSET Ids
      OBVIOUS
    <3>2. CASE Answer
      BY <1>9, <3>1, <3>2 DEF Answer, PageApproves, PageRejects, PasswordChecked,
                              FrameAnswers, Expire, Reject
    <3>3. ASSUME NEW f \in Frames, FrameDuplicate(f) \/ FrameUnbinds(f)
          PROVE  \E S \in SUBSET Ids : Settle(S, "rejected")
      <4>1. {frames[f].id} \cap queue \in SUBSET Ids
        BY DEF TypeOK
      <4>2. Settle({frames[f].id} \cap queue, "rejected")
        BY <3>3 DEF FrameDuplicate, FrameUnbinds, Reject, Settle
      <4>. QED
        BY <4>1, <4>2
    <3>4. /\ {i \in queue : req[i].host = "popup"} \in SUBSET Ids
          /\ \A t \in Tabs : {i \in queue : req[i].tab = t} \in SUBSET Ids
          /\ queue \in SUBSET Ids
      BY DEF TypeOK
    <3>5. CASE PageStep
      BY <3>4, <3>5 DEF PageStep, PageOpens, PageLeaves, PageCloses, PageReturns,
                        Reconnect, PortGone, Reject
    <3>6. CASE FrameStep
      BY <3>3, <3>6 DEF FrameStep, FrameOpens, FrameRefused, FrameBinds, FrameGoes
    <3>. QED
      BY <1>9, <3>2, <3>4, <3>5, <3>6
      DEF Next, CloseTab, ClearOnLock, OpenFails, LatchClears, Reject, vars
  <2>. QED
    BY <1>4, <1>5, <1>6, <1>7, <2>1
<1>. QED
  BY <1>3, <1>7, <1>8, <1>9

\* Every step keeps the frame of a prompt shown over a page, or the news of its end.
LEMMA OverlayPreserved ==
  ASSUME TypeOK, PendingIsArmed, FreshIds, PlacedEnables, OverlayPromptAlive, [Next]_vars
  PROVE  OverlayPromptAlive'
<1>. SUFFICES ASSUME NEW id \in queue', req'[id].host = "overlay"
              PROVE  \E f \in Frames : /\ frames'[f].id = id
                                       /\ frames'[f].st \in {"opening", "open", "closing"}
                                       /\ FrameTab[f] = req'[id].tab
  BY DEF OverlayPromptAlive
<1>1. id \in Ids
  <2>1. TypeOK'
    BY TypePreserved
  <2>. QED
    BY <2>1 DEF TypeOK
<1>2. /\ id # next
      /\ id \in queue
      /\ req[id].host = "overlay" \/ PlaceEnable(id, TRUE)
  BY <1>1, OverlaySteps
<1>3. req'[id].tab = req[id].tab
  BY <1>1, <1>2, RequestsStay
<1>4. CASE PlaceEnable(id, TRUE)
  <2>1. FrameLoaded(id) /\ frames' = frames
    BY <1>2, <1>4 DEF PlaceEnable, frameVars
  <2>2. PICK f \in Frames : /\ frames[f].st # "absent" /\ frames[f].id = id
                            /\ FrameTab[f] = req[id].tab
    BY <2>1 DEF FrameLoaded
  <2>. QED
    BY <1>3, <2>1, <2>2 DEF TypeOK
<1>5. CASE req[id].host = "overlay"
  <2>1. PICK f \in Frames : /\ frames[f].id = id
                            /\ frames[f].st \in {"opening", "open", "closing"}
                            /\ FrameTab[f] = req[id].tab
    BY <1>2, <1>5 DEF OverlayPromptAlive
  <2>. SUFFICES frames'[f].id = id /\ frames'[f].st \in {"opening", "open", "closing"}
    BY <1>3, <2>1
  <2>2. CASE UNCHANGED frameVars
    BY <2>1, <2>2 DEF frameVars
  <2>3. ASSUME NEW g \in Frames, NEW other \in Ids, FrameOpens(g, other)
        PROVE  frames'[f] = frames[f]
    BY <2>1, <2>3 DEF FrameOpens, TypeOK
  <2>4. ASSUME NEW g \in Frames, FrameRefused(g)
        PROVE  frames'[f] = frames[f]
    <3>1. MayBind(f, id)
      BY <1>2, <1>5, <2>1 DEF MayBind, PlacedEnables
    <3>. QED
      BY <2>1, <2>4, <3>1 DEF FrameRefused, TypeOK
  <2>5. ASSUME NEW g \in Frames, FrameBinds(g) \/ FrameGoes(g)
        PROVE  frames'[f].id = id /\ frames'[f].st \in {"opening", "open", "closing"}
    BY <2>1, <2>5 DEF FrameBinds, FrameGoes, TypeOK
  <2>6. ASSUME NEW g \in Frames, FrameDuplicate(g) \/ FrameUnbinds(g)
        PROVE  frames'[f] = frames[f]
    <3>1. frames[g].id # id
      BY <1>2, <2>6 DEF FrameDuplicate, FrameUnbinds, Reject, Settle
    <3>. QED
      BY <2>1, <2>6, <3>1 DEF FrameDuplicate, FrameUnbinds, TypeOK
  <2>7. ASSUME NEW t \in Tabs, CloseTab(t)
        PROVE  frames'[f].id = id /\ frames'[f].st \in {"opening", "open", "closing"}
    BY <2>1, <2>7 DEF CloseTab, TypeOK
  <2>8. ~WorkerStops
    BY DEF WorkerStops
  <2>. QED
    BY <2>1, <2>2, <2>3, <2>4, <2>5, <2>6, <2>7, <2>8, FramesStay
<1>. QED
  BY <1>2, <1>4, <1>5

\* Every step places only connection requests over a page.
LEMMA PlacedPreserved ==
  ASSUME TypeOK, PendingIsArmed, FreshIds, PlacedEnables, [Next]_vars
  PROVE  PlacedEnables'
<1>1. next' \in Nat /\ next \in Nat /\ next <= next'
  <2>1. next' = next \/ next' = next + 1
    BY QueueSteps DEF vars, queueVars, Settle, Enqueue, Edits, WorkerStops
  <2>. QED
    BY <2>1 DEF TypeOK
<1>2. ASSUME NEW id \in placing'
      PROVE  id < next' /\ req'[id].kind = "enable"
  <2>1. CASE id \in placing
    <3>1. id < next /\ id \in Ids /\ req[id].kind = "enable"
      BY <2>1 DEF PlacedEnables, TypeOK
    <3>2. id # next /\ id < next'
      BY <1>1, <3>1 DEF Ids
    <3>. QED
      BY <3>1, <3>2, RequestsStay
  <2>2. CASE id \notin placing
    <3>1. PICK o \in Origins, t \in Tabs, cs \in SUBSET Chains : EnableInPage(o, t, cs)
      BY <1>2, <2>2
      DEF Next, Ask, JoinEnable, EnableInPopup, AskInPopup, Answer, PageApproves,
          PageRejects, PasswordChecked, FrameAnswers, Expire, PlaceEnable, PageStep,
          PageOpens, PageLeaves, PageCloses, PageReturns, Reconnect, FrameStep,
          FrameOpens, FrameRefused, FrameBinds, FrameDuplicate, FrameGoes, FrameUnbinds,
          CloseTab, ClearOnLock, OpenFails, LatchClears, WorkerStops, vars
    <3>2. id = next /\ next' = next + 1
          /\ req' = [req EXCEPT ![next] = NewRequest("enable", o, t, cs, "none")]
      BY <1>2, <2>2, <3>1 DEF EnableInPage, Enqueue
    <3>3. next \in Ids
      BY <3>1 DEF EnableInPage, Enqueue
    <3>. QED
      BY <1>1, <3>2, <3>3 DEF TypeOK, NewRequest
  <2>. QED
    BY <2>1, <2>2
<1>3. ASSUME NEW id \in queue', req'[id].host = "overlay"
      PROVE  req'[id].kind = "enable"
  <2>1. id \in Ids
    BY TypePreserved DEF TypeOK
  <2>2. /\ id # next
        /\ (id \in queue /\ req[id].host = "overlay") \/ PlaceEnable(id, TRUE)
    BY <1>3, <2>1, OverlaySteps
  <2>3. req[id].kind = "enable"
    BY <2>2 DEF PlacedEnables, PlaceEnable
  <2>. QED
    BY <2>1, <2>2, <2>3, RequestsStay
<1>. QED
  BY <1>2, <1>3 DEF PlacedEnables

-----------------------------------------------------------------------------
(* The inductive invariant and what follows from it. *)

IInv ==
  /\ TypeOK
  /\ PendingIsArmed
  /\ QueueBounded
  /\ FreshIds
  /\ FrameOwnsItsPrompt
  /\ PlacedEnables
  /\ OverlayPromptAlive
  /\ NoGhostSurface

\* The worker starts in the invariant.
LEMMA InitIInv ==
  ASSUME Init
  PROVE  IInv
<1>1. Cardinality({}) = 0
  BY FS_EmptySet
<1>2. QueueBounded
  BY <1>1, BoundsAssumption DEF Init, QueueBounded
<1>3. TypeOK
  BY BoundsAssumption DEF Init, TypeOK, Ids, Absent
<1>4. FrameOwnsItsPrompt
  BY DEF Init, FrameOwnsItsPrompt, Absent
<1>. QED
  BY <1>2, <1>3, <1>4
  DEF Init, IInv, PendingIsArmed, FreshIds, PlacedEnables, OverlayPromptAlive,
      NoGhostSurface, Ids

\* Every step keeps the inductive invariant.
LEMMA StepIInv ==
  ASSUME IInv, [Next]_vars
  PROVE  IInv'
<1>1. TypeOK'
  BY TypePreserved DEF IInv
<1>2. PendingIsArmed' /\ QueueBounded'
  BY ArmedPreserved DEF IInv
<1>3. FreshIds'
  BY FreshPreserved DEF IInv
<1>4. FrameOwnsItsPrompt'
  BY FrameOwnerPreserved DEF IInv
<1>5. PlacedEnables'
  BY PlacedPreserved DEF IInv
<1>6. OverlayPromptAlive'
  BY OverlayPreserved DEF IInv
<1>7. NoGhostSurface'
  BY GhostPreserved DEF IInv
<1>. QED
  BY <1>1, <1>2, <1>3, <1>4, <1>5, <1>6, <1>7 DEF IInv

\* The inductive invariant holds in every reachable state.
THEOREM Inductive == Spec => []IInv
<1>1. Init => IInv
  BY InitIInv
<1>2. IInv /\ [Next]_vars => IInv'
  BY StepIInv
<1>. QED
  BY <1>1, <1>2, PTL DEF Spec

\* Types: the queue holds requests and ids in range, bindings name frames.
THEOREM TypeCorrect == Spec => []TypeOK
<1>1. IInv => TypeOK
  BY DEF IInv
<1>. QED
  BY <1>1, Inductive, PTL

\* The maps of lib/approvals.ts describe the same requests: settle() and
\* enqueueApprovalWithId() never leave a request without a resolver or a timer.
THEOREM QueueArmed == Spec => []PendingIsArmed
<1>1. IInv => PendingIsArmed
  BY DEF IInv
<1>. QED
  BY <1>1, Inductive, PTL

\* The rate limit of enqueueApprovalWithId() holds for every limit.
THEOREM QueueLimit == Spec => []QueueBounded
<1>1. IInv => QueueBounded
  BY DEF IInv
<1>. QED
  BY <1>1, Inductive, PTL

\* onPortConnect and frameOwnsApproval: a connect frame answers its own prompt
\* only, however many frames, tabs and requests there are.
THEOREM FrameOwnership == Spec => []FrameOwnsItsPrompt
<1>1. IInv => FrameOwnsItsPrompt
  BY DEF IInv
<1>. QED
  BY <1>1, Inductive, PTL

\* A request shown over a page always has the frame that shows it, or news of
\* the frame's end on its way (connect/main.tsx, the connect port).
THEOREM OverlayAlive == Spec => []OverlayPromptAlive
<1>1. IInv => OverlayPromptAlive
  BY DEF IInv
<1>. QED
  BY <1>1, Inductive, PTL

\* holdApprovalUiPort: no counted surface has left the screen.
THEOREM NoGhosts == Spec => []NoGhostSurface
<1>1. IInv => NoGhostSurface
  BY DEF IInv
<1>. QED
  BY <1>1, Inductive, PTL

-----------------------------------------------------------------------------
(* The approval queue implements Prompts. *)

\* The instance brings the library's Cardinality under a name of its own.
LEMMA SameCardinality ==
  ASSUME NEW S
  PROVE  Contract!Cardinality(S) = Cardinality(S)
  BY DEF Contract!Cardinality, Cardinality

\* Every step asks, answers, or changes nothing the contract tells apart.
LEMMA StepRefines ==
  ASSUME IInv, [Next]_vars
  PROVE  [Contract!Next]_promise
<1>. USE DEF IInv
<1>1. Contract!Waiting = queue /\ Contract!Ids = Ids
  BY DEF Contract!Waiting, Contract!Ids, Ids, PendingIsArmed
<1>2. CASE UNCHANGED queueVars \/ Edits
  BY <1>2 DEF queueVars, Edits
<1>3. ASSUME NEW S \in SUBSET Ids, Settle(S, "rejected")
      PROVE  \E T \in SUBSET Contract!Waiting : Contract!Answer(T, "rejected")
  <2>1. Contract!Answer(S \cap queue, "rejected")
    BY <1>1, <1>3 DEF Contract!Answer, Settle, PendingIsArmed
  <2>. QED
    BY <1>1, <2>1
<1>4. ASSUME NEW id \in Ids, Settle({id}, "approved")
      PROVE  \E T \in SUBSET Contract!Waiting : Contract!Answer(T, "approved")
  <2>1. /\ Cardinality({id}) = 1
        /\ Cardinality({}) = 0
    BY FS_Singleton, FS_EmptySet
  <2>2. {id} \cap queue = {id} \/ {id} \cap queue = {}
    OBVIOUS
  <2>3. Cardinality({id} \cap queue) <= 1
    BY <2>1, <2>2
  <2>4. promise' = [i \in Contract!Ids |-> IF i \in {id} \cap queue THEN "approved"
                                                                 ELSE promise[i]]
    BY <1>1, <1>4 DEF Settle, PendingIsArmed
  <2>5. Contract!Answer({id} \cap queue, "approved")
    BY <1>1, <2>3, <2>4, SameCardinality DEF Contract!Answer
  <2>. QED
    BY <1>1, <2>5
<1>5. ASSUME NEW request \in Requests, Enqueue(request)
      PROVE  next \in Ids /\ Contract!Ask(next)
  <2>1. /\ next \in Ids
        /\ Cardinality(queue) < MaxPending
        /\ promise' = [promise EXCEPT ![next] = "pending"]
    BY <1>5 DEF Enqueue
  <2>2. promise[next] = "none"
    BY <2>1 DEF FreshIds, Ids
  <2>3. \A earlier \in 1 .. next - 1 : promise[earlier] # "none"
    BY <2>1, BoundsAssumption DEF FreshIds, Ids
  <2>4. Cardinality(Contract!Waiting) < MaxPending
    BY <1>1, <2>1
  <2>. QED
    BY <2>1, <2>2, <2>3, <2>4, SameCardinality DEF Contract!Ask
<1>6. ASSUME WorkerStops
      PROVE  \E T \in SUBSET Contract!Waiting : Contract!Answer(T, "lost")
  <2>1. Contract!Answer(queue, "lost")
    BY <1>1, <1>6 DEF Contract!Answer, WorkerStops, PendingIsArmed
  <2>. QED
    BY <1>1, <2>1
<1>. QED
  BY <1>1, <1>2, <1>3, <1>4, <1>5, <1>6, AnswerSteps
  DEF Contract!Next, Contract!Outcomes, vars, queueVars

\* Refinement: under queue, timers, surfaces and frames, each request is asked
\* once, in a fresh slot and below the limit, and answered once, for good.
THEOREM Refinement == Spec => AsksAndAnswersOnce
<1>1. Init => Contract!Init
  BY DEF Init, Contract!Init, Ids, Contract!Ids
<1>2. IInv /\ [Next]_vars => [Contract!Next]_promise
  BY StepRefines
<1>. QED
  BY <1>1, <1>2, Inductive, PTL DEF Spec, AsksAndAnswersOnce, Contract!Spec
=============================================================================
