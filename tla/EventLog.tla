------------------------------ MODULE EventLog ------------------------------
(***************************************************************************)
(* Wallet events on Safari (lib/event-port.ts, entrypoints/content.ts): the *)
(* worker numbers each event and keeps the latest in storage.session; a     *)
(* page says the last number it saw on a port it opens, is sent what it     *)
(* missed, and then what happens.  The log is read and written by one task  *)
(* at a time.  The worker stops when the browser likes, which closes every  *)
(* port and forgets every task; a page opens a new port when it notices.    *)
(***************************************************************************)
EXTENDS Naturals, FiniteSets, Sequences

CONSTANTS Pages, Sites,
          SiteOf,      \* the site of each page
          MaxLogged,   \* events the log keeps
          MaxTime,     \* bound: milliseconds
          MaxNews,     \* bound: events
          MaxPorts     \* bound: ports a page opens

ASSUME PagesAssumption == SiteOf \in [Pages -> Sites]
ASSUME LogBoundsAssumption == {MaxLogged, MaxTime, MaxNews, MaxPorts} \subseteq Nat

VARIABLES
  time,     \* Date.now()
  log,      \* storage.session: the last number and the latest events
  cache,    \* the worker's copy, once it has read or written the log
  jobs,     \* the queue of tasks, the first one running
  ports,    \* ports that receive live events
  resumes,  \* requests to resume on their way to the worker
  news,     \* every event that was logged
  port,     \* each page: its open port, counted, or NoPort
  opened,   \* each page: ports it has opened
  last,     \* each page: the last number it has seen
  mail,     \* each page: batches on their way to it
  saw       \* each page: the numbers of the events it passed on

worker == <<cache, jobs, ports, resumes>>
pages == <<port, opened, last, mail, saw>>
feedVars == <<time, log, worker, news, pages>>

NoPort == 0
EmptyLog == [seq |-> 0, events |-> {}]
Unread == [seq |-> 0, events |-> {}, unread |-> TRUE]
\* A worker that starts takes the log for empty.
LoadedAnew == IF cache = Unread THEN EmptyLog ELSE cache

Loaded == IF cache = Unread THEN log ELSE cache
Larger(a, b) == IF a < b THEN b ELSE a

FeedInit ==
  /\ time = 1 /\ log = EmptyLog /\ cache = Unread /\ jobs = <<>>
  /\ ports = {} /\ resumes = {} /\ news = {}
  /\ port = [p \in Pages |-> NoPort] /\ opened = [p \in Pages |-> 0]
  /\ last = [p \in Pages |-> 0]
  /\ mail = [p \in Pages |-> {}] /\ saw = [p \in Pages |-> {}]

Newest(events) == {e \in events : Cardinality({f \in events : e.seq < f.seq}) < MaxLogged}
Missed(entries, site, from) == {e \in entries.events : e.site = site /\ from < e.seq}

\* The events of the sites, numbered from the clock, never below the last.
Numbered(sites, seq) ==
  LET first == Larger(time, seq + 1)
  IN {[seq |-> first + i - 1, site |-> sites[i]] : i \in DOMAIN sites}
Appended(entries, sites) ==
  [seq |-> Larger(time, entries.seq + 1) + Len(sites) - 1,
   events |-> Newest(entries.events \cup Numbered(sites, entries.seq))]

-----------------------------------------------------------------------------
(* The worker *)

\* A change of the wallet is an event for one site, or for every connected one.
Publishes ==
  /\ Cardinality(news) + Len(jobs) < MaxNews
  /\ \E sites \in {<<s>> : s \in Sites} \cup (Sites \X Sites) :
       /\ Len(sites) = 2 => sites[1] # sites[2]
       /\ jobs' = Append(jobs, [kind |-> "publish", stage |-> "waits", sites |-> sites,
                                added |-> {}])
  /\ UNCHANGED <<time, log, cache, ports, resumes, news, pages>>

Running(kind, stage) == jobs # <<>> /\ Head(jobs).kind = kind /\ Head(jobs).stage = stage
Reaches(stage, added) ==
  jobs' = <<[Head(jobs) EXCEPT !.stage = stage, !.added = added]>> \o Tail(jobs)

Appends ==
  /\ Running("publish", "waits")
  /\ cache' = Appended(Loaded, Head(jobs).sites)
  /\ Reaches("stores", Numbered(Head(jobs).sites, Loaded.seq))
  /\ UNCHANGED <<time, log, ports, resumes, news, pages>>

Stores ==
  /\ Running("publish", "stores")
  /\ log' = cache
  /\ news' = news \cup Head(jobs).added
  /\ Reaches("posts", Head(jobs).added)
  /\ UNCHANGED <<time, cache, ports, resumes, pages>>

Mine(p, added) == {e \in added : e.site = SiteOf[p]}
Posts ==
  /\ Running("publish", "posts")
  /\ mail' = [p \in Pages |->
                LET mine == Mine(p, Head(jobs).added)
                IN IF mine # {} /\ <<p, port[p]>> \in ports
                   THEN mail[p] \cup {[seq |-> cache.seq, events |-> mine]}
                   ELSE mail[p]]
  /\ jobs' = Tail(jobs)
  /\ UNCHANGED <<time, log, cache, ports, resumes, news, port, opened, last, saw>>

\* A port's request to resume is queued behind the tasks before it.
ResumeArrives ==
  \E r \in resumes :
    /\ resumes' = resumes \ {r}
    /\ jobs' = Append(jobs, [kind |-> "resume", stage |-> "waits", page |-> r.page,
                             port |-> r.port, from |-> r.from])
    /\ UNCHANGED <<time, log, cache, ports, news, pages>>

\* The port receives live events and is not sent what it missed.
ReplaysNothing ==
  /\ Running("resume", "waits")
  /\ LET job == Head(jobs)
     IN ports' = IF port[job.page] = job.port THEN ports \cup {<<job.page, job.port>>} ELSE ports
  /\ cache' = Loaded
  /\ jobs' = Tail(jobs)
  /\ UNCHANGED <<time, log, resumes, news, pages>>

\* The port is sent what it missed; only then does it receive live events.
Replays ==
  /\ Running("resume", "waits")
  /\ LET job == Head(jobs)
         open == port[job.page] = job.port
     IN /\ mail' = IF open
                   THEN [mail EXCEPT ![job.page] = @ \cup
                           {[seq |-> Loaded.seq,
                             events |-> Missed(Loaded, SiteOf[job.page], job.from)]}]
                   ELSE mail
        /\ ports' = IF open THEN ports \cup {<<job.page, job.port>>} ELSE ports
  /\ cache' = Loaded
  /\ jobs' = Tail(jobs)
  /\ UNCHANGED <<time, log, resumes, news, port, opened, last, saw>>

-----------------------------------------------------------------------------
(* Pages *)

OpensPort(p, from) ==
  /\ opened[p] < MaxPorts
  /\ opened' = [opened EXCEPT ![p] = @ + 1]
  /\ port' = [port EXCEPT ![p] = opened[p] + 1]
  /\ resumes' = resumes \cup {[page |-> p, port |-> opened[p] + 1, from |-> from]}

\* The first provider call of a page: events count from now.
FirstUse(p) ==
  /\ opened[p] = 0
  /\ last' = [last EXCEPT ![p] = time - 1]
  /\ OpensPort(p, time - 1)
  /\ UNCHANGED <<time, log, cache, jobs, ports, news, mail, saw>>

\* A tick of the page's timer, or the page coming back to the screen.
Reopens(p) ==
  /\ opened[p] > 0 /\ port[p] = NoPort
  /\ OpensPort(p, last[p])
  /\ UNCHANGED <<time, log, cache, jobs, ports, news, last, mail, saw>>

\* A port keeps the order of its messages.
Oldest(p, batch) == batch \in mail[p] /\ \A other \in mail[p] : batch.seq <= other.seq
Hears(p) ==
  \E batch \in mail[p] :
    /\ Oldest(p, batch)
    /\ mail' = [mail EXCEPT ![p] = @ \ {batch}]
    /\ saw' = [saw EXCEPT ![p] = @ \cup {e.seq : e \in {f \in batch.events : last[p] < f.seq}}]
    /\ last' = [last EXCEPT ![p] = Larger(@, batch.seq)]
    /\ UNCHANGED <<time, log, worker, news, port, opened>>

\* The page is put aside, or notices that the worker has stopped.
Disconnects(p) ==
  /\ port[p] # NoPort
  /\ port' = [port EXCEPT ![p] = NoPort]
  /\ mail' = [mail EXCEPT ![p] = {}]
  /\ ports' = ports \ {<<p, port[p]>>}
  /\ UNCHANGED <<time, log, cache, jobs, resumes, news, opened, last, saw>>

-----------------------------------------------------------------------------
(* The browser *)

FeedWorkerStops ==
  /\ cache' = Unread /\ jobs' = <<>> /\ ports' = {} /\ resumes' = {}
  /\ UNCHANGED <<time, log, news, pages>>

\* Clearing the session's storage takes longer than a burst runs ahead of the clock.
StorageCleared ==
  /\ cache = Unread /\ jobs = <<>> /\ log # EmptyLog /\ log.seq < time
  /\ log' = EmptyLog
  /\ UNCHANGED <<time, worker, news, pages>>

FeedTicks ==
  /\ time < MaxTime
  /\ time' = time + 1
  /\ UNCHANGED <<log, worker, news, pages>>

FeedNext ==
  \/ Publishes \/ Appends \/ Stores \/ Posts \/ ResumeArrives \/ Replays
  \/ \E p \in Pages : FirstUse(p) \/ Reopens(p) \/ Hears(p) \/ Disconnects(p)
  \/ FeedWorkerStops \/ StorageCleared \/ FeedTicks

FeedSpec == FeedInit /\ [][FeedNext]_feedVars

-----------------------------------------------------------------------------
(* Properties *)

Events == [seq : Nat, site : Sites]
Logs == [seq : Nat, events : SUBSET Events]
Jobs == [kind : {"publish"}, stage : {"waits", "stores", "posts"},
         sites : Seq(Sites), added : SUBSET Events]
        \cup [kind : {"resume"}, stage : {"waits"}, page : Pages, port : Nat, from : Nat]

FeedTypeOK ==
  /\ time \in Nat \ {0}
  /\ log \in Logs /\ cache \in Logs \cup {Unread}
  /\ jobs \in Seq(Jobs)
  /\ ports \subseteq Pages \X Nat
  /\ resumes \subseteq [page : Pages, port : Nat, from : Nat]
  /\ news \subseteq Events
  /\ port \in [Pages -> Nat] /\ opened \in [Pages -> Nat] /\ last \in [Pages -> Nat]
  /\ mail \in [Pages -> SUBSET Logs]
  /\ saw \in [Pages -> SUBSET Nat]

(* A port that receives live events misses none: but for an event that is   *)
(* being posted, all the log has of its site beyond what the page has seen  *)
(* is on its way to it (registerEventPort: replay first, then live).        *)
BeingPosted == IF Running("publish", "posts") THEN Head(jobs).added ELSE {}
LivePortMissesNothing ==
  \A p \in Pages : <<p, port[p]>> \in ports =>
    Missed(log, SiteOf[p], last[p]) \ BeingPosted \subseteq UNION {b.events : b \in mail[p]}

(* Each page hears the events of its own site at most once and in order, and *)
(* passes over none the log still has, whatever stops, closes or is cleared. *)
Feed == INSTANCE EventFeed WITH kept <- log.events, after <- last
EachHeardInOrder == Feed!Spec
=============================================================================
