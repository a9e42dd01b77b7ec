---------------------------- MODULE EventsProofs ----------------------------
(* Theorems about what brings events to the wallet and to the sites: the log   *)
(* and the ports to the pages, and the sockets to the chains, for every set of *)
(* pages and all bounds.                                                       *)
EXTENDS EventLog, ChainStream, FiniteSetTheorems, SequenceTheorems, TLAPS

-----------------------------------------------------------------------------
(* The events of the sites *)

\* The task that runs, and what it has yet to post.
Storing == Running("publish", "stores")
Posting == Running("publish", "posts")
Added == Head(jobs).added
Resuming(i) == jobs[i].kind = "resume"

\* Only the first task has begun.
OneRuns == \A i \in DOMAIN jobs : i > 1 => jobs[i].stage = "waits"

\* The worker's copy is the log, or is about to be.
CopyIsLog ==
  /\ cache = Unread \/ cache = log \/ Storing
  /\ Storing => /\ cache \in Logs /\ log.seq <= cache.seq
                /\ cache.events \subseteq log.events \cup Added
                /\ Added \subseteq Events /\ \A e \in Added : e.seq <= cache.seq
  /\ Posting => /\ cache \in Logs /\ cache = log
                /\ Added \subseteq news /\ \A e \in Added : e.seq <= log.seq

\* Numbers do not go back.
LogIsNumbered ==
  /\ log.events \subseteq news /\ \A e \in log.events : e.seq <= log.seq
  /\ \A e \in news : e.seq <= log.seq \/ e.seq < time
  /\ Storing => \A e \in news, f \in Added : e.seq < f.seq

\* A page's batches are of its own events, follow one another, and leave none out.
BatchesInOrder ==
  /\ \A p \in Pages : \A b \in mail[p] :
       /\ b.seq <= log.seq \/ b.seq < time
       /\ \A e \in b.events : e \in news /\ e.site = SiteOf[p] /\ e.seq <= b.seq
       /\ Storing \/ Posting => \A f \in Added : b.seq < f.seq
  /\ \A p \in Pages : \A b, c \in mail[p] :
       /\ b.seq < c.seq => \A e \in c.events : b.seq < e.seq
       /\ b.seq = c.seq => b = c
  /\ \A p \in Pages : \A b \in mail[p], e \in log.events :
       e.site = SiteOf[p] /\ last[p] < e.seq /\ e.seq <= b.seq => \E c \in mail[p] : e \in c.events

\* A port asks once, before it is sent anything.
AsksFor(r, p) == r.page = p /\ r.port = port[p]
PortsAreNew ==
  /\ \A p \in Pages : port[p] <= opened[p] /\ (port[p] = NoPort => mail[p] = {})
  /\ \A e \in ports : 1 <= e[2] /\ e[2] <= opened[e[1]]
  /\ \A r \in resumes : 1 <= r.port /\ r.port <= opened[r.page] /\ r.from <= last[r.page]
  /\ \A i \in DOMAIN jobs : Resuming(i) =>
       1 <= jobs[i].port /\ jobs[i].port <= opened[jobs[i].page] /\ jobs[i].from <= last[jobs[i].page]
AskedOnce ==
  /\ \A r, q \in resumes : r.page = q.page /\ r.port = q.port => r = q
  /\ \A i, j \in DOMAIN jobs : i # j /\ Resuming(i) /\ Resuming(j) =>
       ~(jobs[i].page = jobs[j].page /\ jobs[i].port = jobs[j].port)
  /\ \A i \in DOMAIN jobs, r \in resumes : Resuming(i) =>
       ~(jobs[i].page = r.page /\ jobs[i].port = r.port)
AskedFirst ==
  /\ \A p \in Pages, r \in resumes : AsksFor(r, p) => mail[p] = {} /\ <<p, port[p]>> \notin ports
  /\ \A p \in Pages : \A i \in DOMAIN jobs :
       Resuming(i) /\ AsksFor(jobs[i], p) => mail[p] = {} /\ <<p, port[p]>> \notin ports

\* What a page has seen is behind it.
SeenIsBehind ==
  \A p \in Pages : /\ \A n \in saw[p] : n <= last[p]
                   /\ opened[p] = 0 => saw[p] = {} /\ mail[p] = {} /\ port[p] = NoPort

FeedInv ==
  /\ FeedTypeOK /\ OneRuns /\ CopyIsLog /\ LogIsNumbered /\ BatchesInOrder
  /\ PortsAreNew /\ AskedOnce /\ AskedFirst /\ SeenIsBehind /\ LivePortMissesNothing

-----------------------------------------------------------------------------
(* The queue of tasks *)

Work == [kind : {"publish"}, stage : {"waits", "stores", "posts"}, sites : Seq(Sites), added : SUBSET Events]
AsksFirst == [kind : {"resume"}, stage : {"waits"}, page : Pages, port : Nat, from : Nat]

LEMMA QueueTypes ==
  ASSUME FeedTypeOK
  PROVE  /\ \A i \in DOMAIN jobs : jobs[i] \in Work \/ jobs[i] \in AsksFirst
         /\ \A i \in DOMAIN jobs : Resuming(i) => jobs[i] \in AsksFirst /\ jobs[i].page \in Pages
                                                  /\ jobs[i].port \in Nat /\ jobs[i].from \in Nat
         /\ jobs # <<>> => 1 \in DOMAIN jobs /\ Head(jobs) = jobs[1]
         /\ Storing \/ Posting => Head(jobs) \in Work /\ Added \subseteq Events
         /\ ~(Storing /\ Posting)
<1>1. jobs \in Seq(Jobs) /\ Jobs = Work \cup AsksFirst
  BY DEF FeedTypeOK, Jobs, Work, AsksFirst
<1>2. \A i \in DOMAIN jobs : jobs[i] \in Work \/ jobs[i] \in AsksFirst
  BY <1>1
<1>3. \A i \in DOMAIN jobs : Resuming(i) => jobs[i] \in AsksFirst /\ jobs[i].page \in Pages
                                            /\ jobs[i].port \in Nat /\ jobs[i].from \in Nat
  BY <1>2 DEF Resuming, Work, AsksFirst
<1>4. jobs # <<>> => 1 \in DOMAIN jobs /\ Head(jobs) = jobs[1]
  BY <1>1
<1>5. Storing \/ Posting => Head(jobs) \in Work /\ Added \subseteq Events
  BY <1>2, <1>4 DEF Storing, Posting, Running, Added, Work, AsksFirst
<1> QED
  BY <1>2, <1>3, <1>4, <1>5 DEF Storing, Posting, Running

LEMMA QueueGrows ==
  ASSUME FeedTypeOK, OneRuns, NEW job \in Jobs, job.stage = "waits", jobs' = Append(jobs, job)
  PROVE  /\ jobs' \in Seq(Jobs) /\ OneRuns'
         /\ (Storing' <=> Storing) /\ (Posting' <=> Posting)
         /\ Storing \/ Posting => Added' = Added
         /\ \A i \in DOMAIN jobs' : \/ i \in DOMAIN jobs /\ jobs'[i] = jobs[i]
                                    \/ i = Len(jobs) + 1 /\ jobs'[i] = job
         /\ \A i \in DOMAIN jobs : i # Len(jobs) + 1
<1>1. jobs \in Seq(Jobs)
  BY DEF FeedTypeOK
<1>2. /\ jobs' \in Seq(Jobs) /\ Len(jobs') = Len(jobs) + 1
      /\ \A i \in 1 .. Len(jobs) : jobs'[i] = jobs[i]
      /\ jobs'[Len(jobs) + 1] = job
  BY <1>1
<1>3. DOMAIN jobs = 1 .. Len(jobs) /\ DOMAIN jobs' = 1 .. Len(jobs) + 1 /\ Len(jobs) \in Nat
  BY <1>1, <1>2
<1>4. \A i \in DOMAIN jobs' : \/ i \in DOMAIN jobs /\ jobs'[i] = jobs[i]
                              \/ i = Len(jobs) + 1 /\ jobs'[i] = job
  BY <1>2, <1>3
<1>5. OneRuns'
  BY <1>4 DEF OneRuns
<1>6. \/ Head(jobs') = Head(jobs) /\ jobs # <<>>
      \/ jobs = <<>> /\ Head(jobs').stage = "waits"
  BY <1>1, <1>2, <1>3
<1>7. jobs' # <<>>
  BY <1>1
<1> QED
  BY <1>2, <1>3, <1>4, <1>5, <1>6, <1>7 DEF Storing, Posting, Running, Added

LEMMA QueueMoves ==
  ASSUME FeedTypeOK, OneRuns, jobs # <<>>, jobs' = Tail(jobs)
  PROVE  /\ jobs' \in Seq(Jobs) /\ OneRuns' /\ ~Storing' /\ ~Posting'
         /\ \A i \in DOMAIN jobs' : /\ i + 1 \in DOMAIN jobs /\ jobs'[i] = jobs[i + 1] /\ i + 1 # 1
                                    /\ \A j \in DOMAIN jobs' : i # j => i + 1 # j + 1
<1>1. jobs \in Seq(Jobs)
  BY DEF FeedTypeOK
<1>2. /\ jobs' \in Seq(Jobs) /\ Len(jobs') = Len(jobs) - 1 /\ Len(jobs) \in Nat \ {0}
      /\ \A i \in 1 .. Len(jobs) - 1 : jobs'[i] = jobs[i + 1]
  BY <1>1
<1>3. DOMAIN jobs = 1 .. Len(jobs) /\ DOMAIN jobs' = 1 .. Len(jobs) - 1
  BY <1>1, <1>2
<1>4. \A i \in DOMAIN jobs' : /\ i + 1 \in DOMAIN jobs /\ jobs'[i] = jobs[i + 1] /\ i + 1 # 1
                              /\ \A j \in DOMAIN jobs' : i # j => i + 1 # j + 1
  BY <1>2, <1>3
<1>5. \A i \in DOMAIN jobs' : jobs'[i].stage = "waits"
  BY <1>2, <1>3, <1>4 DEF OneRuns
<1>6. jobs' # <<>> => Head(jobs').stage = "waits"
  BY <1>2, <1>3, <1>5
<1> QED
  BY <1>2, <1>4, <1>5, <1>6 DEF OneRuns, Storing, Posting, Running

LEMMA QueueReaches ==
  ASSUME FeedTypeOK, OneRuns, jobs # <<>>, Head(jobs).kind = "publish",
         NEW stage \in {"stores", "posts"}, NEW added \in SUBSET Events, Reaches(stage, added)
  PROVE  /\ jobs' \in Seq(Jobs) /\ OneRuns'
         /\ (Storing' <=> stage = "stores") /\ (Posting' <=> stage = "posts") /\ Added' = added
         /\ DOMAIN jobs' = DOMAIN jobs
         /\ \A i \in DOMAIN jobs : Resuming(i)' => jobs'[i] = jobs[i]
<1>1. jobs \in Seq(Jobs) /\ Head(jobs) \in Work /\ Head(jobs) = jobs[1]
  <2>1. jobs \in Seq(Jobs)
    BY DEF FeedTypeOK
  <2>2. 1 \in DOMAIN jobs /\ Head(jobs) = jobs[1]
    BY QueueTypes
  <2> QED
    BY <2>1, <2>2, QueueTypes DEF AsksFirst
<1> DEFINE h == [Head(jobs) EXCEPT !.stage = stage, !.added = added]
<1>2. h \in Work /\ h.kind = "publish" /\ h.stage = stage /\ h.added = added
  BY <1>1 DEF Work
<1>3. jobs' = <<h>> \o Tail(jobs)
  BY DEF Reaches
<1> HIDE DEF h
<1>4. h \in Jobs
  BY <1>2 DEF Jobs, Work
<1>5. /\ Len(jobs) \in Nat \ {0} /\ Tail(jobs) \in Seq(Jobs) /\ Len(Tail(jobs)) = Len(jobs) - 1
      /\ DOMAIN jobs = 1 .. Len(jobs)
      /\ \A i \in 1 .. Len(jobs) - 1 : Tail(jobs)[i] = jobs[i + 1]
  BY <1>1
<1>6. /\ jobs' \in Seq(Jobs) /\ Len(jobs') = Len(jobs)
      /\ \A i \in 1 .. Len(jobs) : jobs'[i] = IF i = 1 THEN h ELSE Tail(jobs)[i - 1]
  BY <1>3, <1>4, <1>5
<1>7. DOMAIN jobs' = 1 .. Len(jobs) /\ jobs'[1] = h /\ jobs' # <<>> /\ Head(jobs') = h
  BY <1>5, <1>6
<1>8. \A i \in 1 .. Len(jobs) : i # 1 => jobs'[i] = jobs[i]
  BY <1>5, <1>6
<1>9. OneRuns'
  BY <1>5, <1>7, <1>8 DEF OneRuns
<1>10. \A i \in DOMAIN jobs : Resuming(i)' => jobs'[i] = jobs[i]
  BY <1>2, <1>5, <1>7, <1>8 DEF Resuming
<1> QED
  BY <1>2, <1>5, <1>6, <1>7, <1>9, <1>10 DEF Storing, Posting, Running, Added

-----------------------------------------------------------------------------
(* The steps *)

LEMMA FeedStart == FeedInit => FeedInv
<1> SUFFICES ASSUME FeedInit PROVE FeedInv
  OBVIOUS
<1>1. jobs = <<>> /\ DOMAIN jobs = {} /\ cache = Unread /\ log = EmptyLog /\ resumes = {} /\ ports = {}
      /\ news = {} /\ time = 1 /\ ~Storing /\ ~Posting
  BY DEF FeedInit, Storing, Posting, Running
<1>2. \A p \in Pages : /\ port[p] = NoPort /\ opened[p] = 0 /\ last[p] = 0 /\ mail[p] = {} /\ saw[p] = {}
  BY DEF FeedInit
<1>3. FeedTypeOK
  <2>1. log \in Logs /\ cache \in Logs \cup {Unread} /\ jobs \in Seq(Jobs) /\ time \in Nat \ {0}
    BY <1>1 DEF Logs, EmptyLog
  <2>2. /\ port \in [Pages -> Nat] /\ opened \in [Pages -> Nat] /\ last \in [Pages -> Nat]
        /\ mail \in [Pages -> SUBSET Logs] /\ saw \in [Pages -> SUBSET Nat]
    BY DEF FeedInit, NoPort
  <2> QED
    BY <1>1, <2>1, <2>2 DEF FeedTypeOK
<1>4. OneRuns /\ CopyIsLog /\ LogIsNumbered
  BY <1>1 DEF OneRuns, CopyIsLog, LogIsNumbered, EmptyLog
<1>5. BatchesInOrder /\ PortsAreNew /\ AskedOnce /\ AskedFirst /\ SeenIsBehind
  BY <1>1, <1>2 DEF BatchesInOrder, PortsAreNew, AskedOnce, AskedFirst, SeenIsBehind, EmptyLog, NoPort
<1>6. LivePortMissesNothing
  BY <1>1 DEF LivePortMissesNothing
<1> QED
  BY <1>3, <1>4, <1>5, <1>6 DEF FeedInv

LEMMA Posted ==
  /\ BeingPosted = (IF Posting THEN Added ELSE {})
  /\ BeingPosted' = (IF Posting' THEN Added' ELSE {})
BY DEF BeingPosted, Posting, Added

\* What is on its way to a page, one event at a time.
LEMMA LiveMail ==
  /\ LivePortMissesNothing <=>
       \A p \in Pages : <<p, port[p]>> \in ports =>
         \A e \in Missed(log, SiteOf[p], last[p]) : e \notin BeingPosted => \E c \in mail[p] : e \in c.events
  /\ LivePortMissesNothing' <=>
       \A p \in Pages : <<p, port'[p]>> \in ports' =>
         \A e \in Missed(log', SiteOf[p], last'[p]) : e \notin BeingPosted' => \E c \in mail'[p] : e \in c.events
BY DEF LivePortMissesNothing, Missed

\* A task joins the queue: new, or the one a request to resume becomes.
LEMMA QueuedStep ==
  ASSUME FeedInv, NEW job \in Jobs, job.stage = "waits", jobs' = Append(jobs, job),
         UNCHANGED <<time, log, cache, ports, news, port, opened, last, mail, saw>>,
         resumes' \subseteq resumes,
         \/ job.kind = "publish"
         \/ \E r \in resumes : r \notin resumes' /\ job.page = r.page /\ job.port = r.port /\ job.from = r.from
  PROVE  FeedInv'
<1>1. FeedTypeOK /\ OneRuns
  BY DEF FeedInv
<1>2. FeedTypeOK'
  BY <1>1, QueueGrows DEF FeedTypeOK
<1>3. OneRuns' /\ (Storing' <=> Storing) /\ (Posting' <=> Posting) /\ (Storing \/ Posting => Added' = Added)
  BY <1>1, QueueGrows
<1>4. CopyIsLog' /\ LogIsNumbered'
  BY <1>3 DEF FeedInv, CopyIsLog, LogIsNumbered
<1>5. BatchesInOrder' /\ SeenIsBehind'
  BY <1>3 DEF FeedInv, BatchesInOrder, SeenIsBehind
<1>6. \A i \in DOMAIN jobs' : \/ i \in DOMAIN jobs /\ jobs'[i] = jobs[i] /\ (Resuming(i)' <=> Resuming(i))
                              \/ i = Len(jobs) + 1 /\ i \notin DOMAIN jobs /\ jobs'[i] = job
                                 /\ (Resuming(i)' <=> job.kind = "resume")
  BY <1>1, QueueGrows DEF Resuming
<1>7. PortsAreNew'
  <2>1. \A i \in DOMAIN jobs' : Resuming(i)' =>
          1 <= jobs'[i].port /\ jobs'[i].port <= opened[jobs'[i].page] /\ jobs'[i].from <= last[jobs'[i].page]
    BY <1>6 DEF FeedInv, PortsAreNew
  <2> QED
    BY <2>1 DEF FeedInv, PortsAreNew
<1>8. AskedOnce'
  <2>1. \A i, j \in DOMAIN jobs' : i # j /\ Resuming(i)' /\ Resuming(j)' =>
          ~(jobs'[i].page = jobs'[j].page /\ jobs'[i].port = jobs'[j].port)
    BY <1>6 DEF FeedInv, AskedOnce
  <2>2. \A i \in DOMAIN jobs', r \in resumes' : Resuming(i)' =>
          ~(jobs'[i].page = r.page /\ jobs'[i].port = r.port)
    BY <1>6 DEF FeedInv, AskedOnce
  <2>3. \A r, q \in resumes' : r.page = q.page /\ r.port = q.port => r = q
    BY DEF FeedInv, AskedOnce
  <2> QED
    BY <2>1, <2>2, <2>3 DEF AskedOnce
<1>9. AskedFirst'
  <2>1. \A p \in Pages : \A i \in DOMAIN jobs' :
          Resuming(i)' /\ jobs'[i].page = p /\ jobs'[i].port = port[p] =>
            mail[p] = {} /\ <<p, port[p]>> \notin ports
    BY <1>6 DEF FeedInv, AskedFirst, AsksFor
  <2> QED
    BY <2>1 DEF FeedInv, AskedFirst, AsksFor
<1>10. LivePortMissesNothing'
  <2>1. BeingPosted' = BeingPosted
    BY <1>3, Posted
  <2> QED
    BY <2>1 DEF FeedInv, LivePortMissesNothing, Missed
<1> QED
  BY <1>2, <1>3, <1>4, <1>5, <1>7, <1>8, <1>9, <1>10 DEF FeedInv

LEMMA PublishesStep ==
  ASSUME FeedInv, Publishes
  PROVE  FeedInv'
<1>1. PICK sites \in {<<s>> : s \in Sites} \cup (Sites \X Sites) :
        jobs' = Append(jobs, [kind |-> "publish", stage |-> "waits", sites |-> sites, added |-> {}])
  BY DEF Publishes
<1>2. sites \in Seq(Sites)
  <2>1. CASE sites \in {<<s>> : s \in Sites}
    <3>1. PICK s \in Sites : sites = <<s>>
      BY <2>1
    <3> QED
      BY <3>1
  <2>2. CASE sites \in Sites \X Sites
    <3>1. PICK s \in Sites, t \in Sites : sites = <<s, t>>
      BY <2>2
    <3> QED
      BY <3>1
  <2> QED
    BY <2>1, <2>2
<1> DEFINE job == [kind |-> "publish", stage |-> "waits", sites |-> sites, added |-> {}]
<1>3. job \in Jobs /\ job.stage = "waits" /\ job.kind = "publish"
  BY <1>2 DEF Jobs
<1>4. jobs' = Append(jobs, job)
  BY <1>1
<1> HIDE DEF job
<1> QED
  BY <1>3, <1>4, QueuedStep DEF Publishes, pages

LEMMA ResumeArrivesStep ==
  ASSUME FeedInv, ResumeArrives
  PROVE  FeedInv'
<1>1. PICK r \in resumes :
        /\ resumes' = resumes \ {r}
        /\ jobs' = Append(jobs, [kind |-> "resume", stage |-> "waits", page |-> r.page,
                                 port |-> r.port, from |-> r.from])
        /\ UNCHANGED <<time, log, cache, ports, news, pages>>
  BY DEF ResumeArrives
<1> DEFINE job == [kind |-> "resume", stage |-> "waits", page |-> r.page, port |-> r.port, from |-> r.from]
<1>2. /\ job \in Jobs /\ job.stage = "waits" /\ job.page = r.page /\ job.port = r.port
      /\ job.from = r.from
  BY DEF FeedInv, FeedTypeOK, Jobs
<1>3. jobs' = Append(jobs, job)
  BY <1>1
<1> HIDE DEF job
<1> QED
  BY <1>1, <1>2, <1>3, QueuedStep DEF pages

\* What an append gives new events.
LEMMA AppendedNumbers ==
  ASSUME FeedTypeOK, NEW entries \in Logs, NEW sites \in Seq(Sites)
  PROVE  /\ Appended(entries, sites) \in Logs
         /\ Appended(entries, sites).events \subseteq entries.events \cup Numbered(sites, entries.seq)
         /\ entries.seq <= Appended(entries, sites).seq
         /\ Numbered(sites, entries.seq) \subseteq Events
         /\ \A e \in Numbered(sites, entries.seq) :
              e.seq \in Nat /\ time <= e.seq /\ entries.seq < e.seq /\ e.seq <= Appended(entries, sites).seq
<1> DEFINE first == Larger(time, entries.seq + 1)
<1>1. time \in Nat /\ entries.seq \in Nat /\ entries.events \subseteq Events
      /\ Len(sites) \in Nat /\ DOMAIN sites = 1 .. Len(sites)
  BY DEF FeedTypeOK, Logs
<1>2. first \in Nat \ {0} /\ time <= first /\ entries.seq < first
  BY <1>1 DEF Larger
<1>3. Numbered(sites, entries.seq) = {[seq |-> first + i - 1, site |-> sites[i]] : i \in DOMAIN sites}
  BY DEF Numbered
<1>4. /\ Appended(entries, sites).seq = first + Len(sites) - 1
      /\ Appended(entries, sites).events = Newest(entries.events \cup Numbered(sites, entries.seq))
      /\ Appended(entries, sites) = [seq |-> first + Len(sites) - 1,
                                     events |-> Newest(entries.events \cup Numbered(sites, entries.seq))]
  BY DEF Appended
<1> HIDE DEF first
<1>5. \A e \in Numbered(sites, entries.seq) :
        /\ e \in Events /\ e.seq \in Nat /\ time <= e.seq /\ entries.seq < e.seq
        /\ e.seq <= first + Len(sites) - 1
  <2> SUFFICES ASSUME NEW e \in Numbered(sites, entries.seq)
               PROVE  /\ e \in Events /\ e.seq \in Nat /\ time <= e.seq /\ entries.seq < e.seq
                      /\ e.seq <= first + Len(sites) - 1
    OBVIOUS
  <2>1. PICK i \in DOMAIN sites : e = [seq |-> first + i - 1, site |-> sites[i]]
    BY <1>3
  <2>2. i \in Nat /\ 1 <= i /\ i <= Len(sites) /\ sites[i] \in Sites
    BY <1>1
  <2>3. e.seq = first + i - 1 /\ e.site = sites[i]
    BY <2>1
  <2>4. first + i - 1 \in Nat
    BY <1>2, <2>2
  <2>5. e \in Events
    BY <2>1, <2>2, <2>4 DEF Events
  <2> QED
    BY <1>1, <1>2, <2>2, <2>3, <2>4, <2>5
<1>6. Appended(entries, sites).events \subseteq entries.events \cup Numbered(sites, entries.seq)
  BY <1>4 DEF Newest
<1>7. first + Len(sites) - 1 \in Nat /\ entries.seq <= first + Len(sites) - 1
  BY <1>1, <1>2
<1>8. Appended(entries, sites) \in Logs
  <2>1. Newest(entries.events \cup Numbered(sites, entries.seq)) \subseteq Events
    BY <1>1, <1>5 DEF Newest
  <2> QED
    BY <1>4, <1>7, <2>1 DEF Logs
<1> QED
  BY <1>4, <1>5, <1>6, <1>7, <1>8

LEMMA LoadedIsLog ==
  ASSUME FeedInv, ~Storing
  PROVE  Loaded = log /\ log \in Logs
BY DEF FeedInv, FeedTypeOK, CopyIsLog, Loaded

\* What the tasks do to the requests to resume when none of them is such a task.
LEMMA AsksStay ==
  ASSUME FeedInv, DOMAIN jobs' = DOMAIN jobs, \A i \in DOMAIN jobs : Resuming(i)' => jobs'[i] = jobs[i],
         UNCHANGED <<ports, resumes, port, opened, last, mail>>
  PROVE  PortsAreNew' /\ AskedOnce' /\ AskedFirst'
<1>1. \A i \in DOMAIN jobs' : Resuming(i)' => i \in DOMAIN jobs /\ Resuming(i) /\ jobs'[i] = jobs[i]
  BY DEF Resuming
<1>2. PortsAreNew'
  <2>1. \A i \in DOMAIN jobs' : Resuming(i)' =>
          1 <= jobs'[i].port /\ jobs'[i].port <= opened[jobs'[i].page] /\ jobs'[i].from <= last[jobs'[i].page]
    BY <1>1 DEF FeedInv, PortsAreNew
  <2> QED
    BY <2>1 DEF FeedInv, PortsAreNew
<1>3. AskedOnce'
  <2>1. \A i, j \in DOMAIN jobs' : i # j /\ Resuming(i)' /\ Resuming(j)' =>
          ~(jobs'[i].page = jobs'[j].page /\ jobs'[i].port = jobs'[j].port)
    BY <1>1 DEF FeedInv, AskedOnce
  <2>2. \A i \in DOMAIN jobs', r \in resumes' : Resuming(i)' =>
          ~(jobs'[i].page = r.page /\ jobs'[i].port = r.port)
    BY <1>1 DEF FeedInv, AskedOnce
  <2>3. \A r, q \in resumes' : r.page = q.page /\ r.port = q.port => r = q
    BY DEF FeedInv, AskedOnce
  <2> QED
    BY <2>1, <2>2, <2>3 DEF AskedOnce
<1>4. AskedFirst'
  <2>1. \A p \in Pages : \A i \in DOMAIN jobs' :
          Resuming(i)' /\ jobs'[i].page = p /\ jobs'[i].port = port[p] =>
            mail[p] = {} /\ <<p, port[p]>> \notin ports
    BY <1>1 DEF FeedInv, AskedFirst, AsksFor
  <2> QED
    BY <2>1 DEF FeedInv, AskedFirst, AsksFor
<1> QED
  BY <1>2, <1>3, <1>4

LEMMA AppendsStep ==
  ASSUME FeedInv, Appends
  PROVE  FeedInv'
<1>1. /\ FeedTypeOK /\ OneRuns /\ jobs # <<>> /\ Head(jobs).kind = "publish" /\ ~Storing /\ ~Posting
      /\ Head(jobs) \in Work
  <2>1. FeedTypeOK /\ OneRuns /\ jobs # <<>> /\ Head(jobs).kind = "publish" /\ ~Storing /\ ~Posting
    BY DEF FeedInv, Appends, Running, Storing, Posting
  <2>2. Head(jobs) \in Work
    <3>1. 1 \in DOMAIN jobs /\ Head(jobs) = jobs[1] /\ (jobs[1] \in Work \/ jobs[1] \in AsksFirst)
      BY <2>1, QueueTypes
    <3> QED
      BY <2>1, <3>1 DEF AsksFirst
  <2> QED
    BY <2>1, <2>2
<1>2. Loaded = log /\ log \in Logs /\ Head(jobs).sites \in Seq(Sites)
  BY <1>1, LoadedIsLog DEF Work
<1> DEFINE added == Numbered(Head(jobs).sites, log.seq)
           copy == Appended(log, Head(jobs).sites)
<1>3. /\ cache' = copy /\ Reaches("stores", added)
      /\ UNCHANGED <<time, log, ports, resumes, news, port, opened, last, mail, saw>>
  BY <1>2 DEF Appends, pages
<1>4. /\ copy \in Logs /\ copy.events \subseteq log.events \cup added /\ log.seq <= copy.seq
      /\ added \in SUBSET Events
      /\ \A e \in added : e.seq \in Nat /\ time <= e.seq /\ log.seq < e.seq /\ e.seq <= copy.seq
  BY <1>1, <1>2, AppendedNumbers
<1> HIDE DEF added, copy
<1>5. /\ jobs' \in Seq(Jobs) /\ OneRuns' /\ Storing' /\ ~Posting' /\ Added' = added
      /\ DOMAIN jobs' = DOMAIN jobs
      /\ \A i \in DOMAIN jobs : Resuming(i)' => jobs'[i] = jobs[i]
  BY <1>1, <1>3, <1>4, QueueReaches
<1>6. FeedTypeOK'
  BY <1>1, <1>3, <1>4, <1>5 DEF FeedTypeOK
<1>7. CopyIsLog'
  BY <1>3, <1>4, <1>5 DEF CopyIsLog
<1>8. time \in Nat /\ log.seq \in Nat
  BY <1>1, <1>2 DEF FeedTypeOK, Logs
<1>9. LogIsNumbered'
  <2>1. \A e \in news : e.seq \in Nat /\ (e.seq <= log.seq \/ e.seq < time)
    BY <1>1 DEF FeedInv, FeedTypeOK, LogIsNumbered, Events
  <2>2. \A e \in news, f \in added : e.seq < f.seq
    BY <1>4, <1>8, <2>1
  <2> QED
    BY <1>3, <1>5, <2>2 DEF FeedInv, LogIsNumbered
<1>10. BatchesInOrder'
  <2>1. \A p \in Pages : \A b \in mail[p] : b.seq \in Nat /\ (b.seq <= log.seq \/ b.seq < time)
    BY <1>1 DEF FeedInv, FeedTypeOK, BatchesInOrder, Logs
  <2>2. \A p \in Pages : \A b \in mail[p], f \in added : b.seq < f.seq
    BY <1>4, <1>8, <2>1
  <2> QED
    BY <1>3, <1>5, <2>2 DEF FeedInv, BatchesInOrder
<1>11. PortsAreNew' /\ AskedOnce' /\ AskedFirst'
  BY <1>3, <1>5, AsksStay
<1>12. LivePortMissesNothing'
  <2>1. BeingPosted = {} /\ BeingPosted' = {}
    BY <1>1, <1>5, Posted
  <2> QED
    BY <1>3, <2>1 DEF FeedInv, LivePortMissesNothing, Missed
<1>13. SeenIsBehind'
  BY <1>3 DEF FeedInv, SeenIsBehind
<1> QED
  BY <1>5, <1>6, <1>7, <1>9, <1>10, <1>11, <1>12, <1>13 DEF FeedInv

LEMMA StoresStep ==
  ASSUME FeedInv, Stores
  PROVE  /\ FeedInv'
         /\ news \subseteq news' /\ (\A e \in news, f \in news' \ news : e.seq < f.seq)
         /\ log'.events \subseteq log.events \cup (news' \ news)
<1>1. FeedTypeOK /\ OneRuns /\ jobs # <<>> /\ Head(jobs).kind = "publish" /\ Storing /\ ~Posting
  BY DEF FeedInv, Stores, Running, Storing, Posting
<1>2. /\ log' = cache /\ news' = news \cup Added /\ Reaches("posts", Added)
      /\ UNCHANGED <<time, cache, ports, resumes, port, opened, last, mail, saw>>
  BY DEF Stores, pages, Added
<1>3. /\ Added \subseteq Events /\ cache \in Logs /\ log.seq <= cache.seq
      /\ cache.events \subseteq log.events \cup Added
      /\ \A e \in Added : e.seq <= cache.seq
  BY <1>1 DEF FeedInv, CopyIsLog
<1>4. /\ jobs' \in Seq(Jobs) /\ OneRuns' /\ ~Storing' /\ Posting' /\ Added' = Added
      /\ DOMAIN jobs' = DOMAIN jobs
      /\ \A i \in DOMAIN jobs : Resuming(i)' => jobs'[i] = jobs[i]
  <2>1. Added \in SUBSET Events
    BY <1>3
  <2> QED
    BY <1>1, <1>2, <2>1, QueueReaches
<1>5. FeedTypeOK'
  BY <1>1, <1>2, <1>3, <1>4 DEF FeedTypeOK
<1>6. /\ log \in Logs /\ log.seq \in Nat /\ cache.seq \in Nat /\ time \in Nat /\ news \subseteq Events
      /\ \A e \in log.events : e \in news /\ e.seq \in Nat /\ e.seq <= log.seq
  BY <1>1, <1>3 DEF FeedInv, FeedTypeOK, LogIsNumbered, Logs, Events
<1>7. CopyIsLog'
  BY <1>2, <1>3, <1>4 DEF CopyIsLog
<1>8. LogIsNumbered'
  <2>1. log'.events \subseteq news'
    BY <1>2, <1>3, <1>6
  <2>2. \A e \in log'.events : e.seq <= log'.seq
    BY <1>2, <1>3, <1>6
  <2>3. \A e \in news' : e.seq <= log'.seq \/ e.seq < time'
    <3>1. \A e \in news : e.seq \in Nat /\ (e.seq <= log.seq \/ e.seq < time)
      BY <1>6 DEF FeedInv, LogIsNumbered, Events
    <3> QED
      BY <1>2, <1>3, <1>6, <3>1
  <2> QED
    BY <1>4, <2>1, <2>2, <2>3 DEF LogIsNumbered
<1>9. BatchesInOrder'
  <2>1. \A p \in Pages : \A b \in mail[p] :
          /\ b.seq \in Nat /\ (b.seq <= log.seq \/ b.seq < time) /\ (\A f \in Added : b.seq < f.seq)
          /\ \A e \in b.events : e \in news /\ e.site = SiteOf[p] /\ e.seq <= b.seq
    BY <1>1 DEF FeedInv, FeedTypeOK, BatchesInOrder, Logs
  <2>2. \A p \in Pages : \A b \in mail[p] :
          /\ b.seq <= log'.seq \/ b.seq < time
          /\ \A e \in b.events : e \in news' /\ e.site = SiteOf[p] /\ e.seq <= b.seq
    BY <1>2, <1>3, <1>6, <2>1
  <2>3. \A p \in Pages : \A b \in mail[p], e \in log'.events :
          e.site = SiteOf[p] /\ last[p] < e.seq /\ e.seq <= b.seq => \E c \in mail[p] : e \in c.events
    <3> SUFFICES ASSUME NEW p \in Pages, NEW b \in mail[p], NEW e \in log'.events,
                        e.site = SiteOf[p], last[p] < e.seq, e.seq <= b.seq
                 PROVE  \E c \in mail[p] : e \in c.events
      OBVIOUS
    <3>1. e \notin Added
      <4>1. \A f \in Added : f.seq \in Nat /\ ~(f.seq <= b.seq)
        BY <1>3, <2>1 DEF Events
      <4> QED
        BY <4>1
    <3>2. e \in log.events
      BY <1>2, <1>3, <3>1
    <3> QED
      BY <3>2 DEF FeedInv, BatchesInOrder
  <2>4. \A p \in Pages : \A b, c \in mail[p] :
          /\ b.seq < c.seq => \A e \in c.events : b.seq < e.seq
          /\ b.seq = c.seq => b = c
    BY DEF FeedInv, BatchesInOrder
  <2> QED
    BY <1>2, <1>4, <2>1, <2>2, <2>3, <2>4 DEF BatchesInOrder
<1>10. PortsAreNew' /\ AskedOnce' /\ AskedFirst'
  BY <1>2, <1>4, AsksStay
<1>11. LivePortMissesNothing'
  <2>1. BeingPosted = {} /\ BeingPosted' = Added
    BY <1>1, <1>4, Posted
  <2>2. \A p \in Pages : Missed(log', SiteOf[p], last[p]) \ Added \subseteq Missed(log, SiteOf[p], last[p])
    BY <1>2, <1>3 DEF Missed
  <2> QED
    BY <1>2, <2>1, <2>2 DEF FeedInv, LivePortMissesNothing
<1>12. SeenIsBehind'
  BY <1>2 DEF FeedInv, SeenIsBehind
<1>13. FeedInv'
  BY <1>4, <1>5, <1>7, <1>8, <1>9, <1>10, <1>11, <1>12 DEF FeedInv
<1>14. \A e \in news, f \in news' \ news : e.seq < f.seq
  BY <1>1, <1>2 DEF FeedInv, LogIsNumbered
<1>15. log'.events \subseteq log.events \cup (news' \ news)
  <2>1. \A f \in Added : f \notin news
    <3>1. \A f \in Added : f.seq \in Nat /\ ~(f.seq < f.seq)
      BY <1>3 DEF Events
    <3> QED
      BY <1>1, <3>1 DEF FeedInv, LogIsNumbered
  <2> QED
    BY <1>2, <1>3, <2>1
<1> QED
  BY <1>2, <1>13, <1>14, <1>15

\* The first task is done.
LEMMA TaskEnds ==
  ASSUME FeedInv, jobs # <<>>, jobs' = Tail(jobs)
  PROVE  /\ jobs' \in Seq(Jobs) /\ OneRuns' /\ ~Storing' /\ ~Posting' /\ BeingPosted' = {}
         /\ \A i \in DOMAIN jobs' : Resuming(i)' =>
              /\ i + 1 \in DOMAIN jobs /\ Resuming(i + 1) /\ jobs'[i] = jobs[i + 1] /\ i + 1 # 1
              /\ \A j \in DOMAIN jobs' : i # j => i + 1 # j + 1
BY QueueMoves, Posted DEF FeedInv, Resuming

LEMMA AsksMove ==
  ASSUME FeedInv, jobs # <<>>, jobs' = Tail(jobs), UNCHANGED <<resumes, port, opened, last>>
  PROVE  /\ \A i \in DOMAIN jobs' : Resuming(i)' =>
              1 <= jobs'[i].port /\ jobs'[i].port <= opened[jobs'[i].page] /\ jobs'[i].from <= last[jobs'[i].page]
         /\ AskedOnce'
<1>1. \A i \in DOMAIN jobs' : Resuming(i)' =>
        /\ i + 1 \in DOMAIN jobs /\ Resuming(i + 1) /\ jobs'[i] = jobs[i + 1]
        /\ \A j \in DOMAIN jobs' : i # j => i + 1 # j + 1
  BY TaskEnds
<1>2. \A i \in DOMAIN jobs' : Resuming(i)' =>
        1 <= jobs'[i].port /\ jobs'[i].port <= opened[jobs'[i].page] /\ jobs'[i].from <= last[jobs'[i].page]
  BY <1>1 DEF FeedInv, PortsAreNew
<1>3. \A i, j \in DOMAIN jobs' : i # j /\ Resuming(i)' /\ Resuming(j)' =>
        ~(jobs'[i].page = jobs'[j].page /\ jobs'[i].port = jobs'[j].port)
  BY <1>1 DEF FeedInv, AskedOnce
<1>4. \A i \in DOMAIN jobs', r \in resumes' : Resuming(i)' =>
        ~(jobs'[i].page = r.page /\ jobs'[i].port = r.port)
  BY <1>1 DEF FeedInv, AskedOnce
<1>5. \A r, q \in resumes' : r.page = q.page /\ r.port = q.port => r = q
  BY DEF FeedInv, AskedOnce
<1> QED
  BY <1>2, <1>3, <1>4, <1>5 DEF AskedOnce

LEMMA PostsStep ==
  ASSUME FeedInv, Posts
  PROVE  FeedInv'
<1>1. FeedTypeOK /\ jobs # <<>> /\ Posting /\ ~Storing /\ BeingPosted = Added
  BY Posted DEF FeedInv, Posts, Running, Storing, Posting
<1>2. /\ cache \in Logs /\ cache = log /\ Added \subseteq news /\ Added \subseteq Events
      /\ log.seq \in Nat /\ time \in Nat
  BY <1>1, QueueTypes DEF FeedInv, FeedTypeOK, CopyIsLog, Logs
<1>3. /\ jobs' = Tail(jobs)
      /\ UNCHANGED <<time, log, cache, ports, resumes, news, port, opened, last, saw>>
  BY DEF Posts
<1>4. \A f \in Added : f.seq \in Nat /\ f.seq <= log.seq
  BY <1>1, <1>2 DEF FeedInv, CopyIsLog, Events
<1> DEFINE Batch(p) == [seq |-> log.seq, events |-> Mine(p, Added)]
           Live(p) == Mine(p, Added) # {} /\ <<p, port[p]>> \in ports
<1>5. \A p \in Pages : /\ Batch(p) \in Logs /\ Batch(p).seq = log.seq /\ Batch(p).events = Mine(p, Added)
                       /\ \A e \in Mine(p, Added) : e \in news /\ e.site = SiteOf[p] /\ e.seq <= log.seq
  BY <1>2, <1>4 DEF Mine, Logs
<1>6. mail' = [p \in Pages |-> IF Live(p) THEN mail[p] \cup {Batch(p)} ELSE mail[p]]
  BY <1>2 DEF Posts, Added
<1> HIDE DEF Batch
<1>7. \A p \in Pages : mail'[p] = IF Live(p) THEN mail[p] \cup {Batch(p)} ELSE mail[p]
  BY <1>6
<1>8. /\ jobs' \in Seq(Jobs) /\ OneRuns' /\ ~Storing' /\ ~Posting' /\ BeingPosted' = {}
  BY <1>1, <1>3, TaskEnds
<1>9. FeedTypeOK'
  <2>1. mail' \in [Pages -> SUBSET Logs]
    <3>1. \A p \in Pages : mail[p] \subseteq Logs
      BY <1>1 DEF FeedTypeOK
    <3>2. \A p \in Pages : (IF Live(p) THEN mail[p] \cup {Batch(p)} ELSE mail[p]) \in SUBSET Logs
      BY <1>5, <3>1
    <3> QED
      BY <1>6, <3>2
  <2> QED
    BY <1>1, <1>3, <1>8, <2>1 DEF FeedTypeOK
<1>10. CopyIsLog' /\ LogIsNumbered' /\ SeenIsBehind'
  <2>1. CopyIsLog' /\ LogIsNumbered'
    BY <1>2, <1>3, <1>8 DEF FeedInv, CopyIsLog, LogIsNumbered
  <2>2. \A p \in Pages : Live(p) => opened[p] # 0
    BY <1>1 DEF FeedInv, PortsAreNew, FeedTypeOK
  <2>3. SeenIsBehind'
    BY <1>3, <1>7, <2>2 DEF FeedInv, SeenIsBehind
  <2> QED
    BY <2>1, <2>3
<1>11. BatchesInOrder'
  <2>1. \A p \in Pages : \A b \in mail[p] :
          /\ b.seq \in Nat /\ (b.seq <= log.seq \/ b.seq < time) /\ (\A f \in Added : b.seq < f.seq)
          /\ \A e \in b.events : e \in news /\ e.seq \in Nat /\ e.site = SiteOf[p] /\ e.seq <= b.seq
    BY <1>1 DEF FeedInv, FeedTypeOK, BatchesInOrder, Logs, Events
  <2>2. \A p \in Pages : \A b \in mail'[p] :
          /\ b.seq <= log.seq \/ b.seq < time
          /\ \A e \in b.events : e \in news /\ e.site = SiteOf[p] /\ e.seq <= b.seq
    <3> SUFFICES ASSUME NEW p \in Pages, NEW b \in mail'[p]
                 PROVE  /\ b.seq <= log.seq \/ b.seq < time
                        /\ \A e \in b.events : e \in news /\ e.site = SiteOf[p] /\ e.seq <= b.seq
      OBVIOUS
    <3>1. CASE b \in mail[p]
      BY <2>1, <3>1
    <3>2. CASE b = Batch(p)
      BY <1>2, <1>5, <3>2
    <3> QED
      BY <1>7, <3>1, <3>2
  <2>3. \A p \in Pages : Live(p) => \A b \in mail[p] : b.seq < log.seq
    <3> SUFFICES ASSUME NEW p \in Pages, Live(p), NEW b \in mail[p] PROVE b.seq < log.seq
      OBVIOUS
    <3>1. PICK f \in Added : TRUE
      BY DEF Mine
    <3> QED
      BY <1>2, <1>4, <2>1, <3>1
  <2>4. \A p \in Pages : \A b, c \in mail'[p] :
          /\ b.seq < c.seq => \A e \in c.events : b.seq < e.seq
          /\ b.seq = c.seq => b = c
    <3> SUFFICES ASSUME NEW p \in Pages, NEW b \in mail'[p], NEW c \in mail'[p]
                 PROVE  /\ b.seq < c.seq => \A e \in c.events : b.seq < e.seq
                        /\ b.seq = c.seq => b = c
      OBVIOUS
    <3>1. CASE b \in mail[p] /\ c \in mail[p]
      BY <3>1 DEF FeedInv, BatchesInOrder
    <3>2. CASE b \in mail[p] /\ c = Batch(p) /\ Live(p)
      <4>1. c.seq = log.seq /\ c.events \subseteq Added /\ b.seq < log.seq /\ b.seq \in Nat
        BY <1>5, <2>1, <2>3, <3>2 DEF Mine
      <4> QED
        BY <1>2, <2>1, <3>2, <4>1
    <3>3. CASE b = Batch(p) /\ c \in mail[p] /\ Live(p)
      <4>1. b.seq = log.seq /\ c.seq < log.seq /\ c.seq \in Nat
        BY <1>5, <2>1, <2>3, <3>3
      <4> QED
        BY <1>2, <4>1
    <3>4. CASE b = Batch(p) /\ c = Batch(p)
      BY <1>2, <1>5, <3>4
    <3> QED
      BY <1>7, <3>1, <3>2, <3>3, <3>4
  <2>5. \A p \in Pages : \A b \in mail'[p], e \in log.events :
          e.site = SiteOf[p] /\ last[p] < e.seq /\ e.seq <= b.seq => \E c \in mail'[p] : e \in c.events
    <3> SUFFICES ASSUME NEW p \in Pages, NEW b \in mail'[p], NEW e \in log.events,
                        e.site = SiteOf[p], last[p] < e.seq, e.seq <= b.seq
                 PROVE  \E c \in mail'[p] : e \in c.events
      OBVIOUS
    <3>1. CASE b \in mail[p]
      BY <1>7, <3>1 DEF FeedInv, BatchesInOrder
    <3>2. CASE b = Batch(p) /\ Live(p)
      <4>1. CASE e \in Added
        <5>1. e \in Batch(p).events /\ Batch(p) \in mail'[p]
          BY <1>5, <1>7, <3>2, <4>1 DEF Mine
        <5> QED
          BY <5>1
      <4>2. CASE e \notin Added
        <5>1. e \in Missed(log, SiteOf[p], last[p])
          BY DEF Missed
        <5>2. \E c \in mail[p] : e \in c.events
          BY <1>1, <3>2, <4>2, <5>1, LiveMail DEF FeedInv
        <5> QED
          BY <1>7, <5>2
      <4> QED
        BY <4>1, <4>2
    <3> QED
      BY <1>7, <3>1, <3>2
  <2> QED
    BY <1>3, <1>8, <2>2, <2>4, <2>5 DEF BatchesInOrder
<1>12. PortsAreNew' /\ AskedOnce' /\ AskedFirst'
  <2>1. \A p \in Pages : <<p, port[p]>> \in ports => port[p] # NoPort
    BY <1>1 DEF FeedInv, PortsAreNew, FeedTypeOK, NoPort
  <2>2. PortsAreNew'
    BY <1>1, <1>3, <1>7, <2>1, AsksMove DEF FeedInv, PortsAreNew
  <2>3. AskedFirst'
    <3>1. \A p \in Pages, r \in resumes : r.page = p /\ r.port = port[p] =>
            mail'[p] = {} /\ <<p, port[p]>> \notin ports
      BY <1>7 DEF FeedInv, AskedFirst, AsksFor
    <3>2. \A p \in Pages : \A i \in DOMAIN jobs' : Resuming(i)' /\ jobs'[i].page = p /\ jobs'[i].port = port[p] =>
            mail'[p] = {} /\ <<p, port[p]>> \notin ports
      <4> SUFFICES ASSUME NEW p \in Pages, NEW i \in DOMAIN jobs', Resuming(i)',
                          jobs'[i].page = p, jobs'[i].port = port[p]
                   PROVE  mail'[p] = {} /\ <<p, port[p]>> \notin ports
        OBVIOUS
      <4>1. i + 1 \in DOMAIN jobs /\ Resuming(i + 1) /\ jobs'[i] = jobs[i + 1]
        BY <1>1, <1>3, TaskEnds
      <4>2. mail[p] = {} /\ <<p, port[p]>> \notin ports
        BY <4>1 DEF FeedInv, AskedFirst, AsksFor
      <4> QED
        BY <1>7, <4>2
    <3> QED
      BY <1>3, <3>1, <3>2 DEF AskedFirst, AsksFor
  <2> QED
    BY <1>1, <1>3, <2>2, <2>3, AsksMove
<1>13. LivePortMissesNothing'
  <2> SUFFICES ASSUME NEW p \in Pages, <<p, port[p]>> \in ports, NEW e \in Missed(log, SiteOf[p], last[p])
               PROVE  \E c \in mail'[p] : e \in c.events
    BY <1>3, <1>8, LiveMail
  <2>1. CASE e \in Added
    <3>1. e \in Mine(p, Added)
      BY <2>1 DEF Mine, Missed
    <3> QED
      BY <1>5, <1>7, <3>1
  <2>2. CASE e \notin Added
    <3>1. \E c \in mail[p] : e \in c.events
      BY <1>1, <2>2, LiveMail DEF FeedInv
    <3> QED
      BY <1>7, <3>1
  <2> QED
    BY <2>1, <2>2
<1> QED
  BY <1>8, <1>9, <1>10, <1>11, <1>12, <1>13 DEF FeedInv

LEMMA ReplaysStep ==
  ASSUME FeedInv, Replays
  PROVE  FeedInv'
<1> DEFINE job == Head(jobs)
           open == port[job.page] = job.port
           batch == [seq |-> log.seq, events |-> Missed(log, SiteOf[job.page], job.from)]
<1>1. /\ FeedTypeOK /\ jobs # <<>> /\ ~Posting /\ ~Storing /\ BeingPosted = {}
      /\ job.kind = "resume"
  BY Posted DEF FeedInv, Replays, Running, Storing, Posting
<1>2. /\ 1 \in DOMAIN jobs /\ job = jobs[1] /\ Resuming(1)
      /\ job.page \in Pages /\ job.port \in Nat /\ job.from \in Nat
  BY <1>1, QueueTypes DEF Resuming
<1>3. Loaded = log /\ log \in Logs /\ log.seq \in Nat /\ log.events \subseteq Events /\ time \in Nat
  BY <1>1, LoadedIsLog DEF Logs, FeedTypeOK
<1>4. /\ 1 <= job.port /\ job.port <= opened[job.page] /\ job.from <= last[job.page]
      /\ open => mail[job.page] = {} /\ <<job.page, job.port>> \notin ports
  BY <1>2 DEF FeedInv, PortsAreNew, AskedFirst, AsksFor
<1>5. /\ jobs' = Tail(jobs) /\ cache' = log
      /\ UNCHANGED <<time, log, resumes, news, port, opened, last, saw>>
      /\ mail' = IF open THEN [mail EXCEPT ![job.page] = @ \cup {batch}] ELSE mail
      /\ ports' = IF open THEN ports \cup {<<job.page, job.port>>} ELSE ports
  BY <1>3 DEF Replays
<1>6. /\ batch \in Logs /\ batch.seq = log.seq
      /\ \A e \in batch.events : e \in log.events /\ e \in news /\ e.site = SiteOf[job.page] /\ e.seq <= log.seq
      /\ \A e \in log.events : e.site = SiteOf[job.page] /\ last[job.page] < e.seq => e \in batch.events
  <2>1. last[job.page] \in Nat /\ \A e \in log.events : e.seq \in Nat
    BY <1>1, <1>2, <1>3 DEF FeedTypeOK, Events
  <2>2. \A e \in log.events : e.site = SiteOf[job.page] /\ last[job.page] < e.seq => e \in batch.events
    BY <1>2, <1>4, <2>1 DEF Missed
  <2> QED
    BY <1>3, <2>2 DEF FeedInv, LogIsNumbered, Missed, Logs
<1> HIDE DEF batch
<1>7. \A p \in Pages : mail'[p] = IF open /\ p = job.page THEN {batch} ELSE mail[p]
  BY <1>1, <1>2, <1>4, <1>5 DEF FeedTypeOK
<1>8. /\ jobs' \in Seq(Jobs) /\ OneRuns' /\ ~Storing' /\ ~Posting' /\ BeingPosted' = {}
  BY <1>1, <1>5, TaskEnds
<1>9. FeedTypeOK'
  <2>1. mail' \in [Pages -> SUBSET Logs]
    BY <1>1, <1>5, <1>6 DEF FeedTypeOK
  <2>2. ports' \subseteq Pages \X Nat /\ cache' \in Logs
    BY <1>1, <1>2, <1>3, <1>5 DEF FeedTypeOK
  <2> QED
    BY <1>1, <1>5, <1>8, <2>1, <2>2 DEF FeedTypeOK
<1>10. CopyIsLog' /\ LogIsNumbered'
  BY <1>1, <1>5, <1>8 DEF FeedInv, CopyIsLog, LogIsNumbered
<1>11. SeenIsBehind'
  <2>1. opened[job.page] # 0
    BY <1>1, <1>2, <1>4 DEF FeedTypeOK
  <2> QED
    BY <1>5, <1>7, <2>1 DEF FeedInv, SeenIsBehind
<1>12. BatchesInOrder'
  <2>1. \A p \in Pages : \A b \in mail'[p] :
          /\ b.seq <= log.seq \/ b.seq < time
          /\ \A e \in b.events : e \in news /\ e.site = SiteOf[p] /\ e.seq <= b.seq
    BY <1>3, <1>6, <1>7 DEF FeedInv, BatchesInOrder
  <2>2. \A p \in Pages : \A b, c \in mail'[p] :
          /\ b.seq < c.seq => \A e \in c.events : b.seq < e.seq
          /\ b.seq = c.seq => b = c
    BY <1>3, <1>6, <1>7 DEF FeedInv, BatchesInOrder
  <2>3. \A p \in Pages : \A b \in mail'[p], e \in log.events :
          e.site = SiteOf[p] /\ last[p] < e.seq /\ e.seq <= b.seq => \E c \in mail'[p] : e \in c.events
    BY <1>6, <1>7 DEF FeedInv, BatchesInOrder
  <2> QED
    BY <1>5, <1>8, <2>1, <2>2, <2>3 DEF BatchesInOrder
<1>13. PortsAreNew'
  <2>1. \A p \in Pages : port[p] <= opened[p] /\ (port[p] = NoPort => mail'[p] = {})
    <3>1. open => port[job.page] # NoPort
      BY <1>2, <1>4 DEF NoPort
    <3> QED
      BY <1>7, <3>1 DEF FeedInv, PortsAreNew
  <2>2. \A e \in ports' : 1 <= e[2] /\ e[2] <= opened[e[1]]
    BY <1>4, <1>5 DEF FeedInv, PortsAreNew
  <2> QED
    BY <1>1, <1>5, <2>1, <2>2, AsksMove DEF FeedInv, PortsAreNew
<1>14. AskedOnce'
  BY <1>1, <1>5, AsksMove
<1>15. AskedFirst'
  <2>1. \A p \in Pages : open /\ p = job.page =>
          /\ \A r \in resumes : ~(r.page = p /\ r.port = port[p])
          /\ \A i \in DOMAIN jobs : i # 1 /\ Resuming(i) => ~(jobs[i].page = p /\ jobs[i].port = port[p])
    BY <1>2 DEF FeedInv, AskedOnce
  <2>2. \A p \in Pages : ~(open /\ p = job.page) =>
          mail'[p] = mail[p] /\ (<<p, port[p]>> \in ports' => <<p, port[p]>> \in ports)
    BY <1>5, <1>7
  <2>3. \A p \in Pages, r \in resumes : r.page = p /\ r.port = port[p] =>
          mail'[p] = {} /\ <<p, port[p]>> \notin ports'
    BY <2>1, <2>2 DEF FeedInv, AskedFirst, AsksFor
  <2>4. \A p \in Pages : \A i \in DOMAIN jobs' : Resuming(i)' /\ jobs'[i].page = p /\ jobs'[i].port = port[p] =>
          mail'[p] = {} /\ <<p, port[p]>> \notin ports'
    <3> SUFFICES ASSUME NEW p \in Pages, NEW i \in DOMAIN jobs', Resuming(i)',
                        jobs'[i].page = p, jobs'[i].port = port[p]
                 PROVE  mail'[p] = {} /\ <<p, port[p]>> \notin ports'
      OBVIOUS
    <3>1. i + 1 \in DOMAIN jobs /\ Resuming(i + 1) /\ jobs'[i] = jobs[i + 1] /\ i + 1 # 1
      BY <1>1, <1>5, TaskEnds
    <3>2. ~(open /\ p = job.page)
      BY <2>1, <3>1
    <3>3. mail[p] = {} /\ <<p, port[p]>> \notin ports
      BY <3>1 DEF FeedInv, AskedFirst, AsksFor
    <3> QED
      BY <2>2, <3>2, <3>3
  <2> QED
    BY <1>5, <2>3, <2>4 DEF AskedFirst, AsksFor
<1>16. LivePortMissesNothing'
  <2> SUFFICES ASSUME NEW p \in Pages, <<p, port[p]>> \in ports', NEW e \in Missed(log, SiteOf[p], last[p])
               PROVE  \E c \in mail'[p] : e \in c.events
    BY <1>5, <1>8, LiveMail
  <2>1. CASE open /\ p = job.page
    BY <1>6, <1>7, <2>1 DEF Missed
  <2>2. CASE ~(open /\ p = job.page)
    <3>1. <<p, port[p]>> \in ports
      BY <1>5, <2>2
    <3>2. \E c \in mail[p] : e \in c.events
      BY <1>1, <3>1, LiveMail DEF FeedInv
    <3> QED
      BY <1>7, <2>2, <3>2
  <2> QED
    BY <2>1, <2>2
<1> QED
  BY <1>8, <1>9, <1>10, <1>11, <1>12, <1>13, <1>14, <1>15, <1>16 DEF FeedInv

\* A page opens a port that no page had before.
LEMMA OpensStep ==
  ASSUME FeedInv, NEW p \in Pages, NEW from \in Nat, port[p] = NoPort, OpensPort(p, from),
         UNCHANGED <<time, log, cache, jobs, ports, news, mail, saw>>,
         \/ last' = last
         \/ opened[p] = 0 /\ last' = [last EXCEPT ![p] = from],
         from <= last'[p]
  PROVE  FeedInv'
<1>1. FeedTypeOK /\ mail[p] = {} /\ opened[p] \in Nat
  BY DEF FeedInv, FeedTypeOK, PortsAreNew
<1> DEFINE ask == [page |-> p, port |-> opened[p] + 1, from |-> from]
<1>2. /\ opened' = [opened EXCEPT ![p] = opened[p] + 1] /\ port' = [port EXCEPT ![p] = opened[p] + 1]
      /\ resumes' = resumes \cup {ask}
  BY <1>1 DEF OpensPort, FeedTypeOK
<1>3. ask \in [page : Pages, port : Nat, from : Nat] /\ ask.page = p /\ ask.port = opened[p] + 1 /\ ask.from = from
  BY <1>1
<1> HIDE DEF ask
<1>4. /\ \A q \in Pages : q # p => opened'[q] = opened[q] /\ port'[q] = port[q] /\ last'[q] = last[q]
      /\ opened'[p] = opened[p] + 1 /\ port'[p] = opened[p] + 1
  BY <1>1, <1>2 DEF FeedTypeOK
<1>5. FeedTypeOK'
  BY <1>1, <1>2, <1>3 DEF FeedTypeOK
<1>6. (Storing' <=> Storing) /\ (Posting' <=> Posting) /\ Added' = Added /\ BeingPosted' = BeingPosted
      /\ (\A i \in DOMAIN jobs : Resuming(i)' <=> Resuming(i))
  BY Posted DEF Storing, Posting, Running, Added, Resuming
<1>7. OneRuns' /\ CopyIsLog' /\ LogIsNumbered'
  BY <1>6 DEF FeedInv, OneRuns, CopyIsLog, LogIsNumbered
<1>8. \A q \in Pages : mail[q] # {} => q # p /\ last'[q] = last[q]
  BY <1>1, <1>4
<1>9. BatchesInOrder'
  BY <1>6, <1>8 DEF FeedInv, BatchesInOrder
<1>10. \A i \in DOMAIN jobs : Resuming(i) => jobs[i].page \in Pages /\ jobs[i].port \in Nat /\ jobs[i].from \in Nat
  BY <1>1, QueueTypes
<1>11. \A q \in Pages, n \in Nat : n <= opened[q] => n <= opened'[q] /\ ~(q = p /\ n = opened[p] + 1)
  <2>1. \A q \in Pages : opened[q] \in Nat
    BY <1>1 DEF FeedTypeOK
  <2> QED
    BY <1>4, <2>1
<1>12. \A q \in Pages, n \in Nat :
         /\ (\E i \in DOMAIN jobs : Resuming(i) /\ jobs[i].page = q /\ jobs[i].port = n) => n <= opened[q]
         /\ (\E r \in resumes : r.page = q /\ r.port = n) => n <= opened[q]
         /\ <<q, n>> \in ports => n <= opened[q]
  BY DEF FeedInv, PortsAreNew
<1>13. \A q \in Pages : opened[q] # 0 \/ q # p => last'[q] = last[q]
  BY <1>4
<1>14. PortsAreNew'
  <2>1. \A q \in Pages : port'[q] <= opened'[q] /\ (port'[q] = NoPort => mail[q] = {})
    BY <1>1, <1>4 DEF FeedInv, PortsAreNew, NoPort
  <2>2. \A e \in ports : 1 <= e[2] /\ e[2] <= opened'[e[1]]
    <3> SUFFICES ASSUME NEW e \in ports PROVE 1 <= e[2] /\ e[2] <= opened'[e[1]]
      OBVIOUS
    <3>1. e[1] \in Pages /\ e[2] \in Nat /\ 1 <= e[2] /\ e[2] <= opened[e[1]]
      BY <1>1 DEF FeedInv, FeedTypeOK, PortsAreNew
    <3> QED
      BY <1>11, <3>1
  <2>3. \A r \in resumes' : 1 <= r.port /\ r.port <= opened'[r.page] /\ r.from <= last'[r.page]
    <3> SUFFICES ASSUME NEW r \in resumes'
                 PROVE  1 <= r.port /\ r.port <= opened'[r.page] /\ r.from <= last'[r.page]
      OBVIOUS
    <3>1. CASE r = ask
      BY <1>1, <1>3, <1>4, <3>1
    <3>2. CASE r \in resumes
      <4>1. /\ r.page \in Pages /\ r.port \in Nat /\ 1 <= r.port /\ r.port <= opened[r.page]
            /\ r.from <= last[r.page]
        BY <1>1, <3>2 DEF FeedInv, FeedTypeOK, PortsAreNew
      <4>2. opened[r.page] # 0
        BY <1>1, <4>1 DEF FeedTypeOK
      <4> QED
        BY <1>11, <1>13, <4>1, <4>2
    <3> QED
      BY <1>2, <3>1, <3>2
  <2>4. \A i \in DOMAIN jobs : Resuming(i) =>
          1 <= jobs[i].port /\ jobs[i].port <= opened'[jobs[i].page] /\ jobs[i].from <= last'[jobs[i].page]
    <3> SUFFICES ASSUME NEW i \in DOMAIN jobs, Resuming(i)
                 PROVE  1 <= jobs[i].port /\ jobs[i].port <= opened'[jobs[i].page]
                        /\ jobs[i].from <= last'[jobs[i].page]
      OBVIOUS
    <3>1. /\ jobs[i].page \in Pages /\ jobs[i].port \in Nat /\ 1 <= jobs[i].port
          /\ jobs[i].port <= opened[jobs[i].page] /\ jobs[i].from <= last[jobs[i].page]
      BY <1>10 DEF FeedInv, PortsAreNew
    <3>2. opened[jobs[i].page] # 0
      BY <1>1, <3>1 DEF FeedTypeOK
    <3> QED
      BY <1>11, <1>13, <3>1, <3>2
  <2> QED
    BY <1>6, <2>1, <2>2, <2>3, <2>4 DEF PortsAreNew
<1>15. AskedOnce'
  <2> DEFINE n == opened[p] + 1
  <2>0. n \in Nat /\ ~(n <= opened[p])
    BY <1>1
  <2> HIDE DEF n
  <2>1. \A r \in resumes : ~(r.page = p /\ r.port = n)
    BY <1>12, <2>0
  <2>2. \A i \in DOMAIN jobs : Resuming(i) => ~(jobs[i].page = p /\ jobs[i].port = n)
    BY <1>12, <2>0
  <2>3. \A r, q \in resumes' : r.page = q.page /\ r.port = q.port => r = q
    BY <1>2, <1>3, <2>1 DEF FeedInv, AskedOnce, n
  <2>4. \A i \in DOMAIN jobs, r \in resumes' : Resuming(i) => ~(jobs[i].page = r.page /\ jobs[i].port = r.port)
    BY <1>2, <1>3, <2>2 DEF FeedInv, AskedOnce, n
  <2>5. \A i, j \in DOMAIN jobs : i # j /\ Resuming(i) /\ Resuming(j) =>
          ~(jobs[i].page = jobs[j].page /\ jobs[i].port = jobs[j].port)
    BY DEF FeedInv, AskedOnce
  <2> QED
    BY <1>6, <2>3, <2>4, <2>5 DEF AskedOnce
<1>16. AskedFirst'
  <2>1. <<p, port'[p]>> \notin ports
    BY <1>1, <1>4, <1>11, <1>12
  <2>2. \A q \in Pages, r \in resumes' : r.page = q /\ r.port = port'[q] =>
          mail[q] = {} /\ <<q, port'[q]>> \notin ports
    <3> SUFFICES ASSUME NEW q \in Pages, NEW r \in resumes', r.page = q, r.port = port'[q], q # p
                 PROVE  mail[q] = {} /\ <<q, port'[q]>> \notin ports
      BY <1>1, <2>1
    <3>1. r \in resumes /\ port'[q] = port[q]
      BY <1>2, <1>3, <1>4
    <3> QED
      BY <3>1 DEF FeedInv, AskedFirst, AsksFor
  <2>3. \A q \in Pages : \A i \in DOMAIN jobs : Resuming(i) /\ jobs[i].page = q /\ jobs[i].port = port'[q] =>
          mail[q] = {} /\ <<q, port'[q]>> \notin ports
    <3> SUFFICES ASSUME NEW q \in Pages, NEW i \in DOMAIN jobs, Resuming(i),
                        jobs[i].page = q, jobs[i].port = port'[q], q # p
                 PROVE  mail[q] = {} /\ <<q, port'[q]>> \notin ports
      BY <1>1, <2>1
    <3> QED
      BY <1>4 DEF FeedInv, AskedFirst, AsksFor
  <2> QED
    BY <1>6, <2>2, <2>3 DEF AskedFirst, AsksFor
<1>17. SeenIsBehind'
  BY <1>1, <1>4, <1>13 DEF FeedInv, SeenIsBehind
<1>18. LivePortMissesNothing'
  <2> SUFFICES ASSUME NEW q \in Pages, <<q, port'[q]>> \in ports,
                      NEW e \in Missed(log, SiteOf[q], last'[q]), e \notin BeingPosted
               PROVE  \E c \in mail[q] : e \in c.events
    BY <1>6, LiveMail
  <2>1. q # p
    BY <1>1, <1>4, <1>11, <1>12
  <2> QED
    BY <1>4, <2>1, LiveMail DEF FeedInv
<1> QED
  BY <1>5, <1>7, <1>9, <1>14, <1>15, <1>16, <1>17, <1>18 DEF FeedInv

LEMMA FirstUseStep ==
  ASSUME FeedInv, NEW p \in Pages, FirstUse(p)
  PROVE  FeedInv' /\ saw[p] = {} /\ last' = [last EXCEPT ![p] = last'[p]]
<1>1. opened[p] = 0 /\ port[p] = NoPort /\ saw[p] = {}
  BY DEF FeedInv, FirstUse, SeenIsBehind
<1> DEFINE from == time - 1
<1>2. from \in Nat /\ last' = [last EXCEPT ![p] = from] /\ last'[p] = from /\ OpensPort(p, from)
  BY DEF FeedInv, FeedTypeOK, FirstUse
<1> HIDE DEF from
<1>3. from <= last'[p]
  BY <1>2
<1>4. FeedInv'
  BY <1>1, <1>2, <1>3, OpensStep DEF FirstUse
<1> QED
  BY <1>1, <1>2, <1>4

LEMMA ReopensStep ==
  ASSUME FeedInv, NEW p \in Pages, Reopens(p)
  PROVE  FeedInv'
<1>1. last[p] \in Nat /\ last' = last /\ last[p] <= last'[p]
  BY DEF FeedInv, FeedTypeOK, Reopens
<1> QED
  BY <1>1, OpensStep DEF Reopens

\* The queue and what the log says do not change.
LEMMA WorkerStays ==
  ASSUME UNCHANGED jobs
  PROVE  /\ (Storing' <=> Storing) /\ (Posting' <=> Posting) /\ Added' = Added /\ BeingPosted' = BeingPosted
         /\ \A i \in DOMAIN jobs : Resuming(i)' <=> Resuming(i)
BY Posted DEF Storing, Posting, Running, Added, Resuming

\* A page hears the oldest of its batches: of the log's events up to its number,
\* exactly those that are in it.
LEMMA HearsStep ==
  ASSUME FeedInv, NEW p \in Pages, Hears(p)
  PROVE  FeedInv' /\ Feed!Hear(p)
<1>1. PICK batch \in mail[p] :
        /\ Oldest(p, batch)
        /\ mail' = [mail EXCEPT ![p] = @ \ {batch}]
        /\ saw' = [saw EXCEPT ![p] = @ \cup {e.seq : e \in {f \in batch.events : last[p] < f.seq}}]
        /\ last' = [last EXCEPT ![p] = Larger(@, batch.seq)]
        /\ UNCHANGED <<time, log, worker, news, port, opened>>
  BY DEF Hears
<1>2. UNCHANGED <<time, log, cache, jobs, ports, resumes, news, port, opened>>
  BY <1>1 DEF worker
<1>3. /\ FeedTypeOK /\ batch \in Logs /\ batch.seq \in Nat /\ batch.events \subseteq Events /\ last[p] \in Nat
      /\ mail[p] \subseteq Logs
  BY DEF FeedInv, FeedTypeOK, Logs
<1> DEFINE heard == {e.seq : e \in {f \in batch.events : last[p] < f.seq}}
<1>4. /\ last'[p] \in Nat /\ last[p] <= last'[p] /\ batch.seq <= last'[p]
      /\ last'[p] = last[p] \/ last'[p] = batch.seq
  BY <1>1, <1>3 DEF Larger, FeedTypeOK
<1>5. \A e \in batch.events : e \in news /\ e.seq \in Nat /\ e.site = SiteOf[p] /\ e.seq <= batch.seq
  BY <1>3 DEF FeedInv, BatchesInOrder, Events
<1>6. heard \subseteq Nat /\ \A n \in heard : last[p] < n /\ n <= batch.seq /\ n <= last'[p]
  <2> SUFFICES ASSUME NEW n \in heard PROVE n \in Nat /\ last[p] < n /\ n <= batch.seq /\ n <= last'[p]
    OBVIOUS
  <2>1. PICK e \in batch.events : last[p] < e.seq /\ n = e.seq
    OBVIOUS
  <2> QED
    BY <1>3, <1>4, <1>5, <2>1
<1>7. /\ \A q \in Pages : q # p => saw'[q] = saw[q] /\ last'[q] = last[q] /\ mail'[q] = mail[q]
      /\ saw'[p] = saw[p] \cup heard /\ mail'[p] = mail[p] \ {batch}
      /\ \A q \in Pages : last'[q] \in Nat /\ last[q] \in Nat /\ last[q] <= last'[q]
  BY <1>1, <1>3, <1>4 DEF FeedTypeOK
<1>8. \A c \in mail[p] : c # batch => batch.seq < c.seq /\ c.seq \in Nat /\ \A e \in c.events : batch.seq < e.seq
  <2> SUFFICES ASSUME NEW c \in mail[p], c # batch
               PROVE  batch.seq < c.seq /\ c.seq \in Nat /\ \A e \in c.events : batch.seq < e.seq
    OBVIOUS
  <2>1. c.seq \in Nat /\ batch.seq <= c.seq /\ batch.seq # c.seq
    BY <1>1, <1>3 DEF FeedInv, BatchesInOrder, Oldest, Logs
  <2>2. batch.seq < c.seq
    BY <1>3, <2>1
  <2> QED
    BY <2>1, <2>2 DEF FeedInv, BatchesInOrder
<1>9. FeedTypeOK'
  <2>1. saw' \in [Pages -> SUBSET Nat]
    BY <1>1, <1>3, <1>6 DEF FeedTypeOK
  <2>2. mail' \in [Pages -> SUBSET Logs]
    BY <1>1, <1>3 DEF FeedTypeOK
  <2>3. last' \in [Pages -> Nat]
    BY <1>1, <1>3, <1>7 DEF FeedTypeOK
  <2> QED
    BY <1>2, <1>3, <2>1, <2>2, <2>3 DEF FeedTypeOK
<1> HIDE DEF heard
<1>10. OneRuns' /\ CopyIsLog' /\ LogIsNumbered'
  BY <1>2, WorkerStays DEF FeedInv, OneRuns, CopyIsLog, LogIsNumbered
<1>11. BatchesInOrder'
  <2>1. \A q \in Pages : \A b \in mail'[q] : b \in mail[q] /\ (q = p => b # batch)
    BY <1>7
  <2>2. \A q \in Pages : \A b \in mail'[q] :
          /\ b.seq <= log.seq \/ b.seq < time
          /\ \A e \in b.events : e \in news /\ e.site = SiteOf[q] /\ e.seq <= b.seq
          /\ Storing \/ Posting => \A f \in Added : b.seq < f.seq
    BY <2>1 DEF FeedInv, BatchesInOrder
  <2>3. \A q \in Pages : \A b, c \in mail'[q] :
          /\ b.seq < c.seq => \A e \in c.events : b.seq < e.seq
          /\ b.seq = c.seq => b = c
    BY <2>1 DEF FeedInv, BatchesInOrder
  <2>4. \A q \in Pages : \A b \in mail'[q], e \in log.events :
          e.site = SiteOf[q] /\ last'[q] < e.seq /\ e.seq <= b.seq => \E c \in mail'[q] : e \in c.events
    <3> SUFFICES ASSUME NEW q \in Pages, NEW b \in mail'[q], NEW e \in log.events,
                        e.site = SiteOf[q], last'[q] < e.seq, e.seq <= b.seq
                 PROVE  \E c \in mail'[q] : e \in c.events
      OBVIOUS
    <3>1. e.seq \in Nat /\ last[q] < e.seq
      <4>1. e.seq \in Nat
        BY <1>3 DEF FeedTypeOK, Logs, Events
      <4> QED
        BY <1>7, <4>1
    <3>2. PICK c \in mail[q] : e \in c.events
      BY <2>1, <3>1 DEF FeedInv, BatchesInOrder
    <3>3. ~(q = p /\ c = batch)
      BY <1>4, <1>5, <3>1, <3>2, <1>3
    <3> QED
      BY <1>7, <3>2, <3>3
  <2> QED
    BY <1>2, <2>2, <2>3, <2>4, WorkerStays DEF BatchesInOrder
<1>12. PortsAreNew'
  <2>1. \A q \in Pages : port[q] <= opened[q] /\ (port[q] = NoPort => mail'[q] = {})
    BY <1>7 DEF FeedInv, PortsAreNew
  <2>2. \A r \in resumes : 1 <= r.port /\ r.port <= opened[r.page] /\ r.from <= last'[r.page]
    <3>1. \A r \in resumes : r.page \in Pages /\ r.from \in Nat
      BY <1>3 DEF FeedTypeOK
    <3> QED
      BY <1>7, <3>1 DEF FeedInv, PortsAreNew
  <2>3. \A i \in DOMAIN jobs : Resuming(i) =>
          1 <= jobs[i].port /\ jobs[i].port <= opened[jobs[i].page] /\ jobs[i].from <= last'[jobs[i].page]
    <3>1. \A i \in DOMAIN jobs : Resuming(i) => jobs[i].page \in Pages /\ jobs[i].from \in Nat
      BY <1>3, QueueTypes
    <3> QED
      BY <1>7, <3>1 DEF FeedInv, PortsAreNew
  <2>4. \A e \in ports : 1 <= e[2] /\ e[2] <= opened[e[1]]
    BY DEF FeedInv, PortsAreNew
  <2> QED
    BY <1>2, <2>1, <2>2, <2>3, <2>4, WorkerStays DEF PortsAreNew
<1>13. AskedOnce' /\ AskedFirst'
  <2>1. AskedOnce'
    BY <1>2, WorkerStays DEF FeedInv, AskedOnce
  <2>2. \A q \in Pages : mail[q] = {} => mail'[q] = {}
    BY <1>7
  <2>3. AskedFirst'
    BY <1>2, <2>2, WorkerStays DEF FeedInv, AskedFirst, AsksFor
  <2> QED
    BY <2>1, <2>3
<1>14. \A n \in saw[p] : n \in Nat /\ n <= last[p]
  BY <1>3 DEF FeedInv, SeenIsBehind, FeedTypeOK
<1>15. SeenIsBehind'
  <2>1. \A n \in saw'[p] : n <= last'[p]
    <3> SUFFICES ASSUME NEW n \in saw'[p] PROVE n <= last'[p]
      OBVIOUS
    <3>1. CASE n \in saw[p]
      BY <1>3, <1>4, <1>14, <3>1
    <3>2. CASE n \in heard
      BY <1>6, <3>2
    <3> QED
      BY <1>7, <3>1, <3>2
  <2>2. opened[p] # 0
    BY DEF FeedInv, SeenIsBehind
  <2> QED
    BY <1>2, <1>7, <2>1, <2>2 DEF FeedInv, SeenIsBehind
<1>16. LivePortMissesNothing'
  <2> SUFFICES ASSUME NEW q \in Pages, <<q, port[q]>> \in ports,
                      NEW e \in Missed(log, SiteOf[q], last'[q]), e \notin BeingPosted
               PROVE  \E c \in mail'[q] : e \in c.events
    BY <1>2, WorkerStays, LiveMail
  <2>1. e.seq \in Nat /\ last'[q] < e.seq
    BY <1>3 DEF FeedTypeOK, Logs, Events, Missed
  <2>2. e \in Missed(log, SiteOf[q], last[q])
    BY <1>7, <2>1 DEF Missed
  <2>3. PICK c \in mail[q] : e \in c.events
    BY <2>2, LiveMail DEF FeedInv
  <2>4. ~(q = p /\ c = batch)
    BY <1>3, <1>4, <1>5, <2>1, <2>3
  <2> QED
    BY <1>7, <2>3, <2>4
<1>17. FeedInv'
  BY <1>9, <1>10, <1>11, <1>12, <1>13, <1>15, <1>16 DEF FeedInv
<1>18. Feed!Hear(p)
  <2>1. saw'[p] \ saw[p] = heard
    <3>1. \A n \in heard : n \notin saw[p]
      BY <1>3, <1>6, <1>14
    <3> QED
      BY <1>7, <3>1
  <2> DEFINE between == {e \in Feed!FeedOf(p, news) : last[p] < e.seq /\ e.seq <= last'[p]}
  <2>2. heard \subseteq Feed!Numbers(between)
    <3> SUFFICES ASSUME NEW n \in heard PROVE n \in Feed!Numbers(between)
      OBVIOUS
    <3>1. PICK e \in batch.events : last[p] < e.seq /\ n = e.seq
      BY DEF heard
    <3>2. e \in between
      BY <1>5, <1>6, <3>1 DEF Feed!FeedOf
    <3> QED
      BY <3>1, <3>2 DEF Feed!Numbers
  <2>3. \A e \in between \cap log.events : e \in batch.events /\ last[p] < e.seq
    <3> SUFFICES ASSUME NEW e \in between, e \in log.events PROVE e \in batch.events /\ last[p] < e.seq
      OBVIOUS
    <3>1. e.site = SiteOf[p] /\ last[p] < e.seq /\ e.seq <= last'[p] /\ e.seq \in Nat
      BY <1>3 DEF Feed!FeedOf, FeedTypeOK, Events
    <3>2. e.seq <= batch.seq
      BY <1>3, <1>4, <3>1
    <3>3. PICK c \in mail[p] : e \in c.events
      BY <3>1, <3>2 DEF FeedInv, BatchesInOrder
    <3>4. c = batch
      BY <1>3, <1>8, <3>1, <3>2, <3>3
    <3> QED
      BY <3>1, <3>3, <3>4
  <2>4. Feed!Numbers(between \cap log.events) \subseteq heard
    BY <2>3 DEF Feed!Numbers, heard
  <2>5. /\ last' = [last EXCEPT ![p] = last'[p]]
        /\ saw' = [saw EXCEPT ![p] = saw[p] \cup heard]
    BY <1>1, <1>3, <1>7 DEF FeedTypeOK, heard
  <2> QED
    BY <1>2, <1>4, <2>1, <2>2, <2>4, <2>5 DEF Feed!Hear
<1> QED
  BY <1>17, <1>18

LEMMA DisconnectsStep ==
  ASSUME FeedInv, NEW p \in Pages, Disconnects(p)
  PROVE  FeedInv'
<1>1. /\ port' = [port EXCEPT ![p] = NoPort] /\ mail' = [mail EXCEPT ![p] = {}]
      /\ ports' = ports \ {<<p, port[p]>>}
      /\ UNCHANGED <<time, log, cache, jobs, resumes, news, opened, last, saw>>
  BY DEF Disconnects
<1>2. FeedTypeOK
  BY DEF FeedInv
<1>3. /\ \A q \in Pages : q # p => port'[q] = port[q] /\ mail'[q] = mail[q]
      /\ port'[p] = NoPort /\ mail'[p] = {}
      /\ \A q \in Pages : mail'[q] \subseteq mail[q] /\ (mail'[q] # {} => mail'[q] = mail[q])
  BY <1>1, <1>2 DEF FeedTypeOK
<1>4. FeedTypeOK'
  BY <1>1, <1>2 DEF FeedTypeOK, NoPort
<1>5. OneRuns' /\ CopyIsLog' /\ LogIsNumbered' /\ AskedOnce'
  BY <1>1, WorkerStays DEF FeedInv, OneRuns, CopyIsLog, LogIsNumbered, AskedOnce
<1>6. BatchesInOrder'
  BY <1>1, <1>3, WorkerStays DEF FeedInv, BatchesInOrder
<1>7. \A q \in Pages : <<q, NoPort>> \notin ports'
  <2>1. \A q \in Pages : <<q, NoPort>> \notin ports
    BY DEF FeedInv, PortsAreNew, NoPort
  <2> QED
    BY <1>1, <2>1
<1>8. PortsAreNew'
  <2>1. \A q \in Pages : port'[q] <= opened[q] /\ (port'[q] = NoPort => mail'[q] = {})
    <3>1. NoPort <= opened[p]
      BY <1>2 DEF FeedTypeOK, NoPort
    <3> QED
      BY <1>3, <3>1 DEF FeedInv, PortsAreNew
  <2>2. \A i \in DOMAIN jobs : Resuming(i)' =>
          1 <= jobs[i].port /\ jobs[i].port <= opened[jobs[i].page] /\ jobs[i].from <= last[jobs[i].page]
    BY <1>1, WorkerStays DEF FeedInv, PortsAreNew
  <2>3. \A e \in ports' : 1 <= e[2] /\ e[2] <= opened[e[1]]
    BY <1>1 DEF FeedInv, PortsAreNew
  <2>4. \A r \in resumes : 1 <= r.port /\ r.port <= opened[r.page] /\ r.from <= last[r.page]
    BY DEF FeedInv, PortsAreNew
  <2> QED
    BY <1>1, <2>1, <2>2, <2>3, <2>4 DEF PortsAreNew
<1>9. AskedFirst'
  <2>1. \A q \in Pages, r \in resumes : r.page = q /\ r.port = port'[q] =>
          mail'[q] = {} /\ <<q, port'[q]>> \notin ports'
    <3> SUFFICES ASSUME NEW q \in Pages, NEW r \in resumes, r.page = q, r.port = port'[q]
                 PROVE  mail'[q] = {} /\ <<q, port'[q]>> \notin ports'
      OBVIOUS
    <3>1. CASE q = p
      BY <1>3, <1>7, <3>1
    <3>2. CASE q # p
      BY <1>1, <1>3, <3>2 DEF FeedInv, AskedFirst, AsksFor
    <3> QED
      BY <3>1, <3>2
  <2>2. \A q \in Pages : \A i \in DOMAIN jobs : Resuming(i) /\ jobs[i].page = q /\ jobs[i].port = port'[q] =>
          mail'[q] = {} /\ <<q, port'[q]>> \notin ports'
    <3> SUFFICES ASSUME NEW q \in Pages, NEW i \in DOMAIN jobs, Resuming(i),
                        jobs[i].page = q, jobs[i].port = port'[q]
                 PROVE  mail'[q] = {} /\ <<q, port'[q]>> \notin ports'
      OBVIOUS
    <3>1. CASE q = p
      BY <1>3, <1>7, <3>1
    <3>2. CASE q # p
      BY <1>1, <1>3, <3>2 DEF FeedInv, AskedFirst, AsksFor
    <3> QED
      BY <3>1, <3>2
  <2> QED
    BY <1>1, <2>1, <2>2, WorkerStays DEF AskedFirst, AsksFor
<1>10. SeenIsBehind'
  BY <1>1, <1>3 DEF FeedInv, SeenIsBehind
<1>11. LivePortMissesNothing'
  <2> SUFFICES ASSUME NEW q \in Pages, <<q, port'[q]>> \in ports',
                      NEW e \in Missed(log, SiteOf[q], last[q]), e \notin BeingPosted
               PROVE  \E c \in mail'[q] : e \in c.events
    BY <1>1, WorkerStays, LiveMail
  <2>1. q # p
    BY <1>3, <1>7
  <2>2. <<q, port[q]>> \in ports
    BY <1>1, <1>3, <2>1
  <2>3. \E c \in mail[q] : e \in c.events
    BY <2>2, LiveMail DEF FeedInv
  <2> QED
    BY <1>3, <2>1, <2>3
<1> QED
  BY <1>4, <1>5, <1>6, <1>8, <1>9, <1>10, <1>11 DEF FeedInv

LEMMA WorkerStopsStep ==
  ASSUME FeedInv, FeedWorkerStops
  PROVE  FeedInv'
<1>1. /\ cache' = Unread /\ jobs' = <<>> /\ ports' = {} /\ resumes' = {}
      /\ UNCHANGED <<time, log, news, port, opened, last, mail, saw>>
  BY DEF FeedWorkerStops, pages
<1>2. DOMAIN jobs' = {} /\ ~Storing' /\ ~Posting'
  BY <1>1 DEF Storing, Posting, Running
<1>3. FeedTypeOK'
  BY <1>1 DEF FeedInv, FeedTypeOK
<1>4. OneRuns' /\ CopyIsLog' /\ LogIsNumbered' /\ AskedOnce' /\ AskedFirst'
  BY <1>1, <1>2 DEF FeedInv, OneRuns, CopyIsLog, LogIsNumbered, AskedOnce, AskedFirst
<1>5. BatchesInOrder' /\ SeenIsBehind'
  BY <1>1, <1>2 DEF FeedInv, BatchesInOrder, SeenIsBehind
<1>6. PortsAreNew'
  BY <1>1, <1>2 DEF FeedInv, PortsAreNew
<1>7. LivePortMissesNothing'
  BY <1>1 DEF LivePortMissesNothing
<1> QED
  BY <1>3, <1>4, <1>5, <1>6, <1>7 DEF FeedInv

LEMMA ClearsAndTicksStep ==
  ASSUME FeedInv, StorageCleared \/ FeedTicks
  PROVE  FeedInv' /\ log'.events \subseteq log.events
<1>1. FeedTypeOK
  BY DEF FeedInv
<1>2. CASE FeedTicks
  <2>1. /\ time' = time + 1 /\ time \in Nat
        /\ UNCHANGED <<log, cache, jobs, ports, resumes, news, port, opened, last, mail, saw>>
    BY <1>1, <1>2 DEF FeedTicks, worker, pages, FeedTypeOK
  <2>2. FeedTypeOK'
    BY <1>1, <2>1 DEF FeedTypeOK
  <2>3. OneRuns' /\ CopyIsLog' /\ AskedOnce' /\ AskedFirst' /\ PortsAreNew' /\ SeenIsBehind'
    BY <2>1, WorkerStays DEF FeedInv, OneRuns, CopyIsLog, AskedOnce, AskedFirst, AsksFor, PortsAreNew, SeenIsBehind
  <2>4. LogIsNumbered'
    <3>1. \A e \in news : e.seq \in Nat /\ (e.seq < time => e.seq < time')
      BY <1>1, <2>1 DEF FeedTypeOK, Events
    <3> QED
      BY <2>1, <3>1, WorkerStays DEF FeedInv, LogIsNumbered
  <2>5. BatchesInOrder'
    <3>1. \A p \in Pages : \A b \in mail[p] : b.seq \in Nat /\ (b.seq < time => b.seq < time')
      BY <1>1, <2>1 DEF FeedTypeOK, Logs
    <3> QED
      BY <2>1, <3>1, WorkerStays DEF FeedInv, BatchesInOrder
  <2>6. LivePortMissesNothing'
    BY <2>1, LiveMail, WorkerStays DEF FeedInv
  <2> QED
    BY <2>1, <2>2, <2>3, <2>4, <2>5, <2>6 DEF FeedInv
<1>3. CASE StorageCleared
  <2>1. /\ cache = Unread /\ jobs = <<>> /\ log.seq < time /\ log' = EmptyLog
        /\ log'.events = {} /\ log'.seq = 0 /\ log.seq \in Nat /\ time \in Nat
        /\ UNCHANGED <<time, cache, jobs, ports, resumes, news, port, opened, last, mail, saw>>
    BY <1>1, <1>3 DEF StorageCleared, worker, pages, FeedTypeOK, Logs, EmptyLog
  <2>2. ~Storing' /\ ~Posting'
    BY <2>1 DEF Storing, Posting, Running
  <2>3. FeedTypeOK'
    BY <1>1, <2>1 DEF FeedTypeOK, Logs, EmptyLog
  <2>4. OneRuns' /\ CopyIsLog' /\ AskedOnce' /\ AskedFirst' /\ PortsAreNew' /\ SeenIsBehind'
    BY <2>1, <2>2, WorkerStays
    DEF FeedInv, OneRuns, CopyIsLog, AskedOnce, AskedFirst, AsksFor, PortsAreNew, SeenIsBehind
  <2>5. LogIsNumbered'
    <3>1. \A e \in news : e.seq \in Nat /\ e.seq < time
      BY <1>1, <2>1 DEF FeedInv, LogIsNumbered, FeedTypeOK, Events
    <3> QED
      BY <2>1, <2>2, <3>1 DEF LogIsNumbered
  <2>6. BatchesInOrder'
    <3>1. \A p \in Pages : \A b \in mail[p] : b.seq \in Nat /\ b.seq < time
      BY <1>1, <2>1 DEF FeedInv, BatchesInOrder, FeedTypeOK, Logs
    <3> QED
      BY <2>1, <2>2, <3>1 DEF FeedInv, BatchesInOrder
  <2>7. LivePortMissesNothing'
    BY <2>1, LiveMail DEF Missed
  <2> QED
    BY <2>1, <2>3, <2>4, <2>5, <2>6, <2>7 DEF FeedInv
<1> QED
  BY <1>2, <1>3

\* Every step keeps the invariant, and is a step of the abstract feed or of nothing in it.
LEMMA FeedStep ==
  ASSUME FeedInv, [FeedNext]_feedVars
  PROVE  FeedInv' /\ [Feed!Next]_<<news, log.events, saw, last>>
<1>1. CASE UNCHANGED feedVars
  <2>1. UNCHANGED <<time, log, cache, jobs, ports, resumes, news, port, opened, last, mail, saw>>
    BY <1>1 DEF feedVars, worker, pages
  <2>2. FeedTypeOK' /\ OneRuns' /\ CopyIsLog' /\ LogIsNumbered' /\ BatchesInOrder' /\ PortsAreNew'
        /\ AskedOnce' /\ AskedFirst' /\ SeenIsBehind'
    BY <2>1, WorkerStays
    DEF FeedInv, FeedTypeOK, OneRuns, CopyIsLog, LogIsNumbered, BatchesInOrder, PortsAreNew, AskedOnce,
        AskedFirst, AsksFor, SeenIsBehind
  <2>3. LivePortMissesNothing'
    BY <2>1, LiveMail, WorkerStays DEF FeedInv
  <2> QED
    BY <2>1, <2>2, <2>3 DEF FeedInv
<1>2. CASE Publishes \/ Appends \/ Posts \/ ResumeArrives \/ Replays \/ FeedWorkerStops
  <2>1. FeedInv'
    BY <1>2, PublishesStep, AppendsStep, PostsStep, ResumeArrivesStep, ReplaysStep, WorkerStopsStep
  <2>2. UNCHANGED <<news, log, saw, last>>
    BY <1>2 DEF Publishes, Appends, Posts, ResumeArrives, Replays, FeedWorkerStops, pages
  <2> QED
    BY <2>1, <2>2
<1>3. CASE Stores
  <2>1. UNCHANGED <<saw, last>>
    BY <1>3 DEF Stores, pages
  <2> QED
    BY <1>3, <2>1, StoresStep DEF Feed!Next, Feed!Happen
<1>4. CASE StorageCleared \/ FeedTicks
  <2>1. UNCHANGED <<news, saw, last>>
    BY <1>4 DEF StorageCleared, FeedTicks, pages
  <2> QED
    BY <1>4, <2>1, ClearsAndTicksStep DEF Feed!Next, Feed!Forget
<1>5. ASSUME NEW p \in Pages, FirstUse(p) PROVE FeedInv' /\ Feed!Next
  <2>1. UNCHANGED <<news, log, saw>>
    BY <1>5 DEF FirstUse
  <2> QED
    BY <1>5, <2>1, FirstUseStep DEF Feed!Next, Feed!Begin
<1>6. ASSUME NEW p \in Pages, Reopens(p) \/ Disconnects(p)
      PROVE  FeedInv' /\ UNCHANGED <<news, log, saw, last>>
  BY <1>6, ReopensStep, DisconnectsStep DEF Reopens, Disconnects
<1>7. ASSUME NEW p \in Pages, Hears(p) PROVE FeedInv' /\ Feed!Next
  BY <1>7, HearsStep DEF Feed!Next
<1> QED
  BY <1>1, <1>2, <1>3, <1>4, <1>5, <1>6, <1>7 DEF FeedNext

LEMMA FeedAlways == FeedSpec => []FeedInv
BY FeedStart, FeedStep, PTL DEF FeedSpec

(* The values of the log, of the worker and of the pages. *)
THEOREM FeedTypes == FeedSpec => []FeedTypeOK
<1>1. FeedInv => FeedTypeOK
  BY DEF FeedInv
<1> QED
  BY <1>1, FeedAlways, PTL

(* registerEventPort replays before it goes live and the queue runs one task   *)
(* at a time: whatever stops and reopens between, all the log has of a live    *)
(* port's site beyond what its page has seen is on its way, or being posted.   *)
THEOREM LivePortsMissNothing == FeedSpec => []LivePortMissesNothing
<1>1. FeedInv => LivePortMissesNothing
  BY DEF FeedInv
<1> QED
  BY <1>1, FeedAlways, PTL

(* The log and its ports implement the feed: each page hears the events of its *)
(* site at most once, in order, and passes over one only when it is forgotten. *)
THEOREM HeardInOrder == FeedSpec => EachHeardInOrder
<1>1. FeedInit => Feed!Init
  BY DEF FeedInit, Feed!Init, EmptyLog
<1> QED
  BY <1>1, FeedAlways, FeedStep, PTL DEF FeedSpec, EachHeardInOrder, Feed!Spec

-----------------------------------------------------------------------------
(* The sockets to the chains *)

USE StreamBoundsAssumption

-----------------------------------------------------------------------------
(* What the stream's functions return *)

LEMMA NoTimersLemma ==
  ASSUME NEW r \in StreamRecords
  PROVE  /\ NoTimers(r) \in StreamRecords
         /\ NoTimers(r).closed = r.closed /\ NoTimers(r).socket = r.socket
         /\ ~NoTimers(r).retry /\ ~NoTimers(r).health /\ ~NoTimers(r).deadline
  BY DEF NoTimers, StreamRecords

LEMMA RotatedLemma ==
  ASSUME NEW r \in StreamRecords
  PROVE  /\ Rotated(r) \in StreamRecords
         /\ Rotated(r).closed = r.closed
         /\ Rotated(r).health = r.health /\ Rotated(r).deadline = r.deadline
  <1> DEFINE failures == IF r.failures < FailuresBeforeRotate THEN r.failures + 1 ELSE r.failures
  <1>1. failures \in 0 .. FailuresBeforeRotate /\ 0 \in 0 .. FailuresBeforeRotate
    BY DEF StreamRecords, FailuresBeforeRotate
  <1>2. r.hosts > 1 => (r.host + 1) % r.hosts \in Nat
    BY DEF StreamRecords
  <1> HIDE DEF failures
  <1>3. /\ [r EXCEPT !.failures = failures] \in StreamRecords
        /\ [r EXCEPT !.failures = failures].closed = r.closed
        /\ [r EXCEPT !.failures = failures].health = r.health
        /\ [r EXCEPT !.failures = failures].deadline = r.deadline
    BY <1>1 DEF StreamRecords
  <1>4. ASSUME r.hosts > 1
        PROVE  LET x == [r EXCEPT !.host = (r.host + 1) % r.hosts, !.failures = 0]
               IN /\ x \in StreamRecords
                  /\ x.closed = r.closed /\ x.health = r.health /\ x.deadline = r.deadline
    BY <1>1, <1>2, <1>4 DEF StreamRecords
  <1> QED BY <1>3, <1>4 DEF Rotated, failures

LEMMA RetryingLemma ==
  ASSUME NEW r \in StreamRecords
  PROVE  /\ Retrying(r) \in StreamRecords
         /\ Retrying(r).closed = r.closed /\ Retrying(r).socket = NoSocket
         /\ Retrying(r).retry /\ Retrying(r).state = "retrying"
         /\ ~Retrying(r).health /\ ~Retrying(r).deadline
  <1> DEFINE n == Rotated(NoTimers(r))
  <1>1. /\ n \in StreamRecords /\ n.closed = r.closed
        /\ ~n.health /\ ~n.deadline
    BY NoTimersLemma, RotatedLemma, Zenon
  <1> HIDE DEF n
  <1>2. LET x == [n EXCEPT !.socket = NoSocket, !.state = "retrying", !.retry = TRUE]
        IN /\ x \in StreamRecords /\ x.closed = n.closed /\ x.socket = NoSocket
           /\ x.retry /\ x.state = "retrying" /\ x.health = n.health /\ x.deadline = n.deadline
    BY <1>1 DEF StreamRecords, NoSocket
  <1> QED BY <1>1, <1>2 DEF Retrying, n

LEMMA WentLiveLemma ==
  ASSUME NEW r \in StreamRecords
  PROVE  /\ WentLive(r) \in StreamRecords
         /\ WentLive(r).closed = r.closed /\ WentLive(r).socket = r.socket
         /\ WentLive(r).retry = r.retry /\ WentLive(r).health
  <1> DEFINE n == [r EXCEPT !.state = "live"]
             m == [n EXCEPT !.failures = 0]
             l == [m EXCEPT !.health = TRUE]
  <1>1. n \in StreamRecords /\ n.closed = r.closed /\ n.socket = r.socket /\ n.retry = r.retry
    BY DEF StreamRecords
  <1>2. 0 \in 0 .. FailuresBeforeRotate
    BY DEF FailuresBeforeRotate
  <1> HIDE DEF n
  <1>3. m \in StreamRecords /\ m.closed = n.closed /\ m.socket = n.socket /\ m.retry = n.retry
    BY <1>1, <1>2 DEF StreamRecords
  <1> HIDE DEF m
  <1>4. /\ l \in StreamRecords /\ l.closed = m.closed /\ l.socket = m.socket
        /\ l.retry = m.retry /\ l.health
    BY <1>3 DEF StreamRecords
  <1>5. WentLive(r) = l
    BY DEF WentLive, l, m, n
  <1> QED BY <1>1, <1>3, <1>4, <1>5, Zenon

-----------------------------------------------------------------------------
(* The inductive invariant *)

\* The open stream that holds the websocket w.
Held(w) ==
  /\ socket[w].owner \in StreamIds
  /\ ~stream[socket[w].owner].closed
  /\ stream[socket[w].owner].socket = w

SocketsAreHeld ==
  \A w \in SocketIds :
    socket[w].attached \/ socket[w].phase \in {"connecting", "open"} => Held(w)

Holds(s) ==
  LET w == stream[s].socket
  IN w # NoSocket => /\ socket[w].attached /\ socket[w].owner = s
                     /\ socket[w].phase \in {"connecting", "open", "closing"}
StreamIsSound(s) ==
  /\ stream[s].closed => stream[s].socket = NoSocket /\ ~stream[s].retry
  /\ ~stream[s].closed => s = began /\ (stream[s].retry <=> stream[s].socket = NoSocket)
  /\ stream[s].socket = NoSocket => ~stream[s].health /\ ~stream[s].deadline
  /\ ~stream[s].closed /\ stream[s].state = "live" => stream[s].health
  /\ Holds(s)
StreamsAreSound == \A s \in StreamIds : StreamIsSound(s)

Unmade == \A w \in SocketIds : w > made => socket[w] = NotMade

StreamInv == StreamTypeOK /\ SocketsAreHeld /\ StreamsAreSound /\ Unmade

LEMMA StreamInitInv == StreamInit => StreamInv
  <1> SUFFICES ASSUME StreamInit PROVE StreamInv
    OBVIOUS
  <1>1. Fresh(0) \in StreamRecords
    BY DEF Fresh, StreamRecords, NoSocket, FailuresBeforeRotate
  <1>2. /\ NeverOpened \in StreamRecords /\ NeverOpened.closed /\ NeverOpened.socket = NoSocket
        /\ ~NeverOpened.retry /\ ~NeverOpened.health /\ ~NeverOpened.deadline
    BY <1>1 DEF NeverOpened, Fresh, StreamRecords
  <1>3. /\ NotMade \in SocketRecords /\ ~NotMade.attached /\ NotMade.phase = "none"
    BY DEF NotMade, SocketRecords
  <1>4. StreamTypeOK
    BY <1>2, <1>3 DEF StreamInit, StreamTypeOK
  <1>5. SocketsAreHeld
    BY <1>3 DEF StreamInit, SocketsAreHeld
  <1>6. StreamsAreSound
    BY <1>2 DEF StreamInit, StreamsAreSound, StreamIsSound, Holds
  <1>7. Unmade
    BY DEF StreamInit, Unmade
  <1> QED BY <1>4, <1>5, <1>6, <1>7 DEF StreamInv

\* What the stream s drops its websocket for.
Dropping(s, x) ==
  /\ x \in StreamRecords
  /\ x.socket = NoSocket /\ ~x.health /\ ~x.deadline
  /\ x.closed => ~x.retry
  /\ ~x.closed => x.retry /\ x.state # "live"

\* Of the websockets only w is changed, and let go of.
LetsGo(sockets, w) ==
  /\ sockets \in [SocketIds -> SocketRecords]
  /\ \A v \in SocketIds : v # w => sockets[v] = socket[v]
  /\ \A v \in SocketIds : v = w => ~sockets[v].attached /\ sockets[v].phase \in {"closing", "closed"}

LEMMA WithoutSocketLemma ==
  ASSUME StreamTypeOK, NEW w
  PROVE  LetsGo(WithoutSocket(socket, w), w)
  <1>1. socket \in [SocketIds -> SocketRecords]
    BY DEF StreamTypeOK
  <1>2. \A v \in SocketIds : LET y == [socket[v] EXCEPT !.phase = "closing", !.attached = FALSE]
                             IN y \in SocketRecords /\ y.phase = "closing" /\ ~y.attached
    BY <1>1 DEF SocketRecords
  <1> QED BY <1>1, <1>2 DEF WithoutSocket, LetsGo

LEMMA DropsItsSocket ==
  ASSUME StreamInv, NEW s \in StreamIds, NEW x, Dropping(s, x),
         stream' = [stream EXCEPT ![s] = x],
         LetsGo(socket', stream[s].socket),
         made' = made, began' \in 0 .. MaxStreams, ~x.closed => s = began',
         began' = began \/ \A q \in StreamIds : q # s => stream[q].closed
  PROVE  StreamInv'
  <1> DEFINE w == stream[s].socket
  <1>1. /\ stream \in [StreamIds -> StreamRecords] /\ socket \in [SocketIds -> SocketRecords]
        /\ x \in StreamRecords /\ w \in SocketIds \cup {NoSocket}
    BY DEF StreamInv, StreamTypeOK, Dropping, StreamRecords
  <1>2. /\ \A q \in StreamIds : stream'[q] = IF q = s THEN x ELSE stream[q]
        /\ \A v \in SocketIds : v # w => socket'[v] = socket[v]
        /\ \A v \in SocketIds : v = w => ~socket'[v].attached /\ socket'[v].phase \in {"closing", "closed"}
    BY <1>1 DEF LetsGo
  <1>5. StreamTypeOK'
    <2>1. stream' \in [StreamIds -> StreamRecords]
      BY <1>1
    <2>2. socket' \in [SocketIds -> SocketRecords]
      BY DEF LetsGo
    <2> QED BY <2>1, <2>2 DEF StreamInv, StreamTypeOK
  <1>6. SocketsAreHeld'
    <2> SUFFICES ASSUME NEW v \in SocketIds,
                        socket'[v].attached \/ socket'[v].phase \in {"connecting", "open"}
                 PROVE  Held(v)'
      BY DEF SocketsAreHeld
    <2>1. v # w /\ socket'[v] = socket[v]
      BY <1>2
    <2>2. Held(v)
      BY <2>1 DEF StreamInv, SocketsAreHeld
    <2>3. socket[v].owner # s
      BY <2>1, <2>2 DEF Held
    <2> QED BY <1>2, <2>1, <2>2, <2>3 DEF Held
  <1>7. StreamsAreSound'
    <2> SUFFICES ASSUME NEW q \in StreamIds PROVE StreamIsSound(q)'
      BY DEF StreamsAreSound
    <2>1. CASE q = s
      <3>1. stream'[q] = x
        BY <1>2, <2>1
      <3>2. x.retry \in BOOLEAN /\ x.closed \in BOOLEAN /\ x.health \in BOOLEAN /\ x.deadline \in BOOLEAN
        BY <1>1 DEF StreamRecords
      <3>3. (~x.closed => (x.retry <=> x.socket = NoSocket)) /\ (x.closed => ~x.retry)
        BY <3>2, Zenon DEF Dropping
      <3> QED BY <2>1, <3>1, <3>3, Zenon DEF Dropping, StreamIsSound, Holds
    <2>2. CASE q # s
      <3>1. stream'[q] = stream[q] /\ StreamIsSound(q)
        BY <1>2, <2>2 DEF StreamInv, StreamsAreSound
      <3>2. Holds(q)'
        <4> SUFFICES ASSUME stream[q].socket # NoSocket
                     PROVE  /\ socket'[stream[q].socket].attached
                            /\ socket'[stream[q].socket].owner = q
                            /\ socket'[stream[q].socket].phase \in {"connecting", "open", "closing"}
          BY <3>1 DEF Holds
        <4>1. stream[q].socket \in SocketIds
          BY <1>1 DEF StreamRecords
        <4>2. stream[q].socket # w
          BY <2>2, <3>1 DEF StreamIsSound, Holds, StreamInv, StreamsAreSound
        <4> QED BY <1>2, <3>1, <4>1, <4>2 DEF StreamIsSound, Holds
      <3>3. stream[q].closed \/ began' = began
        BY <2>2
      <3> QED BY <3>1, <3>2, <3>3 DEF StreamIsSound
    <2> QED BY <2>1, <2>2
  <1>8. Unmade'
    <2>1. w # NoSocket => ~(w > made)
      BY <1>1 DEF StreamInv, Unmade, StreamsAreSound, StreamIsSound, Holds, NotMade
    <2>2. \A v \in SocketIds : v # NoSocket
      BY DEF SocketIds, NoSocket
    <2> SUFFICES ASSUME NEW v \in SocketIds, v > made PROVE socket'[v] = NotMade
      BY DEF Unmade
    <2>3. v # w /\ socket[v] = NotMade
      BY <2>1, <2>2 DEF StreamInv, Unmade
    <2> QED BY <1>2, <2>3
  <1> QED BY <1>5, <1>6, <1>7, <1>8 DEF StreamInv

LEMMA SchedulesRetryLemma ==
  ASSUME StreamInv, NEW s \in StreamIds, IsOpen(s), SchedulesRetry(s)
  PROVE  StreamInv'
  <1>1. stream[s] \in StreamRecords /\ began \in 0 .. MaxStreams
    BY DEF StreamInv, StreamTypeOK
  <1> DEFINE x == Retrying(stream[s])
  <1>2. /\ x \in StreamRecords /\ x.closed = stream[s].closed /\ x.socket = NoSocket
        /\ x.retry /\ x.state = "retrying" /\ ~x.health /\ ~x.deadline
    BY <1>1, RetryingLemma, Zenon
  <1>3. s = began
    BY DEF StreamInv, StreamsAreSound, StreamIsSound, IsOpen
  <1>4. /\ stream' = [stream EXCEPT ![s] = x]
        /\ LetsGo(socket', stream[s].socket)
        /\ made' = made /\ began' = began
    BY WithoutSocketLemma DEF SchedulesRetry, StreamInv
  <1> HIDE DEF x
  <1>5. Dropping(s, x)
    BY <1>2 DEF Dropping, IsOpen
  <1> QED BY <1>1, <1>3, <1>4, <1>5, DropsItsSocket

LEMMA ConnectsLemma ==
  ASSUME StreamInv, NEW s \in StreamIds, NEW r \in StreamRecords,
         ~r.closed, r.socket = NoSocket, ~r.retry, ~r.health, ~r.deadline,
         stream[s].socket = NoSocket, \A q \in StreamIds : q # s => stream[q].closed,
         began' = s, Connects(s, r)
  PROVE  StreamInv'
  <1>1. /\ stream \in [StreamIds -> StreamRecords] /\ socket \in [SocketIds -> SocketRecords]
        /\ made \in 0 .. MaxSockets /\ s \in 0 .. MaxStreams
    BY DEF StreamInv, StreamTypeOK, StreamIds
  <1>2. LetsGo(socket, NoSocket)
    BY <1>1 DEF LetsGo, NoSocket, SocketIds
  <1>3. CASE /\ stream' = [stream EXCEPT ![s] = [r EXCEPT !.state = "closed", !.closed = TRUE]]
             /\ UNCHANGED <<socket, made>>
    <2> DEFINE x == [r EXCEPT !.state = "closed", !.closed = TRUE]
    <2>1. Dropping(s, x) /\ x.closed
      BY DEF Dropping, StreamRecords
    <2> HIDE DEF x
    <2> QED BY <1>1, <1>2, <1>3, <2>1, DropsItsSocket DEF x
  <1>4. CASE stream' = [stream EXCEPT ![s] = Retrying(r)] /\ UNCHANGED <<socket, made>>
    <2> DEFINE x == Retrying(r)
    <2>1. /\ x \in StreamRecords /\ x.closed = r.closed /\ x.socket = NoSocket
          /\ x.retry /\ x.state = "retrying" /\ ~x.health /\ ~x.deadline
      BY RetryingLemma, Zenon
    <2> HIDE DEF x
    <2>2. Dropping(s, x)
      BY <2>1 DEF Dropping
    <2> QED BY <1>1, <1>2, <1>4, <2>2, DropsItsSocket DEF x
  <1>5. CASE /\ made < MaxSockets /\ made' = made + 1
             /\ stream' = [stream EXCEPT ![s] = [r EXCEPT !.state = "connecting",
                                                          !.socket = made + 1]]
             /\ socket' = [socket EXCEPT ![made + 1] = [phase |-> "connecting", owner |-> s,
                                                        attached |-> TRUE]]
    <2> DEFINE w == made + 1
               x == [r EXCEPT !.state = "connecting", !.socket = w]
               y == [phase |-> "connecting", owner |-> s, attached |-> TRUE]
    <2>1. w \in SocketIds /\ w # NoSocket /\ ~(w > made')
      BY <1>1, <1>5 DEF SocketIds, NoSocket
    <2>2. /\ x \in StreamRecords /\ x.socket = w /\ x.state = "connecting"
          /\ ~x.closed /\ ~x.retry
      BY <2>1 DEF StreamRecords
    <2>3. y \in SocketRecords /\ y.phase = "connecting" /\ y.owner = s /\ y.attached
      BY DEF SocketRecords
    <2> HIDE DEF x, y
    <2>4. /\ stream' = [stream EXCEPT ![s] = x] /\ socket' = [socket EXCEPT ![w] = y]
      BY <1>5 DEF x, y
    <2> HIDE DEF w
    <2>5. /\ stream' \in [StreamIds -> StreamRecords] /\ socket' \in [SocketIds -> SocketRecords]
          /\ \A q \in StreamIds : stream'[q] = IF q = s THEN x ELSE stream[q]
          /\ \A v \in SocketIds : socket'[v] = IF v = w THEN y ELSE socket[v]
      BY <1>1, <2>1, <2>2, <2>3, <2>4
    <2>6. StreamTypeOK'
      BY <1>1, <1>5, <2>5 DEF StreamTypeOK
    <2>7. SocketsAreHeld'
      <3> SUFFICES ASSUME NEW v \in SocketIds,
                          socket'[v].attached \/ socket'[v].phase \in {"connecting", "open"}
                   PROVE  Held(v)'
        BY DEF SocketsAreHeld
      <3>1. CASE v = w
        BY <2>2, <2>3, <2>5, <3>1 DEF Held
      <3>2. CASE v # w
        <4>1. socket'[v] = socket[v] /\ Held(v) /\ v # NoSocket
          BY <2>5, <3>2 DEF StreamInv, SocketsAreHeld, SocketIds, NoSocket
        <4>2. socket[v].owner # s
          BY <4>1 DEF Held
        <4> QED BY <2>5, <4>1, <4>2 DEF Held
      <3> QED BY <3>1, <3>2
    <2>8. StreamsAreSound'
      <3> SUFFICES ASSUME NEW q \in StreamIds PROVE StreamIsSound(q)'
        BY DEF StreamsAreSound
      <3>1. CASE q = s
        <4>1. stream'[q] = x /\ socket'[w] = y
          BY <2>1, <2>5, <3>1
        <4> QED BY <2>1, <2>2, <2>3, <3>1, <4>1, Zenon DEF StreamIsSound, Holds
      <3>2. CASE q # s
        BY <2>5, <3>2 DEF StreamIsSound, Holds, StreamInv, StreamsAreSound
      <3> QED BY <3>1, <3>2
    <2>9. Unmade'
      BY <1>1, <1>5, <2>1, <2>5 DEF StreamInv, Unmade, SocketIds, w
    <2> QED BY <2>6, <2>7, <2>8, <2>9 DEF StreamInv
  <1> QED BY <1>3, <1>4, <1>5 DEF Connects

-----------------------------------------------------------------------------
(* Every step keeps it *)

\* The websocket w changes its phase, and stays with or leaves the handlers.
LEMMA PhaseLemma ==
  ASSUME StreamTypeOK, NEW w \in SocketIds, NEW phase \in {"open", "closing", "closed"}
  PROVE  /\ Phase(w, phase) \in [SocketIds -> SocketRecords]
         /\ \A v \in SocketIds : v # w => Phase(w, phase)[v] = socket[v]
         /\ Phase(w, phase)[w].phase = phase
         /\ Phase(w, phase)[w].owner = socket[w].owner
         /\ Phase(w, phase)[w].attached = socket[w].attached
  <1> DEFINE y == [socket[w] EXCEPT !.phase = phase]
  <1>1. socket \in [SocketIds -> SocketRecords]
    BY DEF StreamTypeOK
  <1>2. /\ y \in SocketRecords /\ y.phase = phase
        /\ y.owner = socket[w].owner /\ y.attached = socket[w].attached
    BY <1>1 DEF SocketRecords
  <1>3. Phase(w, phase) = [socket EXCEPT ![w] = y]
    BY DEF Phase
  <1> HIDE DEF y
  <1> QED BY <1>1, <1>2, <1>3

\* What held websockets have in common.
LEMMA HeldLemma ==
  ASSUME StreamInv, NEW w \in SocketIds, Held(w)
  PROVE  /\ socket[w].owner = began /\ began \in StreamIds
         /\ stream[began].socket = w /\ ~stream[began].closed /\ ~stream[began].retry
         /\ stream[began] \in StreamRecords
         /\ socket[w].attached /\ socket[w].phase \in {"connecting", "open", "closing"}
         /\ w # NoSocket
  <1>1. w # NoSocket
    BY DEF SocketIds, NoSocket
  <1> QED BY <1>1 DEF StreamInv, StreamTypeOK, Held, StreamsAreSound, StreamIsSound, Holds

LEMMA NotMadeIsIdle ==
  ASSUME StreamInv, NEW w \in SocketIds, socket[w].phase # "none"
  PROVE  ~(w > made)
  BY DEF StreamInv, Unmade, NotMade

LEMMA ClosesStreamInv ==
  ASSUME StreamInv, NEW s \in StreamIds, ClosesStream(s)
  PROVE  StreamInv'
  <1>1. stream[s] \in StreamRecords /\ began \in 0 .. MaxStreams
    BY DEF StreamInv, StreamTypeOK
  <1> DEFINE n == NoTimers(stream[s])
             x == [n EXCEPT !.closed = TRUE, !.socket = NoSocket, !.state = "closed"]
  <1>2. n \in StreamRecords /\ ~n.retry /\ ~n.health /\ ~n.deadline
    BY <1>1, NoTimersLemma, Zenon
  <1>3. stream' = [stream EXCEPT ![s] = x]
    BY DEF ClosesStream
  <1> HIDE DEF n
  <1>4. /\ x \in StreamRecords /\ x.closed /\ x.socket = NoSocket
        /\ ~x.retry /\ ~x.health /\ ~x.deadline
    BY <1>2 DEF StreamRecords, NoSocket
  <1> HIDE DEF x
  <1>5. Dropping(s, x)
    BY <1>4 DEF Dropping
  <1>6. LetsGo(socket', stream[s].socket)
    BY WithoutSocketLemma DEF ClosesStream, StreamInv
  <1> QED BY <1>1, <1>3, <1>4, <1>5, <1>6, DropsItsSocket DEF ClosesStream

LEMMA OpensStreamInv ==
  ASSUME StreamInv, OpensStream
  PROVE  StreamInv'
  <1> DEFINE s == began + 1
  <1>1. s \in StreamIds /\ \A q \in StreamIds : stream[q].closed
    BY DEF StreamInv, StreamTypeOK, OpensStream, StreamIds, IsOpen
  <1>2. PICK hosts \in 0 .. MaxHosts : Connects(s, Fresh(hosts))
    BY DEF OpensStream
  <1> DEFINE r == Fresh(hosts)
  <1>3. /\ r \in StreamRecords /\ ~r.closed /\ r.socket = NoSocket
        /\ ~r.retry /\ ~r.health /\ ~r.deadline
    BY DEF Fresh, StreamRecords, NoSocket, FailuresBeforeRotate
  <1>4. stream[s].socket = NoSocket
    BY <1>1 DEF StreamInv, StreamsAreSound, StreamIsSound
  <1>5. began' = s
    BY DEF OpensStream
  <1> HIDE DEF r, s
  <1>6. Connects(s, r)
    BY <1>2 DEF r
  <1> QED BY <1>1, <1>3, <1>4, <1>5, <1>6, ConnectsLemma

LEMMA RetryFiresInv ==
  ASSUME StreamInv, NEW s \in StreamIds, RetryFires(s)
  PROVE  StreamInv'
  <1>1. /\ stream[s] \in StreamRecords /\ ~stream[s].closed /\ s = began
        /\ stream[s].socket = NoSocket /\ ~stream[s].health /\ ~stream[s].deadline
    BY DEF StreamInv, StreamTypeOK, StreamsAreSound, StreamIsSound, RetryFires
  <1> DEFINE r == [stream[s] EXCEPT !.retry = FALSE]
  <1>2. /\ r \in StreamRecords /\ ~r.closed /\ r.socket = NoSocket
        /\ ~r.retry /\ ~r.health /\ ~r.deadline
    BY <1>1 DEF StreamRecords
  <1>3. Connects(s, r) /\ began' = began
    BY <1>1 DEF RetryFires
  <1>4. \A q \in StreamIds : q # s => stream[q].closed
    BY <1>1 DEF StreamInv, StreamsAreSound, StreamIsSound
  <1> HIDE DEF r
  <1> QED BY <1>1, <1>2, <1>3, <1>4, ConnectsLemma

\* The open stream and its websocket change, and stay together.
LEMMA StaysTogether ==
  ASSUME StreamInv, NEW w \in SocketIds, Held(w),
         NEW x \in StreamRecords, x.socket = w, ~x.closed, ~x.retry, x.state = "live" => x.health,
         NEW y \in SocketRecords, y.owner = began, y.attached,
         y.phase \in {"connecting", "open", "closing"},
         stream' = [stream EXCEPT ![began] = x], socket' = [socket EXCEPT ![w] = y],
         UNCHANGED <<began, made>>
  PROVE  StreamInv'
  <1>1. began \in StreamIds /\ w # NoSocket /\ stream[began].socket = w
    BY HeldLemma
  <1>2. /\ stream \in [StreamIds -> StreamRecords] /\ socket \in [SocketIds -> SocketRecords]
        /\ \A q \in StreamIds : stream'[q] = IF q = began THEN x ELSE stream[q]
        /\ \A v \in SocketIds : socket'[v] = IF v = w THEN y ELSE socket[v]
    BY <1>1 DEF StreamInv, StreamTypeOK
  <1>3. StreamTypeOK'
    BY <1>2 DEF StreamInv, StreamTypeOK
  <1>4. SocketsAreHeld'
    <2> SUFFICES ASSUME NEW v \in SocketIds,
                        socket'[v].attached \/ socket'[v].phase \in {"connecting", "open"}
                 PROVE  Held(v)'
      BY DEF SocketsAreHeld
    <2>1. CASE v = w
      BY <1>1, <1>2, <2>1 DEF Held
    <2>2. CASE v # w
      <3>1. Held(v)
        BY <1>2, <2>2 DEF StreamInv, SocketsAreHeld
      <3> QED BY <1>1, <1>2, <2>2, <3>1, HeldLemma
    <2> QED BY <2>1, <2>2
  <1>5. StreamsAreSound'
    <2> SUFFICES ASSUME NEW q \in StreamIds PROVE StreamIsSound(q)'
      BY DEF StreamsAreSound
    <2>1. CASE q = began
      <3>1. stream'[q] = x /\ socket'[w] = y /\ q = began'
        BY <1>2, <2>1
      <3>2. x.retry <=> x.socket = NoSocket
        BY <1>1, Zenon
      <3> QED BY <1>1, <2>1, <3>1, <3>2, Zenon DEF StreamIsSound, Holds
    <2>2. CASE q # began
      <3>1. StreamIsSound(q) /\ stream'[q] = stream[q]
        BY <1>2, <2>2 DEF StreamInv, StreamsAreSound
      <3>2. stream[q].socket = NoSocket
        BY <2>2, <3>1 DEF StreamIsSound
      <3> QED BY <2>2, <3>1, <3>2 DEF StreamIsSound, Holds
    <2> QED BY <2>1, <2>2
  <1>6. Unmade'
    BY <1>2, HeldLemma, NotMadeIsIdle DEF StreamInv, Unmade
  <1> QED BY <1>3, <1>4, <1>5, <1>6 DEF StreamInv

LEMMA HealthFiresInv ==
  ASSUME StreamInv, NEW s \in StreamIds, HealthFires(s)
  PROVE  StreamInv'
  <1> DEFINE w == stream[s].socket
  <1>1. /\ stream[s] \in StreamRecords /\ w # NoSocket /\ w \in SocketIds
        /\ ~stream[s].closed /\ s = began
    BY DEF StreamInv, StreamTypeOK, StreamsAreSound, StreamIsSound, HealthFires, StreamRecords
  <1>2. Held(w)
    BY <1>1 DEF Held, StreamInv, StreamsAreSound, StreamIsSound, Holds
  <1>3. CASE SchedulesRetry(s)
    BY <1>1, <1>3, SchedulesRetryLemma DEF IsOpen
  <1>4. CASE stream' = [stream EXCEPT ![s].deadline = TRUE] /\ UNCHANGED <<socket, began, made>>
    <2> DEFINE x == [stream[s] EXCEPT !.deadline = TRUE]
    <2>1. /\ x \in StreamRecords /\ x.socket = w /\ ~x.closed
          /\ x.retry = stream[s].retry /\ x.state = stream[s].state /\ x.health = stream[s].health
      BY <1>1 DEF StreamRecords
    <2>2. stream' = [stream EXCEPT ![s] = x]
      BY <1>4
    <2>3. ~stream[s].retry /\ (stream[s].state = "live" => stream[s].health)
      BY <1>1 DEF StreamInv, StreamsAreSound, StreamIsSound
    <2> HIDE DEF x
    <2>4. socket[w] \in SocketRecords /\ socket' = [socket EXCEPT ![w] = socket[w]]
      BY <1>1, <1>4 DEF StreamInv, StreamTypeOK
    <2> QED BY <1>1, <1>2, <1>4, <2>1, <2>2, <2>3, <2>4, HeldLemma, StaysTogether
  <1> QED BY <1>3, <1>4 DEF HealthFires

LEMMA DeadlineFiresInv ==
  ASSUME StreamInv, NEW s \in StreamIds, DeadlineFires(s)
  PROVE  StreamInv'
  <1>1. stream[s].socket # NoSocket
    BY DEF StreamInv, StreamsAreSound, StreamIsSound, DeadlineFires
  <1>2. ~stream[s].closed
    BY <1>1 DEF StreamInv, StreamsAreSound, StreamIsSound
  <1> QED BY <1>2, SchedulesRetryLemma DEF DeadlineFires, IsOpen

\* The websocket that fails ends, and its stream retries.
LEMMA FailsInv ==
  ASSUME StreamInv, NEW w \in SocketIds, Held(w), NEW r \in StreamRecords, ~r.closed,
         stream' = [stream EXCEPT ![began] = Retrying(r)], LetsGo(socket', w),
         UNCHANGED <<began, made>>
  PROVE  StreamInv'
  <1> DEFINE x == Retrying(r)
  <1>1. began \in StreamIds /\ stream[began].socket = w /\ began \in 0 .. MaxStreams
    BY HeldLemma DEF StreamInv, StreamTypeOK
  <1>2. /\ x \in StreamRecords /\ x.closed = r.closed /\ x.socket = NoSocket
        /\ x.retry /\ x.state = "retrying" /\ ~x.health /\ ~x.deadline
    BY RetryingLemma, Zenon
  <1>3. stream' = [stream EXCEPT ![began] = x]
    OBVIOUS
  <1> HIDE DEF x
  <1>4. Dropping(began, x)
    BY <1>2 DEF Dropping
  <1> QED BY <1>1, <1>3, <1>4, DropsItsSocket

LEMMA HeededIsHeld ==
  ASSUME StreamInv, NEW w \in SocketIds
  PROVE  /\ socket[w].phase \in {"connecting", "open"} \/ socket[w].attached => Heeded(w)
         /\ Heeded(w) => Held(w) /\ Owner(w) = began
  <1>1. socket[w].phase \in {"connecting", "open"} \/ socket[w].attached => Held(w)
    BY DEF StreamInv, SocketsAreHeld
  <1>2. Held(w) => Heeded(w) /\ Owner(w) = began
    BY HeldLemma DEF Heeded, Owner, IsOpen
  <1>3. Heeded(w) => socket[w].attached
    BY DEF Heeded
  <1> QED BY <1>1, <1>2, <1>3

LEMMA SocketOpensInv ==
  ASSUME StreamInv, NEW w \in SocketIds, SocketOpens(w)
  PROVE  StreamInv'
  <1>1. /\ Held(w) /\ Owner(w) = began /\ Heeded(w)
    BY HeededIsHeld DEF SocketOpens
  <1>2. stream[began] \in StreamRecords /\ ~stream[began].closed /\ ~stream[began].retry
        /\ stream[began].socket = w /\ socket[w].attached /\ socket[w].owner = began
    BY <1>1, HeldLemma
  <1>3. CASE /\ stream' = [stream EXCEPT ![began] = WentLive(stream[began])]
             /\ socket' = Phase(w, "open") /\ UNCHANGED <<began, made>>
    <2> DEFINE x == WentLive(stream[began])
               y == [socket[w] EXCEPT !.phase = "open"]
    <2>1. /\ x \in StreamRecords /\ x.socket = w /\ ~x.closed /\ ~x.retry /\ x.health
      BY <1>2, WentLiveLemma, Zenon
    <2>2. y \in SocketRecords /\ y.owner = began /\ y.attached /\ y.phase = "open"
      BY <1>2 DEF StreamInv, StreamTypeOK, SocketRecords
    <2>3. stream' = [stream EXCEPT ![began] = x] /\ socket' = [socket EXCEPT ![w] = y]
      BY <1>3 DEF Phase
    <2> HIDE DEF x, y
    <2> QED BY <1>1, <1>3, <2>1, <2>2, <2>3, StaysTogether
  <1>4. CASE /\ stream' = [stream EXCEPT ![began] = Retrying([stream[began] EXCEPT !.failures = 0])]
             /\ socket' = WithoutSocket(socket, w) /\ UNCHANGED <<began, made>>
    <2> DEFINE r == [stream[began] EXCEPT !.failures = 0]
    <2>1. r \in StreamRecords /\ ~r.closed
      BY <1>2 DEF StreamRecords, FailuresBeforeRotate
    <2>2. stream' = [stream EXCEPT ![began] = Retrying(r)]
      BY <1>4
    <2> HIDE DEF r
    <2>3. LetsGo(socket', w)
      BY <1>4, WithoutSocketLemma DEF StreamInv
    <2> QED BY <1>1, <1>4, <2>1, <2>2, <2>3, FailsInv
  <1> QED BY <1>1, <1>3, <1>4 DEF SocketOpens

LEMMA SocketHearsInv ==
  ASSUME StreamInv, NEW w \in SocketIds, SocketHears(w)
  PROVE  StreamInv'
  <1>1. Held(w) /\ Owner(w) = began
    BY HeededIsHeld DEF SocketHears
  <1>2. /\ stream[began] \in StreamRecords /\ ~stream[began].closed /\ ~stream[began].retry
        /\ stream[began].socket = w /\ socket[w].attached /\ socket[w].owner = began
        /\ began \in StreamIds /\ w # NoSocket
        /\ socket[w].phase \in {"connecting", "open", "closing"}
    BY <1>1, HeldLemma
  <1>3. CASE SchedulesRetry(began)
    BY <1>2, <1>3, SchedulesRetryLemma DEF IsOpen
  <1>4. CASE stream' = [stream EXCEPT ![began].deadline = FALSE] /\ UNCHANGED <<socket, began, made>>
    <2> DEFINE x == [stream[began] EXCEPT !.deadline = FALSE]
    <2>1. /\ x \in StreamRecords /\ x.socket = w /\ ~x.closed /\ ~x.retry
          /\ x.state = stream[began].state /\ x.health = stream[began].health
      BY <1>2 DEF StreamRecords
    <2>2. stream' = [stream EXCEPT ![began] = x]
      BY <1>4
    <2>3. stream[began].state = "live" => stream[began].health
      BY <1>2 DEF StreamInv, StreamsAreSound, StreamIsSound
    <2> HIDE DEF x
    <2>4. socket[w] \in SocketRecords /\ socket' = [socket EXCEPT ![w] = socket[w]]
      BY <1>4 DEF StreamInv, StreamTypeOK
    <2> QED BY <1>1, <1>2, <1>4, <2>1, <2>2, <2>3, <2>4, StaysTogether
  <1> QED BY <1>1, <1>3, <1>4 DEF SocketHears

LEMMA SocketClosesInv ==
  ASSUME StreamInv, NEW w \in SocketIds, SocketCloses(w)
  PROVE  StreamInv'
  <1>1. Held(w)
    BY HeededIsHeld DEF SocketCloses
  <1>2. /\ stream[began] \in StreamRecords /\ ~stream[began].closed /\ ~stream[began].retry
        /\ stream[began].socket = w /\ socket[w].attached /\ socket[w].owner = began
        /\ began \in StreamIds
    BY <1>1, HeldLemma
  <1>3. stream[began].state = "live" => stream[began].health
    BY <1>2 DEF StreamInv, StreamsAreSound, StreamIsSound
  <1> DEFINE y == [socket[w] EXCEPT !.phase = "closing"]
  <1>4. y \in SocketRecords /\ y.owner = began /\ y.attached /\ y.phase = "closing"
    BY <1>2 DEF StreamInv, StreamTypeOK, SocketRecords
  <1>5. socket' = [socket EXCEPT ![w] = y] /\ UNCHANGED <<stream, began, made>>
    BY DEF SocketCloses, Phase
  <1>6. stream' = [stream EXCEPT ![began] = stream[began]]
    BY <1>2, <1>5 DEF StreamInv, StreamTypeOK
  <1> HIDE DEF y
  <1> QED BY <1>1, <1>2, <1>3, <1>4, <1>5, <1>6, StaysTogether

\* A websocket that nobody holds ends.
LEMMA LooseSocketEnds ==
  ASSUME StreamInv, NEW w \in SocketIds, ~socket[w].attached, socket[w].phase = "closing",
         socket' = Phase(w, "closed"), UNCHANGED <<stream, began, made>>
  PROVE  StreamInv'
  <1>1. /\ socket' \in [SocketIds -> SocketRecords]
        /\ \A v \in SocketIds : v # w => socket'[v] = socket[v]
        /\ ~socket'[w].attached /\ socket'[w].phase = "closed"
    BY PhaseLemma DEF StreamInv
  <1>2. StreamTypeOK'
    BY <1>1 DEF StreamInv, StreamTypeOK
  <1>3. SocketsAreHeld'
    <2> SUFFICES ASSUME NEW v \in SocketIds,
                        socket'[v].attached \/ socket'[v].phase \in {"connecting", "open"}
                 PROVE  Held(v)'
      BY DEF SocketsAreHeld
    <2>1. v # w
      BY <1>1
    <2> QED BY <1>1, <2>1 DEF Held, StreamInv, SocketsAreHeld
  <1>4. StreamsAreSound'
    <2> SUFFICES ASSUME NEW q \in StreamIds PROVE StreamIsSound(q)'
      BY DEF StreamsAreSound
    <2>1. StreamIsSound(q) /\ stream[q].socket \in SocketIds \cup {NoSocket}
      BY DEF StreamInv, StreamTypeOK, StreamsAreSound, StreamRecords
    <2>2. stream[q].socket # w
      BY <2>1 DEF StreamIsSound, Holds, SocketIds, NoSocket
    <2> QED BY <1>1, <2>1, <2>2 DEF StreamIsSound, Holds
  <1>5. Unmade'
    BY <1>1, NotMadeIsIdle DEF StreamInv, Unmade
  <1> QED BY <1>2, <1>3, <1>4, <1>5 DEF StreamInv

LEMMA SocketEndsInv ==
  ASSUME StreamInv, NEW w \in SocketIds, SocketEnds(w)
  PROVE  StreamInv'
  <1>1. CASE ~Heeded(w)
    BY <1>1, HeededIsHeld, LooseSocketEnds DEF SocketEnds
  <1>2. CASE Heeded(w)
    <2>1. Held(w) /\ Owner(w) = began
      BY <1>2, HeededIsHeld
    <2>2. stream[began] \in StreamRecords /\ ~stream[began].closed
      BY <2>1, HeldLemma
    <2> DEFINE y == [socket[w] EXCEPT !.phase = "closed", !.attached = FALSE]
    <2>3. y \in SocketRecords /\ ~y.attached /\ y.phase = "closed"
      BY DEF StreamInv, StreamTypeOK, SocketRecords
    <2>4. /\ stream' = [stream EXCEPT ![began] = Retrying(stream[began])]
          /\ socket' = [socket EXCEPT ![w] = y] /\ UNCHANGED <<began, made>>
      BY <1>2, <2>1 DEF SocketEnds
    <2> HIDE DEF y
    <2>5. LetsGo(socket', w)
      BY <2>3, <2>4 DEF LetsGo, StreamInv, StreamTypeOK
    <2> QED BY <2>1, <2>2, <2>4, <2>5, FailsInv
  <1> QED BY <1>1, <1>2

LEMMA StreamNextInv == StreamInv /\ [StreamNext]_streamVars => StreamInv'
  <1> SUFFICES ASSUME StreamInv, [StreamNext]_streamVars PROVE StreamInv'
    OBVIOUS
  <1>1. CASE OpensStream
    BY <1>1, OpensStreamInv
  <1>2. ASSUME NEW s \in StreamIds,
               ClosesStream(s) \/ RetryFires(s) \/ HealthFires(s) \/ DeadlineFires(s)
        PROVE  StreamInv'
    BY <1>2, ClosesStreamInv, RetryFiresInv, HealthFiresInv, DeadlineFiresInv
  <1>3. ASSUME NEW w \in SocketIds,
               SocketOpens(w) \/ SocketHears(w) \/ SocketCloses(w) \/ SocketEnds(w)
        PROVE  StreamInv'
    BY <1>3, SocketOpensInv, SocketHearsInv, SocketClosesInv, SocketEndsInv
  <1>4. CASE StreamWorkerStops
    <2>1. StreamInit'
      BY <1>4 DEF StreamWorkerStops, StreamInit
    <2> QED BY <2>1, StreamInitInv, PTL
  <1>5. CASE UNCHANGED streamVars
    BY <1>5 DEF streamVars, StreamInv, StreamTypeOK, SocketsAreHeld, Held, StreamsAreSound,
                StreamIsSound, Holds, Unmade
  <1> QED BY <1>1, <1>2, <1>3, <1>4, <1>5 DEF StreamNext

LEMMA StreamInvImplies == StreamInv => OneSocketPerChain /\ AlwaysAWayOn
  <1> SUFFICES ASSUME StreamInv PROVE OneSocketPerChain /\ AlwaysAWayOn
    OBVIOUS
  <1>1. OneSocketPerChain
    <2> SUFFICES ASSUME NEW w \in SocketIds, socket[w].phase \in {"connecting", "open"}
                 PROVE  /\ Owner(w) = Current /\ IsOpen(Owner(w))
                        /\ stream[Owner(w)].socket = w
      BY DEF OneSocketPerChain
    <2>1. Held(w) /\ Owner(w) = began
      BY HeededIsHeld
    <2> QED BY <2>1, HeldLemma DEF Current, IsOpen
  <1>2. AlwaysAWayOn
    <2> SUFFICES ASSUME NEW s \in StreamIds
                 PROVE  LET r == stream[s]
                        IN IF IsOpen(s)
                           THEN /\ r.retry <=> r.socket = NoSocket
                                /\ r.socket # NoSocket => /\ socket[r.socket].attached
                                                          /\ socket[r.socket].phase # "closed"
                                /\ r.state = "live" => r.health
                           ELSE ~(r.retry \/ r.health \/ r.deadline)
      BY DEF AlwaysAWayOn
    <2>1. StreamIsSound(s)
      BY DEF StreamInv, StreamsAreSound
    <2> QED BY <2>1 DEF StreamIsSound, Holds, IsOpen
  <1> QED BY <1>1, <1>2

\* The streams and websockets of a chain have their types.
THEOREM StreamTypesHold == StreamSpec => []StreamTypeOK
  <1>1. StreamInv => StreamTypeOK
    BY DEF StreamInv
  <1> QED BY <1>1, StreamInitInv, StreamNextInv, PTL DEF StreamSpec

\* dropSocket's promise, for any number of streams, sockets and hosts: a chain
\* never has two live websockets, nor one that its open stream does not hold.
THEOREM OneSocketHolds == StreamSpec => []OneSocketPerChain
  BY StreamInitInv, StreamNextInv, StreamInvImplies, PTL DEF StreamSpec

\* Every failure path retries: an open stream is never left without a websocket
\* to hear of or a retry to come, and a closed one has nothing left to fire.
THEOREM AlwaysAWayOnHolds == StreamSpec => []AlwaysAWayOn
  BY StreamInitInv, StreamNextInv, StreamInvImplies, PTL DEF StreamSpec
=============================================================================
