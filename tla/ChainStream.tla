----------------------------- MODULE ChainStream -----------------------------
(***************************************************************************)
(* The streams of one chain (lib/chain-stream.ts): each keeps a websocket   *)
(* open until it is closed, reconnects when the socket fails or goes        *)
(* silent, and moves on to the next host after two failures.  Sockets and   *)
(* timers call back whenever the browser likes, between any two calls of    *)
(* lib/realtime.ts, which opens a stream only when the former is closed.    *)
(***************************************************************************)
EXTENDS Naturals

CONSTANTS MaxHosts,    \* bound: usable RPC hosts of the chain
          MaxStreams,  \* bound: streams opened while the worker runs
          MaxSockets   \* bound: websockets opened while the worker runs

ASSUME StreamBoundsAssumption == MaxHosts \in Nat /\ MaxStreams \in Nat /\ MaxSockets \in Nat

VARIABLES
  stream,  \* each stream: its host, socket and timers
  socket,  \* each websocket: its phase, the stream that opened it, its handlers
  began,   \* streams opened
  made     \* websockets opened

streamVars == <<stream, socket, began, made>>

StreamIds == 1 .. MaxStreams
SocketIds == 1 .. MaxSockets
NoSocket == 0

Fresh(hosts) == [state |-> "connecting", closed |-> FALSE, socket |-> NoSocket, hosts |-> hosts,
                 host |-> 0, failures |-> 0, retry |-> FALSE, health |-> FALSE, deadline |-> FALSE]
NeverOpened == [Fresh(0) EXCEPT !.closed = TRUE]
NotMade == [phase |-> "none", owner |-> 0, attached |-> FALSE]

StreamInit ==
  /\ stream = [s \in StreamIds |-> NeverOpened] /\ began = 0
  /\ socket = [w \in SocketIds |-> NotMade] /\ made = 0

-----------------------------------------------------------------------------
(* What the stream's functions leave behind *)

NoTimers(r) == [r EXCEPT !.retry = FALSE, !.health = FALSE, !.deadline = FALSE]

\* dropSocket: handlers off, then closed.
WithoutSocket(sockets, w) ==
  [x \in SocketIds |-> IF x = w THEN [sockets[x] EXCEPT !.phase = "closing", !.attached = FALSE]
                       ELSE sockets[x]]

FailuresBeforeRotate == 2
\* The next host when this one has failed often enough and there is another.
Rotated(r) ==
  LET failures == IF r.failures < FailuresBeforeRotate THEN r.failures + 1 ELSE r.failures
  IN IF failures >= FailuresBeforeRotate /\ r.hosts > 1
     THEN [r EXCEPT !.host = (r.host + 1) % r.hosts, !.failures = 0]
     ELSE [r EXCEPT !.failures = failures]
Retrying(r) == [Rotated(NoTimers(r)) EXCEPT !.socket = NoSocket, !.state = "retrying",
                                            !.retry = TRUE]

\* Timers cleared after the retry was set.
SchedulesThenClears(s) ==
  /\ stream' = [stream EXCEPT ![s] = NoTimers(Retrying(stream[s]))]
  /\ socket' = WithoutSocket(socket, stream[s].socket)
  /\ UNCHANGED <<began, made>>

\* The socket that failed is left alone.
SchedulesOverSocket(s) ==
  /\ stream' = [stream EXCEPT ![s] = Retrying(stream[s])]
  /\ UNCHANGED <<socket, began, made>>

SchedulesRetry(s) ==
  /\ stream' = [stream EXCEPT ![s] = Retrying(stream[s])]
  /\ socket' = WithoutSocket(socket, stream[s].socket)
  /\ UNCHANGED <<began, made>>

\* connect, for a stream as r: a websocket, a retry when the browser refuses the
\* address, or the end when there is no host.
Connects(s, r) ==
  \/ /\ r.hosts = 0
     /\ stream' = [stream EXCEPT ![s] = [r EXCEPT !.state = "closed", !.closed = TRUE]]
     /\ UNCHANGED <<socket, made>>
  \/ /\ r.hosts > 0 /\ made < MaxSockets
     /\ made' = made + 1
     /\ stream' = [stream EXCEPT ![s] = [r EXCEPT !.state = "connecting", !.socket = made + 1]]
     /\ socket' = [socket EXCEPT ![made + 1] = [phase |-> "connecting", owner |-> s,
                                                attached |-> TRUE]]
  \/ /\ r.hosts > 0
     /\ stream' = [stream EXCEPT ![s] = Retrying(r)]
     /\ UNCHANGED <<socket, made>>

-----------------------------------------------------------------------------
(* lib/realtime.ts *)

Current == began
IsOpen(s) == ~stream[s].closed

OpensStream ==
  /\ began < MaxStreams
  /\ \A s \in StreamIds : ~IsOpen(s)
  /\ began' = began + 1
  /\ \E hosts \in 0 .. MaxHosts : Connects(began + 1, Fresh(hosts))

ClosesStream(s) ==
  /\ IsOpen(s)
  /\ stream' = [stream EXCEPT ![s] =
                  [NoTimers(stream[s]) EXCEPT !.closed = TRUE, !.socket = NoSocket,
                                              !.state = "closed"]]
  /\ socket' = WithoutSocket(socket, stream[s].socket)
  /\ UNCHANGED <<began, made>>

-----------------------------------------------------------------------------
(* Timers *)

RetryFires(s) ==
  /\ stream[s].retry
  /\ IF stream[s].closed
     THEN UNCHANGED <<socket, made>> /\ stream' = [stream EXCEPT ![s].retry = FALSE]
     ELSE Connects(s, [stream[s] EXCEPT !.retry = FALSE])
  /\ UNCHANGED began

\* The probe goes out, and its deadline is set anew; or it cannot be sent.
HealthFires(s) ==
  LET w == stream[s].socket
  IN /\ stream[s].health /\ w # NoSocket
     /\ socket[w].phase = "open"
     /\ \/ /\ stream' = [stream EXCEPT ![s].deadline = TRUE]
           /\ UNCHANGED <<socket, began, made>>
        \/ SchedulesRetry(s)

DeadlineFires(s) ==
  /\ stream[s].deadline
  /\ IF stream[s].closed
     THEN stream' = [stream EXCEPT ![s].deadline = FALSE] /\ UNCHANGED <<socket, began, made>>
     ELSE SchedulesRetry(s)

-----------------------------------------------------------------------------
(* The websocket w *)

Owner(w) == socket[w].owner
\* The handlers' own guard.
Heeded(w) == /\ socket[w].attached
             /\ IsOpen(Owner(w)) /\ stream[Owner(w)].socket = w
Phase(w, phase) == [socket EXCEPT ![w].phase = phase]

WentLive(r) == [r EXCEPT !.state = "live", !.failures = 0, !.health = TRUE]

SocketOpens(w) ==
  /\ socket[w].phase = "connecting"
  /\ \/ /\ Heeded(w)
        /\ stream' = [stream EXCEPT ![Owner(w)] = WentLive(stream[Owner(w)])]
        /\ socket' = Phase(w, "open")
        /\ UNCHANGED <<began, made>>
     \/ /\ Heeded(w)  \* a subscription could not be sent
        /\ stream' = [stream EXCEPT ![Owner(w)] = Retrying([stream[Owner(w)] EXCEPT !.failures = 0])]
        /\ socket' = WithoutSocket(socket, w)
        /\ UNCHANGED <<began, made>>
     \/ /\ ~Heeded(w)
        /\ socket' = Phase(w, "open")
        /\ UNCHANGED <<stream, began, made>>

\* Any frame answers the probe; a refused subscription ends the socket.
SocketHears(w) ==
  /\ socket[w].phase = "open" /\ Heeded(w)
  /\ \/ stream' = [stream EXCEPT ![Owner(w)].deadline = FALSE] /\ UNCHANGED <<socket, began, made>>
     \/ SchedulesRetry(Owner(w))

\* The node or the network closes the socket: the browser says so later.
SocketCloses(w) ==
  /\ socket[w].phase \in {"connecting", "open"}
  /\ socket' = Phase(w, "closing")
  /\ UNCHANGED <<stream, began, made>>

\* onerror or onclose
SocketEnds(w) ==
  /\ socket[w].phase = "closing"
  /\ IF Heeded(w)
     THEN /\ stream' = [stream EXCEPT ![Owner(w)] = Retrying(stream[Owner(w)])]
          /\ socket' = [socket EXCEPT ![w] = [socket[w] EXCEPT !.phase = "closed", !.attached = FALSE]]
     ELSE socket' = Phase(w, "closed") /\ UNCHANGED stream
  /\ UNCHANGED <<began, made>>

\* The worker takes its timers and sockets with it.
StreamWorkerStops ==
  /\ stream' = [s \in StreamIds |-> NeverOpened] /\ began' = 0
  /\ socket' = [w \in SocketIds |-> NotMade] /\ made' = 0

StreamNext ==
  \/ OpensStream
  \/ \E s \in StreamIds : ClosesStream(s) \/ RetryFires(s) \/ HealthFires(s) \/ DeadlineFires(s)
  \/ \E w \in SocketIds : SocketOpens(w) \/ SocketHears(w) \/ SocketCloses(w) \/ SocketEnds(w)
  \/ StreamWorkerStops

StreamSpec == StreamInit /\ [][StreamNext]_streamVars

-----------------------------------------------------------------------------
(* Properties *)

StreamRecords ==
  [state : {"connecting", "live", "retrying", "closed"}, closed : BOOLEAN,
   socket : SocketIds \cup {NoSocket}, hosts : 0 .. MaxHosts, host : Nat,
   failures : 0 .. FailuresBeforeRotate, retry : BOOLEAN, health : BOOLEAN, deadline : BOOLEAN]
SocketRecords ==
  [phase : {"none", "connecting", "open", "closing", "closed"},
   owner : StreamIds \cup {0}, attached : BOOLEAN]

StreamTypeOK ==
  /\ stream \in [StreamIds -> StreamRecords]
  /\ socket \in [SocketIds -> SocketRecords]
  /\ began \in 0 .. MaxStreams /\ made \in 0 .. MaxSockets

(* dropSocket's comment warns of "two live sockets per chain": every          *)
(* websocket that is connecting or open is the one its chain's open stream    *)
(* holds, through failures, retries, closes and reopens in any order.         *)
OneSocketPerChain ==
  \A w \in SocketIds : socket[w].phase \in {"connecting", "open"} =>
    /\ Owner(w) = Current /\ IsOpen(Owner(w))
    /\ stream[Owner(w)].socket = w

(* "Every failure path retries": an open stream either holds a socket the     *)
(* browser will still call back on or has a retry set, never both, and is     *)
(* probed while it says it is live; a closed one has nothing left to fire.    *)
AlwaysAWayOn ==
  \A s \in StreamIds :
    LET r == stream[s]
    IN IF IsOpen(s)
       THEN /\ r.retry <=> r.socket = NoSocket
            /\ r.socket # NoSocket => /\ socket[r.socket].attached
                                      /\ socket[r.socket].phase # "closed"
            /\ r.state = "live" => r.health
       ELSE ~(r.retry \/ r.health \/ r.deadline)
=============================================================================
