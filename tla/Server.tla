------------------------------- MODULE Server -------------------------------
(* The Python server (_server.py) with the tables its listener keeps         *)
(* (transport/udp.py, transport/tcp.py): who is in a handshake, who has a    *)
(* session, what is counted against which limit, and how all of it is given  *)
(* back when a connection ends, however it ends.                             *)
(*                                                                           *)
(* A stream stands for one accepted connection and the task that runs        *)
(* _on_transport_connect for it.  An action is the code between two awaits.  *)
(* What the frames of a handshake say is decided elsewhere: here it succeeds,*)
(* fails, loses its peer or times out.                                       *)
EXTENDS Naturals, FiniteSets

CONSTANTS
    Ips, Addrs, IpOf,         \* peer addresses and the IP of each
    NoAddr,
    Streams,                  \* 1 .. n, the connections accepted during a run
    MaxConnections,           \* max_connections
    MaxPerIp,                 \* max_connections_per_ip
    Slots,                    \* concurrent UDP handshakes per IP, 3 in the code
    Permits,                  \* _handshake_semaphore, 10 in the code
    FreeFailures              \* failures before the first lockout, 4 in the code

ASSUME ServerAssumption ==
    /\ IpOf \in [Addrs -> Ips] /\ NoAddr \notin Addrs
    /\ {MaxConnections, MaxPerIp, Slots, Permits, FreeFailures} \subseteq Nat \ {0}
    /\ Streams \subseteq Nat \ {0} /\ IsFiniteSet(Streams)

VARIABLES
    protocol,                 \* "tcp" or "udp", for the whole run
    serving,                  \* the listener accepts; FALSE once stop() began
    stage,                    \* where the task of each stream is
    addr,                     \* the peer of each stream
    closed,                   \* the stream is closed
    watchdog,                 \* the watchdog task of each stream's session
    udp_handshakes, udp_sessions,       \* the stream registered for an address
    in_progress,              \* _udp_in_progress_handshakes
    tcp_connections,          \* _tcp_connections
    fails, lockout            \* _failed_handshakes: the count, and the lockout

tables == <<udp_handshakes, udp_sessions, in_progress, tcp_connections>>
failures == <<fails, lockout>>
vars == <<protocol, serving, stage, addr, closed, watchdog, tables, failures>>

NoStream == 0

Init ==
    /\ protocol \in {"tcp", "udp"}
    /\ serving = TRUE
    /\ stage = [s \in Streams |-> "unused"]
    /\ addr = [s \in Streams |-> NoAddr]
    /\ closed = [s \in Streams |-> FALSE]
    /\ watchdog = [s \in Streams |-> "none"]
    /\ udp_handshakes = [a \in Addrs |-> NoStream]
    /\ udp_sessions = [a \in Addrs |-> NoStream]
    /\ in_progress = [i \in Ips |-> 0]
    /\ tcp_connections = [i \in Ips |-> 0]
    /\ fails = [i \in Ips |-> 0]
    /\ lockout = [i \in Ips |-> "no"]

IpOfStream(s) == IpOf[addr[s]]
Registered(table) == {a \in Addrs : table[a] # NoStream}
FromIp(table, i) == {a \in Registered(table) : IpOf[a] = i}

(* The streams are taken in order. *)
New(s) == stage[s] = "unused" /\ \A t \in Streams : t < s => stage[t] # "unused"

-----------------------------------------------------------------------------
(* The failure table of _handshake.py                                        *)

(* record_failed_handshake: one failure more, a lockout after enough of      *)
(* them; entries whose lockout has expired, and any that were idle for long, *)
(* are pruned.                                                               *)
Record(i) ==
    \E idle \in SUBSET (Ips \ {i}) :
        LET kept == {i} \union {j \in Ips \ idle : lockout[j] # "expired"}
        IN  /\ fails' = [j \in Ips |-> IF j = i THEN fails[i] + 1
                                       ELSE IF j \in kept THEN fails[j] ELSE 0]
            /\ lockout' = [j \in Ips |-> IF j = i
                                         THEN IF fails[i] >= FreeFailures THEN "active" ELSE "no"
                                         ELSE IF j \in kept THEN lockout[j] ELSE "no"]

LockoutExpires(i) ==
    /\ lockout[i] = "active"
    /\ lockout' = [lockout EXCEPT ![i] = "expired"]
    /\ UNCHANGED <<protocol, serving, stage, addr, closed, watchdog, tables, fails>>

-----------------------------------------------------------------------------
(* Accepting                                                                 *)

(* What _handle_udp_datagram asks of a HELLO with a good cookie. *)
MayBegin(a) ==
    /\ udp_handshakes[a] = NoStream
    /\ lockout[IpOf[a]] # "active"
    /\ in_progress[IpOf[a]] < Slots
    /\ Cardinality(Registered(udp_handshakes)) < 2 * MaxConnections

(* A HELLO, of a new client or the delayed duplicate of an old one.          *)
Hello(s, a) ==
    /\ protocol = "udp" /\ serving /\ New(s)
    /\ MayBegin(a)
    /\ addr' = [addr EXCEPT ![s] = a]
    /\ stage' = [stage EXCEPT ![s] = "created"]
    /\ udp_handshakes' = [udp_handshakes EXCEPT ![a] = s]
    /\ in_progress' = [in_progress EXCEPT ![IpOf[a]] = @ + 1]
    /\ UNCHANGED <<protocol, serving, closed, watchdog, udp_sessions, tcp_connections, failures>>

(* The task created for it runs for the first time. *)
Begin(s) ==
    /\ serving /\ stage[s] = "created"
    /\ stage' = [stage EXCEPT ![s] = "queued"]
    /\ UNCHANGED <<protocol, serving, addr, closed, watchdog, tables, failures>>

(* The connections of all IPs: as many as the counters add up to.            *)
TcpConnections == UNION {{i} \X (1 .. tcp_connections[i]) : i \in Ips}

(* The two limits of a TCP server. *)
TcpFull(i) ==
    \/ Cardinality(TcpConnections) >= MaxConnections
    \/ tcp_connections[i] >= MaxPerIp

(* A TCP connection is accepted, or turned away before anything is counted.  *)
Connect(s, a) ==
    /\ protocol = "tcp" /\ serving /\ New(s)
    /\ addr' = [addr EXCEPT ![s] = a]
    /\ \/ /\ TcpFull(IpOf[a])
          /\ stage' = [stage EXCEPT ![s] = "done"]
          /\ closed' = [closed EXCEPT ![s] = TRUE]
          /\ UNCHANGED tcp_connections
       \/ /\ ~TcpFull(IpOf[a])
          /\ stage' = [stage EXCEPT ![s] = "queued"]
          /\ tcp_connections' = [tcp_connections EXCEPT ![IpOf[a]] = @ + 1]
          /\ UNCHANGED closed
    /\ UNCHANGED <<protocol, serving, watchdog, udp_handshakes, udp_sessions, in_progress,
                   failures>>

-----------------------------------------------------------------------------
(* The end of a task: the finally block of _on_transport_connect             *)

InHandshake == {"created", "queued", "handshaking"}

Decrement(count, i) == [count EXCEPT ![i] = IF @ > 0 THEN @ - 1 ELSE 0]

(* Whatever stands under the address goes (mutant). *)
ForgetAddr(table, s) == [table EXCEPT ![addr[s]] = NoStream]

(* The entry of s, and only if it still is its own. *)
Forget(table, s) == IF table[addr[s]] = s THEN [table EXCEPT ![addr[s]] = NoStream] ELSE table

(* The slot of the handshake given back a second time (mutant). *)
GiveBackTwice(s) ==
    IF protocol = "tcp"
    THEN /\ tcp_connections' = Decrement(tcp_connections, IpOfStream(s))
         /\ UNCHANGED <<udp_handshakes, udp_sessions, in_progress>>
    ELSE /\ in_progress' = Decrement(in_progress, IpOfStream(s))
         /\ udp_handshakes' = Forget(udp_handshakes, s)
         /\ udp_sessions' = Forget(udp_sessions, s)
         /\ UNCHANGED tcp_connections

GiveBack(s) ==
    IF protocol = "tcp"
    THEN /\ tcp_connections' = Decrement(tcp_connections, IpOfStream(s))
         /\ UNCHANGED <<udp_handshakes, udp_sessions, in_progress>>
    ELSE /\ in_progress' = IF stage[s] \in InHandshake
                           THEN Decrement(in_progress, IpOfStream(s))
                           ELSE in_progress
         /\ udp_handshakes' = Forget(udp_handshakes, s)
         /\ udp_sessions' = Forget(udp_sessions, s)
         /\ UNCHANGED tcp_connections

Close(s) == closed' = [closed EXCEPT ![s] = TRUE]

(* Everything counted is given back; then a watchdog that still runs is      *)
(* cancelled and waited for, and the transport closed.                       *)
Finally(s) ==
    /\ GiveBack(s)
    /\ IF watchdog[s] \in {"sleeping", "notifying"}
       THEN /\ stage' = [stage EXCEPT ![s] = "closing"]
            /\ watchdog' = [watchdog EXCEPT ![s] = "cancelled"]
            /\ UNCHANGED closed
       ELSE /\ stage' = [stage EXCEPT ![s] = "done"]
            /\ Close(s)
            /\ UNCHANGED watchdog
    /\ UNCHANGED <<protocol, serving, addr>>

(* The cancelled watchdog is gone. *)
FinallyClose(s) ==
    /\ stage[s] = "closing"
    /\ stage' = [stage EXCEPT ![s] = "done"]
    /\ watchdog' = [watchdog EXCEPT ![s] = "gone"]
    /\ Close(s)
    /\ UNCHANGED <<protocol, serving, addr, tables, failures>>

-----------------------------------------------------------------------------
(* The handshake                                                             *)

Running == {s \in Streams : stage[s] = "handshaking"}

(* The semaphore admits the task.  An address locked out meanwhile is        *)
(* refused before the try block, and nothing is recorded.                    *)
Acquire(s) ==
    /\ serving /\ stage[s] = "queued"
    /\ Cardinality(Running) < Permits
    /\ \/ /\ lockout[IpOfStream(s)] # "active"
          /\ stage' = [stage EXCEPT ![s] = "handshaking"]
          /\ UNCHANGED <<protocol, serving, addr, closed, watchdog, tables>>
       \/ /\ lockout[IpOfStream(s)] = "active"
          /\ Finally(s)
    /\ UNCHANGED failures

(* A HandshakeError or AuthError: server_handshake records it.  A frame of   *)
(* the session that the address still has is one way to get here.            *)
HandshakeFails(s) ==
    /\ serving /\ stage[s] = "handshaking"
    /\ Record(IpOfStream(s))
    /\ Finally(s)

(* The peer is gone: OSError, IncompleteReadError.  Not held against it.     *)
HandshakeLost(s) ==
    /\ serving /\ stage[s] = "handshaking"
    /\ Finally(s)
    /\ UNCHANGED failures

(* handshake_timeout, counted from the queue on. *)
HandshakeTimeout(s) ==
    /\ serving /\ stage[s] \in {"queued", "handshaking"}
    /\ Record(IpOfStream(s))
    /\ Finally(s)

ForgetFailures(i) ==
    /\ fails' = [fails EXCEPT ![i] = 0]
    /\ lockout' = [lockout EXCEPT ![i] = "no"]

(* The limit on all sessions off by one (mutant). *)
UdpFullLate(i) ==
    \/ Cardinality(Registered(udp_sessions)) > MaxConnections
    \/ Cardinality(FromIp(udp_sessions, i)) >= MaxPerIp

(* The limits of a UDP server count every registered session, the old one of *)
(* the same address included.                                                *)
UdpFull(i) ==
    \/ Cardinality(Registered(udp_sessions)) >= MaxConnections
    \/ Cardinality(FromIp(udp_sessions, i)) >= MaxPerIp

(* The handshake succeeded and the server is full: SESSION_OK was sent, the  *)
(* stream is closed and the task ends.                                       *)
Reject(s) ==
    /\ serving /\ protocol = "udp" /\ stage[s] = "handshaking"
    /\ UdpFull(IpOfStream(s))
    /\ ForgetFailures(IpOfStream(s))
    /\ Finally(s)

(* The session takes the place of an old one of its address, whose stream is *)
(* closed.                                                                   *)
Replace(s) ==
    LET old == udp_sessions[addr[s]]
    IN  /\ closed' = [t \in Streams |-> closed[t] \/ t = old]
        /\ udp_sessions' = [udp_sessions EXCEPT ![addr[s]] = s]

(* The handshake succeeded: registered, its slot given back, the watchdog    *)
(* started, the handler called.                                              *)
Establish(s) ==
    /\ serving /\ stage[s] = "handshaking"
    /\ ForgetFailures(IpOfStream(s))
    /\ \/ /\ protocol = "tcp"
          /\ UNCHANGED <<tables, closed>>
       \/ /\ protocol = "udp" /\ ~UdpFull(IpOfStream(s))
          /\ in_progress' = Decrement(in_progress, IpOfStream(s))
          /\ udp_handshakes' = [udp_handshakes EXCEPT ![addr[s]] = NoStream]
          /\ Replace(s)
          /\ UNCHANGED tcp_connections
    /\ stage' = [stage EXCEPT ![s] = "session"]
    /\ watchdog' = [watchdog EXCEPT ![s] = "sleeping"]
    /\ UNCHANGED <<protocol, serving, addr>>

-----------------------------------------------------------------------------
(* The session                                                               *)

(* The handler returns or raises, of itself or because its stream is closed. *)
HandlerEnds(s) ==
    /\ serving /\ stage[s] = "session"
    /\ Finally(s)
    /\ UNCHANGED failures

(* A USMPTimeoutError of recv(timeout) leaves the handler: taken for a       *)
(* handshake that timed out.                                                 *)
HandlerTimesOut(s) ==
    /\ serving /\ stage[s] = "session"
    /\ Record(IpOfStream(s))
    /\ Finally(s)

(* The session was silent for too long: on_timeout is called, and when it    *)
(* returns the stream is closed, whatever has arrived meanwhile.             *)
WatchdogFires(s) ==
    /\ watchdog[s] = "sleeping"
    /\ watchdog' = [watchdog EXCEPT ![s] = "notifying"]
    /\ UNCHANGED <<protocol, serving, stage, addr, closed, tables, failures>>

WatchdogCloses(s) ==
    /\ watchdog[s] = "notifying"
    /\ watchdog' = [watchdog EXCEPT ![s] = "gone"]
    /\ Close(s)
    /\ UNCHANGED <<protocol, serving, stage, addr, tables, failures>>

-----------------------------------------------------------------------------
(* stop(): the listener closes every registered stream, empties the tables   *)
(* and cancels the tasks.  A task that never ran is cancelled before its     *)
(* finally block exists.                                                     *)
Stop ==
    /\ serving
    /\ serving' = FALSE
    /\ \/ /\ protocol = "tcp"
          /\ UNCHANGED <<closed, udp_handshakes, udp_sessions>>
       \/ /\ protocol = "udp"
          /\ LET open == {udp_handshakes[a] : a \in Addrs} \union {udp_sessions[a] : a \in Addrs}
             IN  closed' = [s \in Streams |-> closed[s] \/ s \in open]
          /\ udp_handshakes' = [a \in Addrs |-> NoStream]
          /\ udp_sessions' = [a \in Addrs |-> NoStream]
    /\ stage' = [s \in Streams |-> IF stage[s] = "created" THEN "done" ELSE stage[s]]
    /\ UNCHANGED <<protocol, addr, watchdog, in_progress, tcp_connections, failures>>

(* Only tasks that wait for a frame notice (mutant). *)
CancelReachesReaders(s) == stage[s] \in {"handshaking", "session"}

CancelReaches(s) == stage[s] \in {"queued", "handshaking", "session"}

(* The CancelledError arrives: no except clause takes it. *)
Cancelled(s) ==
    /\ ~serving /\ CancelReaches(s)
    /\ Finally(s)
    /\ UNCHANGED failures

-----------------------------------------------------------------------------

Ends(s) ==
    \/ HandshakeFails(s) \/ HandshakeLost(s) \/ HandshakeTimeout(s) \/ Reject(s)
    \/ HandlerEnds(s) \/ HandlerTimesOut(s) \/ Cancelled(s) \/ FinallyClose(s)

Next ==
    \/ \E s \in Streams :
         \/ \E a \in Addrs : Hello(s, a) \/ Connect(s, a)
         \/ Begin(s) \/ Acquire(s) \/ Establish(s) \/ Ends(s)
         \/ WatchdogFires(s) \/ WatchdogCloses(s)
    \/ \E i \in Ips : LockoutExpires(i)
    \/ Stop

Spec == Init /\ [][Next]_vars

(* Tasks that can run do; a handshake does time out; on_timeout returns; a   *)
(* handler whose stream is closed leaves (its next recv or send raises).     *)
Fairness ==
    \A s \in Streams :
        /\ WF_vars(Begin(s))
        /\ WF_vars(HandshakeTimeout(s))
        /\ WF_vars(closed[s] /\ HandlerEnds(s))
        /\ WF_vars(WatchdogCloses(s))
        /\ WF_vars(Cancelled(s) \/ FinallyClose(s))

FairSpec == Spec /\ Fairness

-----------------------------------------------------------------------------

Stages == {"unused", "created", "queued", "handshaking", "session", "closing", "done"}

TypeOK ==
    /\ protocol \in {"tcp", "udp"} /\ serving \in BOOLEAN
    /\ stage \in [Streams -> Stages]
    /\ \A s \in Streams : stage[s] # "unused" => addr[s] \in Addrs
    /\ closed \in [Streams -> BOOLEAN]
    /\ watchdog \in [Streams -> {"none", "sleeping", "notifying", "cancelled", "gone"}]
    /\ udp_handshakes \in [Addrs -> Streams \union {NoStream}]
    /\ udp_sessions \in [Addrs -> Streams \union {NoStream}]
    /\ in_progress \in [Ips -> 0 .. Slots]
    /\ tcp_connections \in [Ips -> 0 .. MaxPerIp]
    /\ fails \in [Ips -> Nat]
    /\ lockout \in [Ips -> {"no", "active", "expired"}]

Tasks(i, stages) == {s \in Streams : stage[s] \in stages /\ IpOfStream(s) = i}
Counted == IF protocol = "udp" THEN InHandshake ELSE InHandshake \union {"session"}
Count(i) == IF protocol = "udp" THEN in_progress[i] ELSE tcp_connections[i]

(* The counters say what is there: a handshake holds exactly one slot of its *)
(* IP, a TCP connection exactly one of its own, from its first to its last   *)
(* moment, whatever ends it (_server.py:204-222, 306-318, udp.py:466).       *)
SlotsBalanced == serving => \A i \in Ips : Count(i) = Cardinality(Tasks(i, Counted))

(* Neither limit on sessions is ever exceeded (CHANGELOG.md:138). *)
LimitsHold ==
    /\ Cardinality(Registered(udp_sessions)) <= MaxConnections
    /\ Cardinality(TcpConnections) <= MaxConnections
    /\ \A i \in Ips : Cardinality(FromIp(udp_sessions, i)) <= MaxPerIp

(* A datagram reaches a live stream: what stands in a table is a task at the *)
(* right stage for that address, and an open session always stands in the    *)
(* table, even when the task of a session it replaced ends after it began    *)
(* (_server.py:246-252, 319-322).                                            *)
OpenSessionsReachable ==
    protocol = "udp" /\ serving =>
        /\ \A a \in Registered(udp_handshakes) :
             stage[udp_handshakes[a]] \in InHandshake /\ addr[udp_handshakes[a]] = a
        /\ \A a \in Registered(udp_sessions) :
             stage[udp_sessions[a]] = "session" /\ addr[udp_sessions[a]] = a
        /\ \A s \in Streams :
             stage[s] = "session" /\ ~closed[s] => udp_sessions[addr[s]] = s

(* A session whose stream is closed, by the watchdog or by the session that  *)
(* replaced it, ends; and once stop() was called every task does.            *)
EveryTaskEnds ==
    \A s \in Streams :
        /\ closed[s] ~> stage[s] = "done"
        /\ (~serving /\ stage[s] # "unused") ~> stage[s] = "done"
=============================================================================
