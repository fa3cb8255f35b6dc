---------------------------- MODULE ServerProofs ----------------------------
(* For any number of peers, connections and limits: the server's tables keep *)
(* their type, an open session stays reachable at its address, what is       *)
(* counted is given back exactly once, and the limits hold.                  *)
EXTENDS Server, FiniteSetTheorems, TLAPS

(* What holds of the tables while the listener serves UDP; TypeOK, with the  *)
(* addresses typed, is all it takes to make this inductive.                  *)
Handshaking ==
    \A a \in Addrs : udp_handshakes[a] # NoStream =>
        stage[udp_handshakes[a]] \in InHandshake /\ addr[udp_handshakes[a]] = a

InSession ==
    \A a \in Addrs : udp_sessions[a] # NoStream =>
        stage[udp_sessions[a]] = "session" /\ addr[udp_sessions[a]] = a

Reachable ==
    \A s \in Streams : stage[s] = "session" /\ ~closed[s] => udp_sessions[addr[s]] = s

Typed == TypeOK /\ addr \in [Streams -> Addrs \union {NoAddr}]

Tables == (protocol = "udp" /\ serving) => Handshaking /\ InSession /\ Reachable

LEMMA StreamsAreNotNone == NoStream \notin Streams
  BY ServerAssumption DEF NoStream

(* Where a used stream comes from. *)
LEMMA AddressOfUsed ==
    ASSUME Typed, NEW s \in Streams, stage[s] # "unused"
    PROVE  addr[s] \in Addrs /\ IpOfStream(s) \in Ips
  BY ServerAssumption DEF Typed, TypeOK, IpOfStream

LEMMA DecrementTyped ==
    ASSUME NEW n \in Nat, NEW count \in [Ips -> 0 .. n], NEW i \in Ips
    PROVE  Decrement(count, i) \in [Ips -> 0 .. n]
<1>1. (IF count[i] > 0 THEN count[i] - 1 ELSE 0) \in 0 .. n
  OBVIOUS
<1>2. QED
  BY <1>1 DEF Decrement

LEMMA RecordTyped ==
    ASSUME Typed, NEW i \in Ips, Record(i)
    PROVE  /\ fails' \in [Ips -> Nat]
           /\ lockout' \in [Ips -> {"no", "active", "expired"}]
  BY DEF Typed, TypeOK, Record

LEMMA ForgetTyped ==
    ASSUME NEW table \in [Addrs -> Streams \union {NoStream}], NEW s
    PROVE  Forget(table, s) \in [Addrs -> Streams \union {NoStream}]
  BY DEF Forget

(* The finally block, whatever led to it. *)
LEMMA FinallyTyped ==
    ASSUME Typed, NEW s \in Streams, stage[s] # "unused", Finally(s),
           fails' \in [Ips -> Nat], lockout' \in [Ips -> {"no", "active", "expired"}]
    PROVE  Typed'
<1>1. /\ udp_handshakes' \in [Addrs -> Streams \union {NoStream}]
      /\ udp_sessions' \in [Addrs -> Streams \union {NoStream}]
  BY ForgetTyped DEF Typed, TypeOK, Finally, GiveBack
<1>2. in_progress' \in [Ips -> 0 .. Slots] /\ tcp_connections' \in [Ips -> 0 .. MaxPerIp]
  <2>1. IpOfStream(s) \in Ips /\ Slots \in Nat /\ MaxPerIp \in Nat
    BY AddressOfUsed, ServerAssumption
  <2>2. /\ Decrement(in_progress, IpOfStream(s)) \in [Ips -> 0 .. Slots]
        /\ Decrement(tcp_connections, IpOfStream(s)) \in [Ips -> 0 .. MaxPerIp]
    BY <2>1, DecrementTyped DEF Typed, TypeOK
  <2>3. QED
    BY <2>2 DEF Typed, TypeOK, Finally, GiveBack
<1>3. /\ stage' \in [Streams -> Stages]
      /\ closed' \in [Streams -> BOOLEAN]
      /\ watchdog' \in [Streams -> {"none", "sleeping", "notifying", "cancelled", "gone"}]
      /\ \A t \in Streams : stage'[t] # "unused" => addr'[t] \in Addrs
  BY DEF Typed, TypeOK, Finally, Close, Stages
<1>4. UNCHANGED <<protocol, serving, addr>>
  BY DEF Finally
<1>5. QED
  BY <1>1, <1>2, <1>3, <1>4 DEF Typed, TypeOK

LEMMA InitTyped == Init => Typed
  BY ServerAssumption DEF Init, Typed, TypeOK, Stages, NoStream

LEMMA StepTyped == Typed /\ [Next]_vars => Typed'
<1> SUFFICES ASSUME Typed, [Next]_vars PROVE Typed'
  OBVIOUS
<1> USE ServerAssumption
<1>1. ASSUME NEW s \in Streams, NEW a \in Addrs, Hello(s, a) PROVE Typed'
  <2>1. in_progress' \in [Ips -> 0 .. Slots]
    BY <1>1 DEF Hello, MayBegin, Typed, TypeOK
  <2>2. QED
    BY <1>1, <2>1 DEF Hello, Typed, TypeOK, Stages, failures
<1>2. ASSUME NEW s \in Streams, NEW a \in Addrs, Connect(s, a) PROVE Typed'
  <2>1. tcp_connections' \in [Ips -> 0 .. MaxPerIp]
    BY <1>2 DEF Connect, TcpFull, Typed, TypeOK
  <2>2. QED
    BY <1>2, <2>1 DEF Connect, Typed, TypeOK, Stages, failures
<1>3. ASSUME NEW s \in Streams, Begin(s) PROVE Typed'
  BY <1>3 DEF Begin, Typed, TypeOK, Stages, tables, failures
<1>4. ASSUME NEW s \in Streams, Acquire(s) PROVE Typed'
  <2>1. CASE Finally(s)
    BY <1>4, <2>1, FinallyTyped DEF Acquire, failures, Typed, TypeOK
  <2>2. CASE ~Finally(s)
    BY <1>4, <2>2 DEF Acquire, Typed, TypeOK, Stages, tables, failures
  <2>3. QED
    BY <2>1, <2>2
<1>5. ASSUME NEW s \in Streams, Establish(s) PROVE Typed'
  <2>1. addr[s] \in Addrs /\ IpOfStream(s) \in Ips
    BY <1>5, AddressOfUsed DEF Establish
  <2>2. fails' \in [Ips -> Nat] /\ lockout' \in [Ips -> {"no", "active", "expired"}]
    BY <1>5 DEF Establish, ForgetFailures, Typed, TypeOK
  <2>3. /\ in_progress' \in [Ips -> 0 .. Slots]
        /\ tcp_connections' \in [Ips -> 0 .. MaxPerIp]
    BY <1>5, <2>1, DecrementTyped DEF Establish, Replace, Typed, TypeOK, tables
  <2>4. /\ udp_handshakes' \in [Addrs -> Streams \union {NoStream}]
        /\ udp_sessions' \in [Addrs -> Streams \union {NoStream}]
        /\ closed' \in [Streams -> BOOLEAN]
    <3>1. CASE protocol = "tcp"
      BY <1>5, <3>1 DEF Establish, Typed, TypeOK, tables
    <3>2. CASE protocol = "udp" /\ Replace(s)
      BY <1>5, <3>2 DEF Establish, Replace, Typed, TypeOK
    <3>3. QED
      BY <1>5, <3>1, <3>2 DEF Establish
  <2>5. /\ stage' \in [Streams -> Stages]
        /\ watchdog' \in [Streams -> {"none", "sleeping", "notifying", "cancelled", "gone"}]
        /\ \A t \in Streams : stage'[t] # "unused" => addr'[t] \in Addrs
        /\ UNCHANGED <<protocol, serving, addr>>
    BY <1>5, <2>1 DEF Establish, Typed, TypeOK, Stages
  <2>6. QED
    BY <2>2, <2>3, <2>4, <2>5 DEF Typed, TypeOK
<1>6. ASSUME NEW s \in Streams, Ends(s) PROVE Typed'
  <2>1. CASE HandshakeFails(s) \/ HandshakeTimeout(s) \/ HandlerTimesOut(s)
    <3>1. stage[s] # "unused" /\ Record(IpOfStream(s)) /\ Finally(s)
      BY <2>1 DEF HandshakeFails, HandshakeTimeout, HandlerTimesOut
    <3>2. QED
      BY <3>1, AddressOfUsed, RecordTyped, FinallyTyped
  <2>2. CASE HandshakeLost(s) \/ HandlerEnds(s) \/ Cancelled(s)
    <3>1. stage[s] # "unused" /\ Finally(s) /\ UNCHANGED failures
      BY <2>2 DEF HandshakeLost, HandlerEnds, Cancelled, CancelReaches
    <3>2. QED
      BY <3>1, FinallyTyped DEF failures, Typed, TypeOK
  <2>3. CASE Reject(s)
    <3>1. fails' \in [Ips -> Nat] /\ lockout' \in [Ips -> {"no", "active", "expired"}]
      BY <2>3 DEF Reject, ForgetFailures, Typed, TypeOK
    <3>2. QED
      BY <2>3, <3>1, FinallyTyped DEF Reject
  <2>4. CASE FinallyClose(s)
    BY <2>4 DEF FinallyClose, Close, Typed, TypeOK, Stages, tables, failures
  <2>5. QED
    BY <1>6, <2>1, <2>2, <2>3, <2>4 DEF Ends
<1>7. ASSUME NEW s \in Streams, WatchdogFires(s) \/ WatchdogCloses(s) PROVE Typed'
  BY <1>7 DEF WatchdogFires, WatchdogCloses, Close, Typed, TypeOK, tables, failures
<1>8. ASSUME NEW i \in Ips, LockoutExpires(i) PROVE Typed'
  BY <1>8 DEF LockoutExpires, Typed, TypeOK, tables
<1>9. ASSUME Stop PROVE Typed'
  BY <1>9 DEF Stop, Typed, TypeOK, Stages, failures
<1>10. ASSUME UNCHANGED vars PROVE Typed'
  BY <1>10 DEF vars, Typed, TypeOK, tables, failures
<1>11. QED
  BY <1>1, <1>2, <1>3, <1>4, <1>5, <1>6, <1>7, <1>8, <1>9, <1>10 DEF Next

(* Every counter, table and stage of the server keeps its type; in           *)
(* particular no IP ever holds more than its handshake slots, nor more TCP   *)
(* connections than its limit, whatever the order in which connections       *)
(* begin, fail, time out, are replaced or cancelled.                         *)
THEOREM TypeCorrect == Spec => []TypeOK
<1>1. Typed => TypeOK
  BY DEF Typed
<1>2. QED
  BY <1>1, InitTyped, StepTyped, PTL DEF Spec

-----------------------------------------------------------------------------

(* The task that ends takes its own entries with it, and no other.  A task   *)
(* of a replaced session finds its address taken and leaves it alone.        *)
LEMMA FinallyTables ==
    ASSUME Typed, Tables, NEW s \in Streams, stage[s] # "unused", Finally(s)
    PROVE  Tables'
<1> SUFFICES ASSUME protocol = "udp", serving, Handshaking, InSession, Reachable
             PROVE  Handshaking' /\ InSession' /\ Reachable'
  BY DEF Finally, Tables
<1>1. addr[s] \in Addrs
  BY AddressOfUsed
<1>2. /\ udp_handshakes' = Forget(udp_handshakes, s)
      /\ udp_sessions' = Forget(udp_sessions, s)
      /\ addr' = addr
      /\ \A t \in Streams : closed[t] => closed'[t]
  BY DEF Finally, GiveBack, Close, Typed, TypeOK
<1>3. stage'[s] \in {"closing", "done"} /\ \A t \in Streams \ {s} : stage'[t] = stage[t]
  BY DEF Finally, Typed, TypeOK
<1>4. Handshaking'
  <2> SUFFICES ASSUME NEW a \in Addrs, udp_handshakes'[a] # NoStream
               PROVE  stage'[udp_handshakes'[a]] \in InHandshake /\ addr[udp_handshakes'[a]] = a
    BY <1>2 DEF Handshaking
  <2>1. udp_handshakes'[a] = udp_handshakes[a] /\ udp_handshakes[a] \in Streams \ {s}
    BY <1>1, <1>2 DEF Forget, Handshaking, Typed, TypeOK
  <2>2. QED
    BY <1>3, <2>1 DEF Handshaking
<1>5. InSession'
  <2> SUFFICES ASSUME NEW a \in Addrs, udp_sessions'[a] # NoStream
               PROVE  stage'[udp_sessions'[a]] = "session" /\ addr[udp_sessions'[a]] = a
    BY <1>2 DEF InSession
  <2>1. udp_sessions'[a] = udp_sessions[a] /\ udp_sessions[a] \in Streams \ {s}
    BY <1>1, <1>2 DEF Forget, InSession, Typed, TypeOK
  <2>2. QED
    BY <1>3, <2>1 DEF InSession
<1>6. Reachable'
  <2> SUFFICES ASSUME NEW t \in Streams, stage'[t] = "session", ~closed'[t]
               PROVE  udp_sessions'[addr[t]] = t
    BY <1>2 DEF Reachable
  <2>1. t # s /\ stage[t] = "session" /\ ~closed[t]
    BY <1>2, <1>3
  <2>2. udp_sessions[addr[t]] = t /\ addr[t] \in Addrs
    BY <2>1, AddressOfUsed DEF Reachable
  <2>3. QED
    BY <1>1, <1>2, <2>1, <2>2 DEF Forget, Typed, TypeOK
<1>7. QED
  BY <1>4, <1>5, <1>6

(* A step that leaves the tables alone and moves no task into or out of a    *)
(* handshake or a session; streams may close.                                *)
LEMMA QuietTables ==
    ASSUME Typed, Tables, UNCHANGED <<protocol, addr, udp_handshakes, udp_sessions>>,
           serving' => serving,
           \A t \in Streams : closed[t] => closed'[t],
           \A t \in Streams : /\ stage[t] \in InHandshake => stage'[t] \in InHandshake
                              /\ stage'[t] = "session" <=> stage[t] = "session"
    PROVE  Tables'
<1> SUFFICES ASSUME protocol = "udp", serving, Handshaking, InSession, Reachable
             PROVE  Handshaking' /\ InSession' /\ Reachable'
  BY DEF Tables
<1>1. Handshaking'
  BY DEF Handshaking, Typed, TypeOK
<1>2. InSession'
  BY DEF InSession, Typed, TypeOK
<1>3. Reachable'
  BY DEF Reachable
<1>4. QED
  BY <1>1, <1>2, <1>3

LEMMA HelloTables ==
    ASSUME Typed, Tables, NEW s \in Streams, NEW a \in Addrs, Hello(s, a)
    PROVE  Tables'
<1> SUFFICES ASSUME protocol = "udp", serving, Handshaking, InSession, Reachable
             PROVE  Handshaking' /\ InSession' /\ Reachable'
  BY DEF Hello, Tables
<1>1. /\ stage[s] = "unused"
      /\ stage' = [stage EXCEPT ![s] = "created"]
      /\ addr' = [addr EXCEPT ![s] = a]
      /\ udp_handshakes' = [udp_handshakes EXCEPT ![a] = s]
      /\ UNCHANGED <<udp_sessions, closed>>
  BY DEF Hello, New
<1>2. Handshaking'
  <2> SUFFICES ASSUME NEW b \in Addrs, udp_handshakes'[b] # NoStream
               PROVE  stage'[udp_handshakes'[b]] \in InHandshake /\ addr'[udp_handshakes'[b]] = b
    BY DEF Handshaking
  <2>1. CASE b = a
    BY <1>1, <2>1 DEF InHandshake, Typed, TypeOK
  <2>2. CASE b # a
    <3>1. udp_handshakes'[b] = udp_handshakes[b] /\ udp_handshakes[b] \in Streams
      BY <1>1, <2>2 DEF Typed, TypeOK
    <3>2. stage[udp_handshakes[b]] \in InHandshake /\ addr[udp_handshakes[b]] = b
      BY <3>1 DEF Handshaking
    <3>3. udp_handshakes[b] # s
      BY <1>1, <3>2 DEF InHandshake
    <3>4. QED
      BY <1>1, <3>1, <3>2, <3>3 DEF Typed, TypeOK
  <2>3. QED
    BY <2>1, <2>2
<1>3. InSession'
  BY <1>1 DEF InSession, Typed, TypeOK
<1>4. Reachable'
  BY <1>1 DEF Reachable, Typed, TypeOK
<1>5. QED
  BY <1>2, <1>3, <1>4

(* The new session takes its address, and the stream of the old one closes.  *)
LEMMA EstablishTables ==
    ASSUME Typed, Tables, NEW s \in Streams, Establish(s)
    PROVE  Tables'
<1> SUFFICES ASSUME protocol = "udp", serving, Handshaking, InSession, Reachable
             PROVE  Handshaking' /\ InSession' /\ Reachable'
  BY DEF Establish, Tables
<1>1. /\ stage[s] = "handshaking"
      /\ stage' = [stage EXCEPT ![s] = "session"]
      /\ addr' = addr
      /\ udp_handshakes' = [udp_handshakes EXCEPT ![addr[s]] = NoStream]
      /\ udp_sessions' = [udp_sessions EXCEPT ![addr[s]] = s]
      /\ closed' = [t \in Streams |-> closed[t] \/ t = udp_sessions[addr[s]]]
  BY DEF Establish, Replace
<1>2. addr[s] \in Addrs
  BY <1>1, AddressOfUsed
<1>3. Handshaking'
  <2> SUFFICES ASSUME NEW b \in Addrs, udp_handshakes'[b] # NoStream
               PROVE  stage'[udp_handshakes'[b]] \in InHandshake /\ addr'[udp_handshakes'[b]] = b
    BY DEF Handshaking
  <2>1. b # addr[s] /\ udp_handshakes'[b] = udp_handshakes[b] /\ udp_handshakes[b] \in Streams
    BY <1>1, <1>2 DEF Typed, TypeOK
  <2>2. stage[udp_handshakes[b]] \in InHandshake /\ addr[udp_handshakes[b]] = b
    BY <2>1 DEF Handshaking
  <2>3. QED
    BY <1>1, <2>1, <2>2 DEF Typed, TypeOK
<1>4. InSession'
  <2> SUFFICES ASSUME NEW b \in Addrs, udp_sessions'[b] # NoStream
               PROVE  stage'[udp_sessions'[b]] = "session" /\ addr'[udp_sessions'[b]] = b
    BY DEF InSession
  <2>1. CASE b = addr[s]
    BY <1>1, <2>1 DEF Typed, TypeOK
  <2>2. CASE b # addr[s]
    BY <1>1, <2>2 DEF InSession, Typed, TypeOK
  <2>3. QED
    BY <2>1, <2>2
<1>5. Reachable'
  <2> SUFFICES ASSUME NEW t \in Streams, stage'[t] = "session", ~closed'[t]
               PROVE  udp_sessions'[addr[t]] = t
    BY <1>1 DEF Reachable
  <2>1. CASE t = s
    BY <1>1, <1>2, <2>1 DEF Typed, TypeOK
  <2>2. CASE t # s
    <3>1. udp_sessions[addr[t]] = t /\ t # udp_sessions[addr[s]]
      BY <1>1, <2>2 DEF Reachable, Typed, TypeOK
    <3>2. QED
      BY <1>1, <3>1 DEF Typed, TypeOK
  <2>3. QED
    BY <2>1, <2>2
<1>6. QED
  BY <1>3, <1>4, <1>5

LEMMA StepTables == Typed /\ Tables /\ [Next]_vars => Tables'
<1> SUFFICES ASSUME Typed, Tables, [Next]_vars PROVE Tables'
  OBVIOUS
<1>1. ASSUME NEW s \in Streams, NEW a \in Addrs, Connect(s, a) PROVE Tables'
  BY <1>1 DEF Connect, Tables
<1>2. ASSUME NEW s \in Streams, Begin(s) PROVE Tables'
  BY <1>2, QuietTables DEF Begin, InHandshake, tables, Typed, TypeOK
<1>3. ASSUME NEW s \in Streams, Acquire(s) PROVE Tables'
  <2>1. CASE Finally(s)
    BY <1>3, <2>1, FinallyTables DEF Acquire
  <2>2. CASE ~Finally(s)
    BY <1>3, <2>2, QuietTables DEF Acquire, InHandshake, tables, Typed, TypeOK
  <2>3. QED
    BY <2>1, <2>2
<1>4. ASSUME NEW s \in Streams, Ends(s) PROVE Tables'
  <2>1. CASE FinallyClose(s)
    BY <2>1, QuietTables DEF FinallyClose, Close, InHandshake, tables, Typed, TypeOK
  <2>2. CASE ~FinallyClose(s)
    <3>1. stage[s] # "unused" /\ Finally(s)
      BY <1>4, <2>2 DEF Ends, HandshakeFails, HandshakeLost, HandshakeTimeout, Reject,
                        HandlerEnds, HandlerTimesOut, Cancelled, CancelReaches
    <3>2. QED
      BY <3>1, FinallyTables
  <2>3. QED
    BY <2>1, <2>2
<1>5. ASSUME NEW s \in Streams, WatchdogFires(s) \/ WatchdogCloses(s) PROVE Tables'
  BY <1>5, QuietTables DEF WatchdogFires, WatchdogCloses, Close, tables, Typed, TypeOK
<1>6. ASSUME NEW i \in Ips, LockoutExpires(i) PROVE Tables'
  BY <1>6, QuietTables DEF LockoutExpires, tables
<1>7. ASSUME Stop PROVE Tables'
  BY <1>7 DEF Stop, Tables
<1>8. ASSUME UNCHANGED vars PROVE Tables'
  BY <1>8, QuietTables DEF vars, tables
<1>9. QED
  BY <1>1, <1>2, <1>3, <1>4, <1>5, <1>6, <1>7, <1>8, HelloTables, EstablishTables DEF Next

(* Whatever connects, fails, is replaced, falls silent or ends in any order: *)
(* an open session stands in the table under its address, and what stands in *)
(* a table is a live task of that address (_server.py:246-252, 319-322).     *)
THEOREM SessionsReachable == Spec => []OpenSessionsReachable
<1>1. Init => Tables
  BY DEF Init, Tables, Handshaking, InSession, Reachable
<1>2. Tables => OpenSessionsReachable
  BY DEF Tables, Handshaking, InSession, Reachable, OpenSessionsReachable, Registered
<1>3. QED
  BY <1>1, <1>2, InitTyped, StepTyped, StepTables, PTL DEF Spec

-----------------------------------------------------------------------------

(* How the tasks that are counted change when one of them moves on.          *)
LEMMA TasksFinite ==
    ASSUME NEW i, NEW stages PROVE IsFiniteSet(Tasks(i, stages))
  BY ServerAssumption, FS_Subset DEF Tasks

LEMMA TaskJoins ==
    ASSUME Typed, SlotsBalanced, serving, NEW s \in Streams, NEW a \in Addrs,
           UNCHANGED protocol, stage[s] = "unused", stage'[s] \in InHandshake,
           \A t \in Streams \ {s} : stage'[t] = stage[t],
           addr' = [addr EXCEPT ![s] = a],
           \A i \in Ips : Count(i)' = IF i = IpOf[a] THEN Count(i) + 1 ELSE Count(i)
    PROVE  SlotsBalanced'
<1> SUFFICES ASSUME NEW i \in Ips PROVE Count(i)' = Cardinality(Tasks(i, Counted)')
  BY DEF SlotsBalanced
<1> DEFINE T == Tasks(i, Counted)
<1>1. IsFiniteSet(T) /\ s \notin T
  BY TasksFinite DEF Tasks, Counted, InHandshake
<1>2. \A t \in Streams : t \in T' <=> t \in T \/ (t = s /\ i = IpOf[a])
  <2>1. s \in T' <=> i = IpOf[a]
    BY DEF Tasks, Counted, IpOfStream, Typed, TypeOK
  <2>2. \A t \in Streams \ {s} : t \in T' <=> t \in T
    BY DEF Tasks, Counted, IpOfStream, Typed, TypeOK
  <2>3. QED
    BY <1>1, <2>1, <2>2
<1>3. T' = IF i = IpOf[a] THEN T \union {s} ELSE T
  BY <1>2 DEF Tasks
<1>4. Cardinality(T \union {s}) = Cardinality(T) + 1
  BY <1>1, FS_AddElement
<1>5. QED
  BY <1>3, <1>4 DEF SlotsBalanced

(* A counted task that leaves gives its slot back. *)
LEMMA TaskLeaves ==
    ASSUME Typed, SlotsBalanced, serving, NEW s \in Streams,
           UNCHANGED <<protocol, addr>>, stage[s] \in Counted, stage'[s] \notin Counted,
           \A t \in Streams \ {s} : stage'[t] = stage[t],
           \A i \in Ips : Count(i)' = IF i = IpOfStream(s) /\ Count(i) > 0
                                      THEN Count(i) - 1
                                      ELSE IF i = IpOfStream(s) THEN 0 ELSE Count(i)
    PROVE  SlotsBalanced'
<1> SUFFICES ASSUME NEW i \in Ips PROVE Count(i)' = Cardinality(Tasks(i, Counted)')
  BY DEF SlotsBalanced
<1> DEFINE T == Tasks(i, Counted)
<1>1. IsFiniteSet(T) /\ Cardinality(T) \in Nat /\ Count(i) = Cardinality(T)
  BY TasksFinite, FS_CardinalityType DEF SlotsBalanced
<1>2. T' = IF i = IpOfStream(s) THEN T \ {s} ELSE T
  BY DEF Tasks, Counted, IpOfStream, Typed, TypeOK
<1>3. CASE i = IpOfStream(s)
  <2>1. s \in T
    BY <1>3 DEF Tasks
  <2>2. Cardinality(T \ {s}) = Cardinality(T) - 1 /\ Cardinality(T) # 0
    BY <1>1, <2>1, FS_RemoveElement, FS_EmptySet
  <2>3. QED
    BY <1>1, <1>2, <1>3, <2>2
<1>4. CASE i # IpOfStream(s)
  BY <1>1, <1>2, <1>4
<1>5. QED
  BY <1>3, <1>4

LEMMA TaskStays ==
    ASSUME Typed, SlotsBalanced, UNCHANGED <<protocol, addr>>, serving' => serving,
           \A t \in Streams : stage'[t] \in Counted <=> stage[t] \in Counted,
           \A i \in Ips : Count(i)' = Count(i)
    PROVE  SlotsBalanced'
<1> SUFFICES ASSUME serving, NEW i \in Ips
             PROVE  Count(i)' = Cardinality(Tasks(i, Counted)')
  BY DEF SlotsBalanced
<1>1. Tasks(i, Counted)' = Tasks(i, Counted)
  BY DEF Tasks, Counted, IpOfStream
<1>2. QED
  BY <1>1 DEF SlotsBalanced

LEMMA FinallyBalanced ==
    ASSUME Typed, SlotsBalanced, NEW s \in Streams,
           stage[s] \in InHandshake \union {"session"}, Finally(s)
    PROVE  SlotsBalanced'
<1> SUFFICES ASSUME serving PROVE SlotsBalanced'
  BY DEF Finally, SlotsBalanced
<1>1. /\ stage'[s] \in {"closing", "done"}
      /\ \A t \in Streams \ {s} : stage'[t] = stage[t]
      /\ UNCHANGED <<protocol, addr>>
  BY DEF Finally, Typed, TypeOK
<1>2. IpOfStream(s) \in Ips
  BY AddressOfUsed DEF InHandshake
<1>3. CASE stage[s] \in Counted
  <2>1. \A i \in Ips : Count(i)' = IF i = IpOfStream(s) /\ Count(i) > 0
                                   THEN Count(i) - 1
                                   ELSE IF i = IpOfStream(s) THEN 0 ELSE Count(i)
    BY <1>1, <1>2, <1>3 DEF Finally, GiveBack, Decrement, Count, Counted, Typed, TypeOK
  <2>2. stage'[s] \notin Counted
    BY <1>1 DEF Counted, InHandshake
  <2>3. QED
    BY <1>1, <1>3, <2>1, <2>2, TaskLeaves
<1>4. CASE stage[s] \notin Counted
  <2>1. \A i \in Ips : Count(i)' = Count(i)
    BY <1>1, <1>4 DEF Finally, GiveBack, Count, Counted
  <2>2. \A t \in Streams : stage'[t] \in Counted <=> stage[t] \in Counted
    BY <1>1, <1>4 DEF Counted, InHandshake
  <2>3. QED
    BY <1>1, <2>1, <2>2, TaskStays DEF Finally
<1>5. QED
  BY <1>3, <1>4

LEMMA StepBalanced == Typed /\ SlotsBalanced /\ [Next]_vars => SlotsBalanced'
<1> SUFFICES ASSUME Typed, SlotsBalanced, [Next]_vars PROVE SlotsBalanced'
  OBVIOUS
<1>1. ASSUME NEW s \in Streams, NEW a \in Addrs, Hello(s, a) PROVE SlotsBalanced'
  <2>1. /\ stage[s] = "unused" /\ stage'[s] \in InHandshake
        /\ \A t \in Streams \ {s} : stage'[t] = stage[t]
    BY <1>1 DEF Hello, New, InHandshake, Typed, TypeOK
  <2>2. \A i \in Ips : Count(i)' = IF i = IpOf[a] THEN Count(i) + 1 ELSE Count(i)
    BY <1>1, ServerAssumption DEF Hello, Count, Typed, TypeOK
  <2>3. QED
    BY <1>1, <2>1, <2>2, TaskJoins DEF Hello
<1>2. ASSUME NEW s \in Streams, NEW a \in Addrs, Connect(s, a) PROVE SlotsBalanced'
  <2>1. CASE stage' = [stage EXCEPT ![s] = "queued"]
    <3>1. /\ stage[s] = "unused" /\ stage'[s] \in InHandshake
          /\ \A t \in Streams \ {s} : stage'[t] = stage[t]
      BY <1>2, <2>1 DEF Connect, New, InHandshake, Typed, TypeOK
    <3>2. stage' # [stage EXCEPT ![s] = "done"]
      BY <2>1 DEF Typed, TypeOK
    <3>3. tcp_connections' = [tcp_connections EXCEPT ![IpOf[a]] = @ + 1]
      BY <1>2, <3>2 DEF Connect
    <3>4. \A i \in Ips : Count(i)' = IF i = IpOf[a] THEN Count(i) + 1 ELSE Count(i)
      BY <1>2, <3>3, ServerAssumption DEF Connect, Count, Typed, TypeOK
    <3>5. QED
      BY <1>2, <3>1, <3>4, TaskJoins DEF Connect
  <2>2. CASE stage' = [stage EXCEPT ![s] = "done"] /\ UNCHANGED tcp_connections
    <3> SUFFICES ASSUME NEW i \in Ips PROVE Count(i)' = Cardinality(Tasks(i, Counted)')
      BY <1>2 DEF SlotsBalanced
    <3>1. Tasks(i, Counted)' = Tasks(i, Counted)
      BY <1>2, <2>2 DEF Connect, New, Tasks, Counted, InHandshake, IpOfStream, Typed, TypeOK
    <3>2. QED
      BY <1>2, <2>2, <3>1 DEF Connect, SlotsBalanced, Count
  <2>3. QED
    BY <1>2, <2>1, <2>2 DEF Connect
<1>3. ASSUME NEW s \in Streams, Begin(s) PROVE SlotsBalanced'
  BY <1>3, TaskStays DEF Begin, Counted, InHandshake, Count, tables, Typed, TypeOK
<1>4. ASSUME NEW s \in Streams, Acquire(s) PROVE SlotsBalanced'
  <2>1. CASE Finally(s)
    BY <1>4, <2>1, FinallyBalanced DEF Acquire, InHandshake
  <2>2. CASE ~Finally(s)
    BY <1>4, <2>2, TaskStays DEF Acquire, Counted, InHandshake, Count, tables, Typed, TypeOK
  <2>3. QED
    BY <2>1, <2>2
<1>5. ASSUME NEW s \in Streams, Establish(s) PROVE SlotsBalanced'
  <2>1. CASE protocol = "tcp"
    BY <1>5, <2>1, TaskStays DEF Establish, Counted, InHandshake, Count, tables, Typed, TypeOK
  <2>2. CASE protocol = "udp"
    <3>1. /\ stage[s] \in Counted /\ stage'[s] \notin Counted
          /\ \A t \in Streams \ {s} : stage'[t] = stage[t]
          /\ UNCHANGED <<protocol, addr>> /\ serving
      BY <1>5, <2>2 DEF Establish, Counted, InHandshake, Typed, TypeOK
    <3>2. \A i \in Ips : Count(i)' = IF i = IpOfStream(s) /\ Count(i) > 0
                                     THEN Count(i) - 1
                                     ELSE IF i = IpOfStream(s) THEN 0 ELSE Count(i)
      BY <1>5, <2>2 DEF Establish, Decrement, Count, Typed, TypeOK
    <3>3. QED
      BY <3>1, <3>2, TaskLeaves
  <2>3. QED
    BY <2>1, <2>2 DEF Typed, TypeOK
<1>6. ASSUME NEW s \in Streams, Ends(s) PROVE SlotsBalanced'
  <2>1. CASE FinallyClose(s)
    BY <2>1, TaskStays DEF FinallyClose, Counted, InHandshake, Count, tables, Typed, TypeOK
  <2>2. CASE ~FinallyClose(s)
    <3>1. stage[s] \in InHandshake \union {"session"} /\ Finally(s)
      BY <1>6, <2>2 DEF Ends, HandshakeFails, HandshakeLost, HandshakeTimeout, Reject,
                        HandlerEnds, HandlerTimesOut, Cancelled, CancelReaches, InHandshake
    <3>2. QED
      BY <3>1, FinallyBalanced
  <2>3. QED
    BY <2>1, <2>2
<1>7. ASSUME NEW s \in Streams, WatchdogFires(s) \/ WatchdogCloses(s) PROVE SlotsBalanced'
  BY <1>7, TaskStays DEF WatchdogFires, WatchdogCloses, Counted, Count, tables
<1>8. ASSUME NEW i \in Ips, LockoutExpires(i) PROVE SlotsBalanced'
  BY <1>8, TaskStays DEF LockoutExpires, Counted, Count, tables
<1>9. ASSUME Stop PROVE SlotsBalanced'
  BY <1>9 DEF Stop, SlotsBalanced
<1>10. ASSUME UNCHANGED vars PROVE SlotsBalanced'
  BY <1>10, TaskStays DEF vars, Counted, Count, tables
<1>11. QED
  BY <1>1, <1>2, <1>3, <1>4, <1>5, <1>6, <1>7, <1>8, <1>9, <1>10 DEF Next

(* A handshake over UDP holds one slot of its IP and a TCP connection one of *)
(* its own, from its first moment to its last, whatever ends it: nothing is  *)
(* given back twice or kept (_server.py:204-222, 302-318; udp.py:466).       *)
THEOREM NothingLeaks == Spec => []SlotsBalanced
<1>1. Init => SlotsBalanced
  <2> SUFFICES ASSUME Init, NEW i \in Ips PROVE Count(i) = Cardinality(Tasks(i, Counted))
    BY DEF SlotsBalanced
  <2>1. Tasks(i, Counted) = {}
    BY DEF Init, Tasks, Counted, InHandshake
  <2>2. QED
    BY <2>1, FS_EmptySet DEF Init, Count
<1>2. QED
  BY <1>1, InitTyped, StepTyped, StepBalanced, PTL DEF Spec

-----------------------------------------------------------------------------

(* The limits, of tables that are finite whatever the addresses.             *)
Limited ==
    /\ IsFiniteSet(Registered(udp_sessions)) /\ IsFiniteSet(TcpConnections)
    /\ LimitsHold

LEMMA Limits == MaxConnections \in Nat \ {0} /\ MaxPerIp \in Nat \ {0} /\ Slots \in Nat \ {0}
  BY ServerAssumption

LEMMA IsConnection ==
    ASSUME NEW c
    PROVE  c \in TcpConnections <=> \E i \in Ips : \E n \in 1 .. tcp_connections[i] : c = <<i, n>>
  BY DEF TcpConnections

(* Nothing is registered or counted that was not before.                     *)
LEMMA FewerKeepLimits ==
    ASSUME Limited, \A a \in Addrs : udp_sessions'[a] # NoStream => udp_sessions[a] # NoStream,
           tcp_connections \in [Ips -> Nat], tcp_connections' \in [Ips -> Nat],
           \A i \in Ips : tcp_connections'[i] <= tcp_connections[i]
    PROVE  Limited'
<1>1. Registered(udp_sessions)' \subseteq Registered(udp_sessions)
  BY DEF Registered
<1>2. ASSUME NEW i \in Ips
      PROVE  /\ FromIp(udp_sessions, i)' \subseteq FromIp(udp_sessions, i)
             /\ FromIp(udp_sessions, i) \subseteq Registered(udp_sessions)
  BY DEF FromIp, Registered
<1>3. TcpConnections' \subseteq TcpConnections
  <2> SUFFICES ASSUME NEW c \in TcpConnections' PROVE c \in TcpConnections
    OBVIOUS
  <2>1. PICK i \in Ips : \E n \in 1 .. tcp_connections'[i] : c = <<i, n>>
    BY DEF TcpConnections
  <2>2. PICK n \in 1 .. tcp_connections'[i] : c = <<i, n>>
    BY <2>1
  <2>3. n \in 1 .. tcp_connections[i]
    BY <2>2
  <2>4. QED
    BY <2>2, <2>3, IsConnection
<1>4. /\ IsFiniteSet(Registered(udp_sessions)')
      /\ Cardinality(Registered(udp_sessions)') <= Cardinality(Registered(udp_sessions))
  BY <1>1, FS_Subset DEF Limited
<1>5. IsFiniteSet(TcpConnections') /\ Cardinality(TcpConnections') <= Cardinality(TcpConnections)
  BY <1>3, FS_Subset DEF Limited
<1>6. ASSUME NEW i \in Ips PROVE Cardinality(FromIp(udp_sessions, i)') <= MaxPerIp
  <2>1. IsFiniteSet(FromIp(udp_sessions, i))
    BY <1>2, FS_Subset DEF Limited
  <2>2. /\ Cardinality(FromIp(udp_sessions, i)') <= Cardinality(FromIp(udp_sessions, i))
        /\ IsFiniteSet(FromIp(udp_sessions, i)')
    BY <1>2, <2>1, FS_Subset
  <2>3. Cardinality(FromIp(udp_sessions, i)) \in Nat /\ Cardinality(FromIp(udp_sessions, i)') \in Nat
    BY <2>1, <2>2, FS_CardinalityType
  <2>4. QED
    BY <2>2, <2>3, Limits DEF Limited, LimitsHold
<1>7. /\ Cardinality(Registered(udp_sessions)) \in Nat /\ Cardinality(Registered(udp_sessions)') \in Nat
      /\ Cardinality(TcpConnections) \in Nat /\ Cardinality(TcpConnections') \in Nat
  BY <1>4, <1>5, FS_CardinalityType DEF Limited
<1>8. QED
  BY <1>4, <1>5, <1>6, <1>7, Limits DEF Limited, LimitsHold

LEMMA OneMore ==
    ASSUME NEW S, NEW x, IsFiniteSet(S), NEW n \in Nat, ~(Cardinality(S) >= n)
    PROVE  IsFiniteSet(S \cup {x}) /\ Cardinality(S \cup {x}) <= n
<1>1. IsFiniteSet(S \cup {x}) /\ Cardinality(S \cup {x}) \in {Cardinality(S), Cardinality(S) + 1}
  BY FS_AddElement
<1>2. Cardinality(S) \in Nat
  BY FS_CardinalityType
<1>3. QED
  BY <1>1, <1>2

(* A session more, where there is room for one.                              *)
LEMMA RegisteredKeepsLimits ==
    ASSUME Typed, Limited, NEW s \in Streams, NEW a \in Addrs, ~UdpFull(IpOf[a]),
           udp_sessions' = [udp_sessions EXCEPT ![a] = s], UNCHANGED tcp_connections
    PROVE  Limited'
<1>1. Registered(udp_sessions)' = Registered(udp_sessions) \cup {a}
  BY StreamsAreNotNone DEF Registered, Typed, TypeOK
<1>2. /\ IsFiniteSet(Registered(udp_sessions)')
      /\ Cardinality(Registered(udp_sessions)') <= MaxConnections
  <2>1. ~(Cardinality(Registered(udp_sessions)) >= MaxConnections)
    BY DEF UdpFull
  <2>2. IsFiniteSet(Registered(udp_sessions)) /\ MaxConnections \in Nat
    BY Limits DEF Limited
  <2>3. QED
    BY <1>1, <2>1, <2>2, OneMore
<1>3. ASSUME NEW i \in Ips PROVE Cardinality(FromIp(udp_sessions, i)') <= MaxPerIp
  <2>1. FromIp(udp_sessions, i)' = IF IpOf[a] = i THEN FromIp(udp_sessions, i) \cup {a}
                                   ELSE FromIp(udp_sessions, i)
    BY <1>1 DEF FromIp
  <2>2. FromIp(udp_sessions, i) \subseteq Registered(udp_sessions)
    BY DEF FromIp
  <2>3. IsFiniteSet(FromIp(udp_sessions, i))
    BY <2>2, FS_Subset DEF Limited
  <2>4. MaxPerIp \in Nat
    BY Limits
  <2>5. CASE IpOf[a] = i
    <3>1. ~(Cardinality(FromIp(udp_sessions, i)) >= MaxPerIp)
      BY <2>5 DEF UdpFull
    <3>2. QED
      BY <2>1, <2>3, <2>4, <2>5, <3>1, OneMore
  <2>6. QED
    BY <2>1, <2>5 DEF Limited, LimitsHold
<1>4. TcpConnections' = TcpConnections
  BY DEF TcpConnections
<1>5. QED
  BY <1>2, <1>3, <1>4 DEF Limited, LimitsHold

(* A TCP connection more, where there is room for one.                       *)
LEMMA AcceptedKeepsLimits ==
    ASSUME Typed, Limited, NEW i \in Ips, ~TcpFull(i),
           tcp_connections' = [tcp_connections EXCEPT ![i] = @ + 1], UNCHANGED udp_sessions
    PROVE  Limited'
<1>1. PICK n \in Nat : n = tcp_connections[i] + 1
  BY Limits DEF Typed, TypeOK
<1>2. /\ tcp_connections \in [Ips -> Nat] /\ tcp_connections'[i] = n /\ tcp_connections[i] = n - 1
      /\ \A j \in Ips : j # i => tcp_connections'[j] = tcp_connections[j]
  BY <1>1, Limits DEF Typed, TypeOK
<1>3. TcpConnections' = TcpConnections \cup {<<i, n>>}
  <2>1. ASSUME NEW c \in TcpConnections' PROVE c \in TcpConnections \cup {<<i, n>>}
    <3>1. PICK j \in Ips : \E m \in 1 .. tcp_connections'[j] : c = <<j, m>>
      BY DEF TcpConnections
    <3>2. PICK m \in 1 .. tcp_connections'[j] : c = <<j, m>>
      BY <3>1
    <3>3. CASE j = i /\ m = n
      BY <3>2, <3>3
    <3>4. CASE ~(j = i /\ m = n)
      <4>1. m \in 1 .. tcp_connections[j]
        BY <1>2, <3>4
      <4>2. QED
        BY <3>2, <4>1, IsConnection
    <3>5. QED
      BY <3>3, <3>4
  <2>2. ASSUME NEW c \in TcpConnections PROVE c \in TcpConnections'
    <3>1. PICK j \in Ips : \E m \in 1 .. tcp_connections[j] : c = <<j, m>>
      BY IsConnection
    <3>2. PICK m \in 1 .. tcp_connections[j] : c = <<j, m>>
      BY <3>1
    <3>3. m \in 1 .. tcp_connections'[j]
      BY <1>2
    <3>4. QED
      BY <3>2, <3>3 DEF TcpConnections
  <2>3. <<i, n>> \in TcpConnections'
    <3>1. n \in 1 .. tcp_connections'[i]
      BY <1>1, <1>2
    <3>2. QED
      BY <3>1 DEF TcpConnections
  <2>4. QED
    BY <2>1, <2>2, <2>3
<1>4. IsFiniteSet(TcpConnections') /\ Cardinality(TcpConnections') <= MaxConnections
  <2>1. ~(Cardinality(TcpConnections) >= MaxConnections)
    BY DEF TcpFull
  <2>2. IsFiniteSet(TcpConnections) /\ MaxConnections \in Nat
    BY Limits DEF Limited
  <2>3. QED
    BY <1>3, <2>1, <2>2, OneMore
<1>5. Registered(udp_sessions)' = Registered(udp_sessions)
  BY DEF Registered
<1>6. ASSUME NEW j \in Ips PROVE FromIp(udp_sessions, j)' = FromIp(udp_sessions, j)
  BY <1>5 DEF FromIp
<1>7. QED
  BY <1>4, <1>5, <1>6 DEF Limited, LimitsHold

LEMMA FinallyLimited ==
    ASSUME Typed, Limited, NEW s \in Streams, stage[s] # "unused", Finally(s)
    PROVE  Limited'
<1>1. tcp_connections \in [Ips -> Nat] /\ IpOfStream(s) \in Ips
  BY Limits, AddressOfUsed DEF Typed, TypeOK
<1>2. /\ Decrement(tcp_connections, IpOfStream(s)) \in [Ips -> Nat]
      /\ \A i \in Ips : Decrement(tcp_connections, IpOfStream(s))[i] <= tcp_connections[i]
  BY <1>1 DEF Decrement
<1>3. \A a \in Addrs : Forget(udp_sessions, s)[a] # NoStream => udp_sessions[a] # NoStream
  BY DEF Forget, Typed, TypeOK
<1>4. /\ udp_sessions' \in {udp_sessions, Forget(udp_sessions, s)}
      /\ tcp_connections' \in {tcp_connections, Decrement(tcp_connections, IpOfStream(s))}
  BY DEF Finally, GiveBack
<1>5. QED
  BY <1>1, <1>2, <1>3, <1>4, FewerKeepLimits

LEMMA StepLimited == Typed /\ Limited /\ [Next]_vars => Limited'
<1> SUFFICES ASSUME Typed, Limited, [Next]_vars PROVE Limited'
  OBVIOUS
<1>1. tcp_connections \in [Ips -> Nat]
  BY Limits DEF Typed, TypeOK
<1>2. CASE UNCHANGED <<udp_sessions, tcp_connections>>
  BY <1>1, <1>2, FewerKeepLimits
<1>3. ASSUME NEW s \in Streams, NEW a \in Addrs, Hello(s, a) PROVE Limited'
  BY <1>2, <1>3 DEF Hello
<1>4. ASSUME NEW s \in Streams, NEW a \in Addrs, Connect(s, a) PROVE Limited'
  <2>1. IpOf[a] \in Ips
    BY ServerAssumption
  <2>2. CASE ~TcpFull(IpOf[a]) /\ tcp_connections' = [tcp_connections EXCEPT ![IpOf[a]] = @ + 1]
    BY <1>4, <2>1, <2>2, AcceptedKeepsLimits DEF Connect
  <2>3. QED
    BY <1>2, <1>4, <2>2 DEF Connect
<1>5. ASSUME NEW s \in Streams, Establish(s) PROVE Limited'
  <2>1. addr[s] \in Addrs /\ IpOfStream(s) = IpOf[addr[s]]
    BY <1>5, AddressOfUsed DEF Establish, IpOfStream
  <2>2. CASE protocol = "udp"
    BY <1>5, <2>1, <2>2, RegisteredKeepsLimits DEF Establish, Replace
  <2>3. QED
    BY <1>2, <1>5, <2>2 DEF Establish, tables
<1>6. ASSUME NEW s \in Streams, stage[s] # "unused", Finally(s) PROVE Limited'
  BY <1>6, FinallyLimited
<1>7. ASSUME NEW s \in Streams, Ends(s) PROVE Limited'
  <2>1. CASE FinallyClose(s)
    BY <1>2, <2>1 DEF FinallyClose, tables
  <2>2. QED
    BY <1>6, <1>7, <2>1 DEF Ends, HandshakeFails, HandshakeLost, HandshakeTimeout, Reject,
                            HandlerEnds, HandlerTimesOut, Cancelled, CancelReaches
<1>8. ASSUME NEW s \in Streams, Acquire(s) PROVE Limited'
  BY <1>2, <1>6, <1>8 DEF Acquire, tables
<1>9. ASSUME NEW s \in Streams, Begin(s) \/ WatchdogFires(s) \/ WatchdogCloses(s) PROVE Limited'
  BY <1>2, <1>9 DEF Begin, WatchdogFires, WatchdogCloses, tables
<1>10. ASSUME Stop PROVE Limited'
  <2>1. \A a \in Addrs : udp_sessions'[a] # NoStream => udp_sessions[a] # NoStream
    BY <1>10 DEF Stop
  <2>2. tcp_connections' = tcp_connections
    BY <1>10 DEF Stop
  <2>3. QED
    BY <1>1, <2>1, <2>2, FewerKeepLimits
<1>11. ASSUME NEW i \in Ips, LockoutExpires(i) PROVE Limited'
  BY <1>2, <1>11 DEF LockoutExpires, tables
<1>12. CASE UNCHANGED vars
  BY <1>2, <1>12 DEF vars, tables
<1>13. QED
  BY <1>3, <1>4, <1>5, <1>7, <1>8, <1>9, <1>10, <1>11, <1>12 DEF Next

LEMMA InitLimited == Init => Limited
<1> SUFFICES ASSUME Init PROVE Limited
  OBVIOUS
<1>1. Registered(udp_sessions) = {} /\ \A i \in Ips : FromIp(udp_sessions, i) = {}
  BY DEF Init, Registered, FromIp
<1>2. TcpConnections = {}
  <2>1. ASSUME NEW c \in TcpConnections PROVE FALSE
    <3>1. PICK i \in Ips : \E n \in 1 .. tcp_connections[i] : c = <<i, n>>
      BY IsConnection
    <3>2. PICK n \in 1 .. tcp_connections[i] : c = <<i, n>>
      BY <3>1
    <3>3. QED
      BY <3>2 DEF Init
  <2>2. QED
    BY <2>1
<1>3. QED
  BY <1>1, <1>2, FS_EmptySet, Limits DEF Limited, LimitsHold

(* The limits on sessions and on TCP connections hold although a handshake   *)
(* lies between the check of a HELLO and the registration of its session     *)
(* (_server.py:176-202, 225-245; CHANGELOG.md:138).                          *)
THEOREM NoLimitExceeded == Spec => []LimitsHold
<1>1. Limited => LimitsHold
  BY DEF Limited
<1>2. QED
  BY <1>1, InitTyped, StepTyped, InitLimited, StepLimited, PTL DEF Spec
=============================================================================
