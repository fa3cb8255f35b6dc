------------------------------ MODULE Limiter ------------------------------
(* The two tables by which the server limits what one IP may ask of it: the  *)
(* token buckets of the UDP cookies (_allow_udp_cookie in _server.py) and    *)
(* the failed handshakes with their lockouts (_failed_handshakes in          *)
(* _handshake.py).  Both are bounded, drop what they need not remember, and  *)
(* when that is not enough the entry touched longest ago.                    *)
(*                                                                           *)
(* Time is counted in ticks, and tokens in units of which one flows in per   *)
(* tick.  A call reads the clock once and runs without an await.             *)
EXTENDS Naturals, FiniteSets, Functions

CONSTANTS
    Ips,
    TableCap,                 \* entries of either table, 1000 in the code
    Capacity, Cost,           \* of a bucket, and of a cookie: ten cookies, one
    FailuresToLock,           \* 5 in the code
    Powers,                   \* 2.0 ** e for the exponents a float can take
    Exponents,                \* how many those are, 1024 in the code
    MaxBackoff,               \* 60 s
    IdleLimit,                \* 600 s
    Slots,                    \* handshakes of one IP at a time, 3 in the code
    MaxSessions, MaxTime      \* bounds of the model

ASSUME LimiterAssumption ==
    /\ IsFiniteSet(Ips)
    /\ TableCap \in Nat \ {0} /\ Slots \in Nat \ {0}
    /\ Cost \in Nat \ {0}
    /\ FailuresToLock \in Nat \ {0} /\ Exponents \in Nat \ {0} /\ MaxBackoff \in Nat \ {0}
    /\ Capacity \in Nat /\ Capacity >= Cost
    /\ IdleLimit \in Nat /\ IdleLimit >= MaxBackoff
    /\ MaxSessions \in Nat /\ MaxTime \in Nat \ {0}
    /\ Powers \in [0 .. Exponents - 1 -> Nat \ {0}]
    /\ \A e, f \in 0 .. Exponents - 1 : e <= f => Powers[e] <= Powers[f]

VARIABLES
    now,                      \* time.monotonic()
    cookies,                  \* _udp_cookie_rate_limiter: ip -> (tokens, last)
    failed,                   \* _failed_handshakes: ip -> (fails, until, last)
    running,                  \* handshakes of each IP past the check of the lockout
    sessions,                 \* its sessions, where the handler may still time out
    spent, forgotten,         \* history: units granted before the bucket was
                              \* evicted; the IPs whose bucket was
    streak,                   \* history: failures since the last success
    count, tried              \* history: failures recorded since anything that
                              \* ends a back-off; when the last one was

vars == <<now, cookies, failed, running, sessions, spent, forgotten, streak, count, tried>>
cookievars == <<cookies, spent, forgotten>>
history == <<streak, count, tried>>
failurevars == <<failed, running, sessions, history>>

(* d[i] = v in Python. *)
Put(d, i, v) == [j \in DOMAIN d \union {i} |-> IF j = i THEN v ELSE d[j]]
Drop(d, S) == Restrict(d, DOMAIN d \ S)
Oldest(d, S) == {k \in S : \A j \in S : d[k].last <= d[j].last}
Empty == [i \in {} |-> 0]

Init ==
    /\ now = 1
    /\ cookies = Empty /\ failed = Empty
    /\ running = [i \in Ips |-> 0] /\ sessions = [i \in Ips |-> 0]
    /\ spent = [i \in Ips |-> 0] /\ forgotten = {}
    /\ streak = [i \in Ips |-> 0] /\ count = [i \in Ips |-> 0] /\ tried = [i \in Ips |-> 0]

-----------------------------------------------------------------------------
(* _allow_udp_cookie                                                         *)

(* What the entry is worth now: it is refilled lazily. *)
Refilled(d, i) ==
    LET tokens == d[i].tokens + (now - d[i].last)
    IN  IF tokens < Capacity THEN tokens ELSE Capacity

Tokens(i) == IF i \in DOMAIN cookies THEN Refilled(cookies, i) ELSE Capacity

RefuseCookie(i) ==
    /\ Tokens(i) < Cost
    /\ cookies' = Put(cookies, i, [tokens |-> Tokens(i), last |-> now])
    /\ UNCHANGED <<now, failurevars, spent, forgotten>>

(* All that has been idle for a tick is dropped (mutant). *)
NotFullIfRecent(d) == {j \in DOMAIN d : d[j].last = now}

(* The entries worth keeping. *)
NotFull(d) == {j \in DOMAIN d : Refilled(d, j) < Capacity}

(* Over the cap, full buckets are dropped; of what is left the oldest, never *)
(* the one just added: the sort is stable and it stands last in the table.   *)
Evictable(d, i, old) ==
    LET active == NotFull(d)
    IN  /\ old \subseteq active \ {i}
        /\ Cardinality(active \ old) = TableCap
        /\ \A k \in old, j \in active \ old : d[k].last <= d[j].last

GrantCookie(i) ==
    LET d == Put(cookies, i, [tokens |-> Tokens(i) - Cost, last |-> now])
    IN  /\ Tokens(i) >= Cost
        /\ spent' = [spent EXCEPT ![i] = IF i \in forgotten THEN @ ELSE @ + Cost]
        /\ \/ /\ Cardinality(DOMAIN d) <= TableCap
              /\ cookies' = d
              /\ UNCHANGED forgotten
           \/ /\ Cardinality(DOMAIN d) > TableCap /\ Cardinality(NotFull(d)) <= TableCap
              /\ cookies' = Restrict(d, NotFull(d))
              /\ UNCHANGED forgotten
           \/ /\ Cardinality(DOMAIN d) > TableCap /\ Cardinality(NotFull(d)) > TableCap
              /\ \E old \in SUBSET (NotFull(d) \ {i}) :
                   /\ Evictable(d, i, old)
                   /\ cookies' = Restrict(d, NotFull(d) \ old)
                   /\ forgotten' = forgotten \union old
        /\ UNCHANGED <<now, failurevars>>

-----------------------------------------------------------------------------
(* The lockouts                                                              *)

Locked(i) == i \in DOMAIN failed /\ failed[i].until > now
Fails(i) == IF i \in DOMAIN failed THEN failed[i].fails ELSE 0

(* server_handshake, and the listener before it, refuse an IP locked out.    *)
Begin(i) ==
    /\ running[i] < Slots
    /\ ~Locked(i)
    /\ running' = [running EXCEPT ![i] = @ + 1]
    /\ UNCHANGED <<now, cookievars, failed, sessions, history>>

(* The exponent no float can take: 2.0 ** (fails - 5) raises OverflowError.  *)
Overflows(i) == Fails(i) + 1 >= FailuresToLock + Exponents

(* min(60.0, 2.0 ** (fails - 5)) *)
Backoff(fails) ==
    LET power == Powers[fails - FailuresToLock]
    IN  IF power < MaxBackoff THEN power ELSE MaxBackoff

Entry(i) ==
    LET fails == Fails(i) + 1
    IN  [fails |-> fails,
         until |-> IF fails >= FailuresToLock THEN now + Backoff(fails) ELSE 0,
         last |-> now]

(* Pruning forgets the test for a lockout, and with it whoever has not       *)
(* failed often enough yet (mutant).                                         *)
StaleUnlocked(d) == {j \in DOMAIN d : now - d[j].last > IdleLimit \/ d[j].until < now}

(* Long idle, or a lockout that is over. *)
Stale(d) ==
    {j \in DOMAIN d : \/ now - d[j].last > IdleLimit
                      \/ d[j].until > 0 /\ d[j].until < now}

(* Room is made for an IP that has its entry already (mutant). *)
MakesRoomAlways(i, out) ==
    IF Cardinality(DOMAIN failed) >= TableCap
    THEN \E k \in Oldest(failed, DOMAIN failed) : out = {k}
    ELSE out = {}

(* Room for one more: the entry that failed longest ago goes. *)
MakesRoom(i, out) ==
    IF Cardinality(DOMAIN failed) >= TableCap /\ i \notin DOMAIN failed
    THEN \E k \in Oldest(failed, DOMAIN failed) : out = {k}
    ELSE out = {}

(* The history counts no further than it takes for a lockout. *)
OneMore(n) == IF n < FailuresToLock THEN n + 1 ELSE n

(* record_failed_handshake. *)
Record(i) ==
    /\ streak' = [streak EXCEPT ![i] = OneMore(@)]
    /\ \/ Overflows(i) /\ UNCHANGED <<failed, count, tried>>
       \/ /\ ~Overflows(i)
          /\ tried' = [tried EXCEPT ![i] = now]
          /\ \E out \in SUBSET DOMAIN failed :
               /\ MakesRoom(i, out)
               /\ LET d == Put(Drop(failed, out), i, Entry(i))
                  IN  failed' = Drop(d, Stale(d))
               /\ count' = [j \in Ips |-> IF j = i THEN OneMore(count[i])
                                          ELSE IF j \in out THEN 0 ELSE count[j]]

(* A wrong PSK, a malformed frame, or no answer within the timeout. *)
HandshakeFails(i) ==
    /\ running[i] > 0
    /\ running' = [running EXCEPT ![i] = @ - 1]
    /\ Record(i)
    /\ UNCHANGED <<now, cookievars, sessions>>

(* The connection is lost: not counted. *)
HandshakeLost(i) ==
    /\ running[i] > 0
    /\ running' = [running EXCEPT ![i] = @ - 1]
    /\ UNCHANGED <<now, cookievars, failed, sessions, history>>

(* The failures are not forgotten (mutant). *)
HandshakeSucceedsKeeps(i) ==
    /\ running[i] > 0 /\ sessions[i] < MaxSessions
    /\ running' = [running EXCEPT ![i] = @ - 1]
    /\ sessions' = [sessions EXCEPT ![i] = @ + 1]
    /\ streak' = [streak EXCEPT ![i] = 0]
    /\ count' = [count EXCEPT ![i] = 0]
    /\ UNCHANGED <<now, cookievars, failed, tried>>

(* SESSION_OK was written: the failures are forgotten. *)
HandshakeSucceeds(i) ==
    /\ running[i] > 0 /\ sessions[i] < MaxSessions
    /\ running' = [running EXCEPT ![i] = @ - 1]
    /\ sessions' = [sessions EXCEPT ![i] = @ + 1]
    /\ failed' = Drop(failed, {i})
    /\ streak' = [streak EXCEPT ![i] = 0]
    /\ count' = [count EXCEPT ![i] = 0]
    /\ UNCHANGED <<now, cookievars, tried>>

SessionEnds(i) ==
    /\ sessions[i] > 0
    /\ sessions' = [sessions EXCEPT ![i] = @ - 1]
    /\ UNCHANGED <<now, cookievars, failed, running, history>>

(* A timeout raised by the session handler is recorded like a handshake's.   *)
HandlerTimesOut(i) ==
    /\ sessions[i] > 0
    /\ sessions' = [sessions EXCEPT ![i] = @ - 1]
    /\ Record(i)
    /\ UNCHANGED <<now, cookievars, running>>

-----------------------------------------------------------------------------

(* With the next tick the lockout is over, or the last failure is long ago.  *)
BackoffEnds(i) ==
    \/ i \in DOMAIN failed /\ failed[i].until > 0 /\ failed[i].until <= now + 1
    \/ now + 1 - tried[i] > IdleLimit

Tick ==
    /\ now < MaxTime
    /\ now' = now + 1
    /\ count' = [i \in Ips |-> IF BackoffEnds(i) THEN 0 ELSE count[i]]
    /\ UNCHANGED <<cookievars, failed, running, sessions, streak, tried>>

Next ==
    \/ Tick
    \/ \E i \in Ips :
         \/ GrantCookie(i) \/ RefuseCookie(i)
         \/ Begin(i) \/ HandshakeFails(i) \/ HandshakeLost(i) \/ HandshakeSucceeds(i)
         \/ SessionEnds(i) \/ HandlerTimesOut(i)

Spec == Init /\ [][Next]_vars

-----------------------------------------------------------------------------

CookieEntry == [tokens : 0 .. Capacity, last : 1 .. MaxTime]
FailureEntry == [fails : Nat \ {0}, until : Nat, last : 1 .. MaxTime]

(* The state has its type. *)
TypeOK ==
    /\ now \in 1 .. MaxTime
    /\ DOMAIN cookies \subseteq Ips /\ cookies \in [DOMAIN cookies -> CookieEntry]
    /\ DOMAIN failed \subseteq Ips /\ failed \in [DOMAIN failed -> FailureEntry]
    /\ running \in [Ips -> 0 .. Slots] /\ sessions \in [Ips -> 0 .. MaxSessions]
    /\ spent \in [Ips -> Nat] /\ forgotten \subseteq Ips
    /\ streak \in [Ips -> 0 .. FailuresToLock] /\ count \in [Ips -> 0 .. FailuresToLock]
    /\ tried \in [Ips -> 0 .. MaxTime]

(* However many IPs there are, each table holds at most its cap when a call  *)
(* returns: a refusal never adds an entry (_server.py:134-136 returns before *)
(* the cap is enforced), and the failure table makes room before it adds.    *)
TablesBounded ==
    Cardinality(DOMAIN cookies) <= TableCap /\ Cardinality(DOMAIN failed) <= TableCap

(* The lazy buckets, of which full ones are dropped, are the ideal buckets:  *)
(* an IP is refused only when its bucket is empty, and only the cap, with    *)
(* more than TableCap buckets in use, gives anyone tokens for free.          *)
Buckets == INSTANCE TokenBuckets WITH
    level <- [i \in Ips |-> Tokens(i)],
    Room <- TableCap
ImplementsBuckets == Buckets!Spec

(* What an IP was granted is within a full bucket and what flowed in since,  *)
(* unless its bucket was evicted.                                            *)
SpendingBounded == \A i \in Ips \ forgotten : spent[i] <= Capacity + (now - 1)

(* Nobody is locked out who did not fail often enough since it last          *)
(* succeeded, nor for longer than the cap from now on, whatever others do.   *)
LockoutsDeserved ==
    \A i \in Ips : Locked(i) => /\ streak[i] >= FailuresToLock
                               /\ failed[i].until <= now + MaxBackoff

(* Whoever fails often enough is locked out: no other IP's failures, and no  *)
(* pruning, make the server forget a count that is not idle, short of the    *)
(* cap.  (A failure whose back-off overflows is not recorded at all.)        *)
FailuresLock == \A i \in Ips : count[i] >= FailuresToLock => Locked(i)

(* A lockout in force is never shortened, except by the success of a         *)
(* handshake that was under way, or by eviction for a newcomer at the cap.   *)
LockoutStands ==
    [][\A i \in Ips :
          Locked(i) /\ failed[i].until > now' =>
              \/ i \in DOMAIN failed' /\ failed'[i].until >= failed[i].until
              \/ sessions'[i] > sessions[i]
              \/ /\ Cardinality(DOMAIN failed) = TableCap
                 /\ DOMAIN failed' \ DOMAIN failed # {}]_vars
=============================================================================
