---------------------------- MODULE LimiterProofs ----------------------------
(* Proofs about Limiter, for any set of IPs and any limits: the tables stay  *)
(* bounded, the lazy buckets are the ideal ones, and the lockouts hold those *)
(* they should and nobody else.                                              *)
EXTENDS Limiter, FiniteSetTheorems, TLAPS

(* What the constants are, without what is assumed of Powers. *)
LEMMA ConstantTypes ==
    /\ IsFiniteSet(Ips)
    /\ TableCap \in Nat \ {0} /\ Slots \in Nat \ {0} /\ Cost \in Nat \ {0}
    /\ FailuresToLock \in Nat \ {0} /\ Exponents \in Nat \ {0} /\ MaxBackoff \in Nat \ {0}
    /\ Capacity \in Nat /\ Capacity >= Cost
    /\ IdleLimit \in Nat /\ IdleLimit >= MaxBackoff
    /\ MaxSessions \in Nat /\ MaxTime \in Nat \ {0}
BY LimiterAssumption

USE ConstantTypes

-----------------------------------------------------------------------------
(* Types                                                                     *)

(* A back-off is at least a tick, at most the cap, and grows. *)
LEMMA BackoffRange ==
    ASSUME NEW n \in FailuresToLock .. FailuresToLock + Exponents - 1
    PROVE  /\ Backoff(n) \in 1 .. MaxBackoff
           /\ \A m \in FailuresToLock .. n : Backoff(m) <= Backoff(n)
<1>1. n - FailuresToLock \in 0 .. Exponents - 1
  OBVIOUS
<1>2. Backoff(n) \in 1 .. MaxBackoff
  <2>1. Powers[n - FailuresToLock] \in Nat \ {0}
    BY <1>1, LimiterAssumption
  <2>. QED
    BY <2>1 DEF Backoff
<1>3. ASSUME NEW m \in FailuresToLock .. n
      PROVE  Backoff(m) <= Backoff(n)
  <2>1. m - FailuresToLock \in 0 .. Exponents - 1 /\ m - FailuresToLock <= n - FailuresToLock
    OBVIOUS
  <2>2. Powers[m - FailuresToLock] <= Powers[n - FailuresToLock]
    BY <1>1, <2>1, LimiterAssumption
  <2>3. Powers[m - FailuresToLock] \in Nat /\ Powers[n - FailuresToLock] \in Nat
    BY <1>1, <2>1, LimiterAssumption
  <2>. QED
    BY <2>2, <2>3 DEF Backoff
<1>. QED
  BY <1>2, <1>3

(* What a bucket is worth is within its capacity. *)
LEMMA TokensRange ==
    ASSUME TypeOK, \A j \in DOMAIN cookies : cookies[j].last <= now, NEW i \in Ips
    PROVE  /\ Tokens(i) \in 0 .. Capacity
           /\ Tokens(i) < Cost => i \in DOMAIN cookies
<1>1. CASE i \in DOMAIN cookies
  <2>1. cookies[i].tokens \in 0 .. Capacity /\ cookies[i].last \in Nat /\ now \in Nat
    BY <1>1 DEF TypeOK, CookieEntry
  <2>2. cookies[i].tokens + (now - cookies[i].last) \in Nat
    BY <1>1, <2>1
  <2>. QED
    BY <1>1, <2>2 DEF Tokens, Refilled
<1>2. CASE i \notin DOMAIN cookies
  BY <1>2 DEF Tokens
<1>. QED
  BY <1>1, <1>2

-----------------------------------------------------------------------------
(* The inductive invariant                                                   *)

(* Nothing was touched in the future. *)
CookieInv == \A i \in DOMAIN cookies : cookies[i].last <= now

(* An entry has the lockout its count calls for, and counts failures that    *)
(* were made since the last success.                                         *)
FailureInv ==
    \A i \in DOMAIN failed :
        /\ failed[i].last <= now
        /\ failed[i].fails < FailuresToLock + Exponents
        /\ failed[i].fails < FailuresToLock => failed[i].until = 0
        /\ failed[i].fails >= FailuresToLock =>
             failed[i].until = failed[i].last + Backoff(failed[i].fails)
        /\ failed[i].fails <= streak[i] \/ streak[i] = FailuresToLock

(* A count that nothing has ended is in the table, and not stale. *)
CountInv ==
    \A i \in Ips : count[i] > 0 =>
        /\ i \in DOMAIN failed
        /\ tried[i] = failed[i].last
        /\ count[i] <= failed[i].fails
        /\ failed[i].until = 0 \/ failed[i].until > now
        /\ now - failed[i].last <= IdleLimit

LInv == TypeOK /\ CookieInv /\ FailureInv /\ CountInv /\ TablesBounded

LEMMA LInvInit == Init => LInv
<1>. SUFFICES ASSUME Init PROVE LInv
  OBVIOUS
<1>1. DOMAIN Empty = {}
  BY DEF Empty
<1>2. TypeOK
  BY <1>1 DEF Init, TypeOK, CookieEntry, FailureEntry
<1>3. CookieInv /\ FailureInv /\ CountInv
  BY <1>1 DEF Init, CookieInv, FailureInv, CountInv
<1>4. Cardinality({}) = 0
  BY FS_EmptySet
<1>5. TablesBounded
  BY <1>1, <1>4 DEF Init, TablesBounded
<1>. QED
  BY <1>2, <1>3, <1>5 DEF LInv

(* The failure part of the invariant needs nothing but the failure table,    *)
(* its histories and the clock.                                              *)
FailurePart ==
    /\ DOMAIN failed \subseteq Ips /\ failed \in [DOMAIN failed -> FailureEntry]
    /\ streak \in [Ips -> 0 .. FailuresToLock] /\ count \in [Ips -> 0 .. FailuresToLock]
    /\ tried \in [Ips -> 0 .. MaxTime]
    /\ FailureInv /\ CountInv
    /\ Cardinality(DOMAIN failed) <= TableCap

CookiePart ==
    /\ DOMAIN cookies \subseteq Ips /\ cookies \in [DOMAIN cookies -> CookieEntry]
    /\ spent \in [Ips -> Nat] /\ forgotten \subseteq Ips
    /\ CookieInv
    /\ Cardinality(DOMAIN cookies) <= TableCap

Places == running \in [Ips -> 0 .. Slots] /\ sessions \in [Ips -> 0 .. MaxSessions]

LEMMA LInvParts == LInv <=> now \in 1 .. MaxTime /\ FailurePart /\ CookiePart /\ Places
BY DEF LInv, TypeOK, TablesBounded, FailurePart, CookiePart, Places

(* Making room leaves at most TableCap entries once the new one is in. *)
LEMMA RoomForOne ==
    ASSUME FailurePart, NEW i \in Ips, NEW out \in SUBSET DOMAIN failed, MakesRoom(i, out)
    PROVE  /\ IsFiniteSet((DOMAIN failed \ out) \union {i})
           /\ Cardinality((DOMAIN failed \ out) \union {i}) <= TableCap
<1>. DEFINE D == DOMAIN failed
<1>1. IsFiniteSet(D) /\ Cardinality(D) \in Nat /\ Cardinality(D) <= TableCap
  BY FS_Subset, FS_CardinalityType DEF FailurePart
<1>2. CASE i \in D
  <2>1. out = {}
    BY <1>2 DEF MakesRoom
  <2>2. (D \ out) \union {i} = D
    BY <2>1, <1>2
  <2>. QED
    BY <2>2, <1>1
<1>3. CASE i \notin D /\ Cardinality(D) >= TableCap
  <2>1. PICK k \in D : out = {k}
    BY <1>3 DEF MakesRoom, Oldest
  <2>2. IsFiniteSet(D \ {k}) /\ Cardinality(D \ {k}) = Cardinality(D) - 1
    BY <1>1, <2>1, FS_RemoveElement
  <2>3. /\ IsFiniteSet((D \ {k}) \union {i})
        /\ Cardinality((D \ {k}) \union {i}) = Cardinality(D \ {k}) + 1
    BY <2>2, <1>3, FS_AddElement
  <2>. QED
    BY <1>1, <2>1, <2>2, <2>3
<1>4. CASE i \notin D /\ Cardinality(D) < TableCap
  <2>0. ~(Cardinality(D) >= TableCap)
    BY <1>4, <1>1
  <2>1. out = {} /\ D \ out = D
    BY <2>0 DEF MakesRoom
  <2>2. IsFiniteSet(D \union {i}) /\ Cardinality(D \union {i}) = Cardinality(D) + 1
    BY <1>1, <1>4, FS_AddElement
  <2>. QED
    BY <1>1, <1>4, <2>1, <2>2
<1>. QED
  BY <1>1, <1>2, <1>3, <1>4

(* What record_failed_handshake stores is an entry as the invariant wants    *)
(* it, and not one it prunes itself.                                         *)
LEMMA NewEntry ==
    ASSUME now \in 1 .. MaxTime, FailurePart, NEW i \in Ips, ~Overflows(i)
    PROVE  /\ Entry(i) \in FailureEntry
           /\ Entry(i).fails = Fails(i) + 1 /\ Fails(i) \in Nat
           /\ Entry(i).fails < FailuresToLock + Exponents
           /\ Entry(i).last = now
           /\ Entry(i).fails < FailuresToLock => Entry(i).until = 0
           /\ Entry(i).fails >= FailuresToLock =>
                Entry(i).until = now + Backoff(Entry(i).fails)
           /\ Entry(i).until = 0 \/ Entry(i).until > now
<1>0. failed \in [DOMAIN failed -> FailureEntry]
  BY DEF FailurePart
<1>1. Fails(i) \in Nat
  BY <1>0 DEF Fails, FailureEntry
<1>. DEFINE n == Fails(i) + 1
<1>2. n \in Nat \ {0} /\ n < FailuresToLock + Exponents
  BY <1>1 DEF Overflows
<1>3. CASE n >= FailuresToLock
  <2>1. Backoff(n) \in 1 .. MaxBackoff
    BY <1>2, <1>3, BackoffRange
  <2>2. Entry(i) = [fails |-> n, until |-> now + Backoff(n), last |-> now]
    BY <1>3 DEF Entry
  <2>. QED
    BY <2>1, <2>2, <1>1, <1>2, <1>3 DEF FailureEntry
<1>4. CASE n < FailuresToLock
  <2>1. ~(n >= FailuresToLock)
    BY <1>2, <1>4
  <2>2. Entry(i) = [fails |-> n, until |-> 0, last |-> now]
    BY <2>1 DEF Entry
  <2>. QED
    BY <2>2, <1>1, <1>2, <1>4 DEF FailureEntry
<1>. QED
  BY <1>2, <1>3, <1>4

(* The table once a failure was recorded, before it is pruned. *)
Recorded(i, out) == Put(Drop(failed, out), i, Entry(i))

LEMMA RecordedEntries ==
    ASSUME NEW i \in Ips, NEW out \in SUBSET DOMAIN failed
    PROVE  /\ DOMAIN Recorded(i, out) = (DOMAIN failed \ out) \union {i}
           /\ Recorded(i, out)[i] = Entry(i)
           /\ \A j \in DOMAIN failed \ out : j # i => Recorded(i, out)[j] = failed[j]
BY DEF Recorded, Put, Drop, Restrict

LEMMA RecordedTable ==
    ASSUME now \in 1 .. MaxTime, FailurePart, NEW i \in Ips, ~Overflows(i),
           NEW out \in SUBSET DOMAIN failed,
           failed' = Drop(Recorded(i, out), Stale(Recorded(i, out)))
    PROVE  /\ DOMAIN failed' = DOMAIN Recorded(i, out) \ Stale(Recorded(i, out))
           /\ \A j \in DOMAIN failed' : failed'[j] = Recorded(i, out)[j]
           /\ i \in DOMAIN failed'
<1>1. /\ DOMAIN failed' = DOMAIN Recorded(i, out) \ Stale(Recorded(i, out))
      /\ \A j \in DOMAIN failed' : failed'[j] = Recorded(i, out)[j]
  BY DEF Drop, Restrict
<1>2. Recorded(i, out)[i] = Entry(i) /\ i \in DOMAIN Recorded(i, out)
  BY RecordedEntries
<1>3. Entry(i).last = now /\ (Entry(i).until = 0 \/ Entry(i).until > now) /\ Entry(i).until \in Nat
  BY NewEntry DEF FailureEntry
<1>4. ~(now - now > IdleLimit)
  OBVIOUS
<1>5. i \notin Stale(Recorded(i, out))
  BY <1>2, <1>3, <1>4 DEF Stale
<1>. QED
  BY <1>1, <1>2, <1>5

LEMMA RecordKeeps ==
    ASSUME now \in 1 .. MaxTime, FailurePart, NEW i \in Ips, Record(i), now' = now
    PROVE  FailurePart'
<1>0. \A k \in 0 .. FailuresToLock : /\ OneMore(k) \in 1 .. FailuresToLock
                                     /\ OneMore(k) = k + 1 \/ OneMore(k) = FailuresToLock
                                     /\ k <= OneMore(k) /\ OneMore(k) <= k + 1
  BY DEF OneMore
<1>. DEFINE e == Entry(i)
            n == Fails(i)
<1>a. ~Overflows(i) =>
        /\ e \in FailureEntry /\ n \in Nat
        /\ e.fails = n + 1 /\ e.fails < FailuresToLock + Exponents
        /\ e.last = now
        /\ e.fails < FailuresToLock => e.until = 0
        /\ e.fails >= FailuresToLock => e.until = now + Backoff(e.fails)
        /\ e.until = 0 \/ e.until > now
  BY NewEntry
<1>b. /\ DOMAIN failed \subseteq Ips /\ failed \in [DOMAIN failed -> FailureEntry]
      /\ streak \in [Ips -> 0 .. FailuresToLock] /\ count \in [Ips -> 0 .. FailuresToLock]
      /\ tried \in [Ips -> 0 .. MaxTime]
      /\ FailureInv /\ CountInv
      /\ Cardinality(DOMAIN failed) <= TableCap
  BY DEF FailurePart
<1>1. CASE Overflows(i)
  <2>1. streak' = [streak EXCEPT ![i] = OneMore(@)] /\ UNCHANGED <<failed, count, tried>>
    BY <1>1 DEF Record
  <2>2. streak' \in [Ips -> 0 .. FailuresToLock]
    BY <2>1, <1>0, <1>b
  <2>3. \A j \in Ips : /\ streak[j] <= streak'[j]
                       /\ streak[j] = FailuresToLock => streak'[j] = FailuresToLock
    <3>1. ASSUME NEW j \in Ips
          PROVE  streak'[j] = IF j = i THEN OneMore(streak[j]) ELSE streak[j]
      BY <2>1, <1>b
    <3>2. ASSUME NEW j \in Ips
          PROVE  streak[j] \in 0 .. FailuresToLock
      BY <1>b
    <3>3. ASSUME NEW j \in Ips
          PROVE  /\ streak[j] <= streak'[j]
                 /\ streak[j] = FailuresToLock => streak'[j] = FailuresToLock
      <4>1. streak[j] \in 0 .. FailuresToLock
        BY <3>2
      <4>2. CASE j = i
        BY <4>1, <4>2, <3>1 DEF OneMore
      <4>3. CASE j # i
        BY <4>1, <4>3, <3>1
      <4>. QED
        BY <4>2, <4>3
    <3>. QED
      BY <3>3
  <2>4. FailureInv'
    <3>. SUFFICES ASSUME NEW j \in DOMAIN failed
                  PROVE  /\ failed[j].last <= now
                         /\ failed[j].fails < FailuresToLock + Exponents
                         /\ failed[j].fails < FailuresToLock => failed[j].until = 0
                         /\ failed[j].fails >= FailuresToLock =>
                              failed[j].until = failed[j].last + Backoff(failed[j].fails)
                         /\ failed[j].fails <= streak'[j] \/ streak'[j] = FailuresToLock
      BY <2>1 DEF FailureInv, Backoff
    <3>1. failed[j].fails \in Nat /\ j \in Ips
      BY <1>b DEF FailureEntry
    <3>2. streak[j] \in 0 .. FailuresToLock /\ streak'[j] \in 0 .. FailuresToLock
      BY <3>1, <2>2, <1>b
    <3>3. /\ streak[j] <= streak'[j]
          /\ streak[j] = FailuresToLock => streak'[j] = FailuresToLock
      BY <3>1, <2>3
    <3>4. /\ failed[j].last <= now
          /\ failed[j].fails < FailuresToLock + Exponents
          /\ failed[j].fails < FailuresToLock => failed[j].until = 0
          /\ failed[j].fails >= FailuresToLock =>
               failed[j].until = failed[j].last + Backoff(failed[j].fails)
          /\ failed[j].fails <= streak[j] \/ streak[j] = FailuresToLock
      BY <1>b DEF FailureInv
    <3>5. failed[j].fails <= streak'[j] \/ streak'[j] = FailuresToLock
      BY <3>1, <3>2, <3>3, <3>4
    <3>. QED
      BY <3>4, <3>5
  <2>5. CountInv'
    BY <2>1, <1>b DEF CountInv
  <2>. QED
    BY <2>1, <2>2, <2>4, <2>5, <1>b DEF FailurePart
<1>2. CASE ~Overflows(i)
  <2>1. PICK out \in SUBSET DOMAIN failed :
          /\ MakesRoom(i, out)
          /\ failed' = Drop(Recorded(i, out), Stale(Recorded(i, out)))
          /\ count' = [j \in Ips |-> IF j = i THEN OneMore(count[i])
                                     ELSE IF j \in out THEN 0 ELSE count[j]]
    BY <1>2 DEF Record, Recorded
  <2>2. /\ streak' = [streak EXCEPT ![i] = OneMore(@)]
        /\ tried' = [tried EXCEPT ![i] = now]
    BY <1>2 DEF Record
  <2>. DEFINE d == Recorded(i, out)
  <2>4. failed' = Drop(d, Stale(d))
    BY <2>1
  <2>3. /\ DOMAIN d = (DOMAIN failed \ out) \union {i}
        /\ d[i] = Entry(i)
        /\ \A j \in DOMAIN failed \ out : j # i => d[j] = failed[j]
    BY RecordedEntries
  <2>5. /\ DOMAIN d = (DOMAIN failed \ out) \union {i}
        /\ d[i] = Entry(i)
        /\ \A j \in DOMAIN failed \ out : j # i => d[j] = failed[j]
        /\ DOMAIN failed' = DOMAIN d \ Stale(d)
        /\ \A j \in DOMAIN failed' : failed'[j] = d[j]
        /\ i \in DOMAIN failed'
    BY <1>2, <2>3, <2>4, RecordedTable
  <2>. HIDE DEF d
  <2>6. failed' = [j \in DOMAIN failed' |-> failed'[j]]
    BY <2>4 DEF Drop, Restrict
  <2>7. DOMAIN failed' \subseteq Ips /\ failed' \in [DOMAIN failed' -> FailureEntry]
    <3>1. \A j \in DOMAIN failed' : j \in Ips /\ failed'[j] \in FailureEntry
      BY <1>2, <2>5, <1>a, <1>b
    <3>. QED
      BY <3>1, <2>6
  <2>8. /\ streak' \in [Ips -> 0 .. FailuresToLock] /\ count' \in [Ips -> 0 .. FailuresToLock]
        /\ tried' \in [Ips -> 0 .. MaxTime]
    <3>1. OneMore(streak[i]) \in 0 .. FailuresToLock /\ OneMore(count[i]) \in 0 .. FailuresToLock
      BY <1>0, <1>b
    <3>. QED
      BY <2>1, <2>2, <3>1, <1>b
  <2>9. FailureInv'
    <3>0. \A j \in Ips : streak'[j] = IF j = i THEN OneMore(streak[i]) ELSE streak[j]
      BY <2>2, <1>b
    <3>. SUFFICES ASSUME NEW j \in DOMAIN failed'
                  PROVE  /\ failed'[j].last <= now
                         /\ failed'[j].fails < FailuresToLock + Exponents
                         /\ failed'[j].fails < FailuresToLock => failed'[j].until = 0
                         /\ failed'[j].fails >= FailuresToLock =>
                              failed'[j].until = failed'[j].last + Backoff(failed'[j].fails)
                         /\ failed'[j].fails <= streak'[j] \/ streak'[j] = FailuresToLock
      BY DEF FailureInv, Backoff
    <3>1. CASE j = i
      <4>1. failed'[j] = Entry(i) /\ streak'[j] = OneMore(streak[i])
        BY <3>0, <3>1, <2>5
      <4>2. Fails(i) <= streak[i] \/ streak[i] = FailuresToLock
        BY <1>b DEF Fails, FailureInv
      <4>0. streak[i] \in 0 .. FailuresToLock /\ Fails(i) \in Nat
        BY <1>2, <1>a, <1>b
      <4>3. Fails(i) + 1 <= OneMore(streak[i]) \/ OneMore(streak[i]) = FailuresToLock
        BY <4>0, <4>2 DEF OneMore
      <4>. QED
        BY <4>1, <4>3, <1>2, <1>a
    <3>2. CASE j # i
      <4>1. j \in DOMAIN failed /\ failed'[j] = failed[j] /\ streak'[j] = streak[j]
        BY <3>0, <3>2, <2>5, <1>b
      <4>. QED
        BY <4>1, <1>b DEF FailureInv
    <3>. QED
      BY <3>1, <3>2
  <2>10. CountInv'
    <3>0. \A j \in Ips : tried'[j] = IF j = i THEN now ELSE tried[j]
      BY <2>2, <1>b
    <3>. SUFFICES ASSUME NEW j \in Ips, count'[j] > 0
                  PROVE  /\ j \in DOMAIN failed'
                         /\ tried'[j] = failed'[j].last
                         /\ count'[j] <= failed'[j].fails
                         /\ failed'[j].until = 0 \/ failed'[j].until > now
                         /\ now - failed'[j].last <= IdleLimit
      BY DEF CountInv
    <3>1. CASE j = i
      <4>1. failed'[j] = Entry(i) /\ tried'[j] = now /\ count'[j] = OneMore(count[i])
        BY <3>0, <3>1, <2>5, <2>1
      <4>2. count[i] <= Fails(i)
        BY <1>2, <1>a, <1>b DEF CountInv, Fails
      <4>0. count[i] \in 0 .. FailuresToLock /\ Fails(i) \in Nat
        BY <1>2, <1>a, <1>b
      <4>3. count'[j] <= Fails(i) + 1
        BY <4>0, <4>1, <4>2, <1>0
      <4>. QED
        BY <3>1, <4>1, <4>3, <2>5, <1>2, <1>a
    <3>2. CASE j # i
      <4>1. j \notin out /\ count'[j] = count[j] /\ tried'[j] = tried[j]
        BY <3>0, <3>2, <2>1
      <4>2. /\ j \in DOMAIN failed
            /\ tried[j] = failed[j].last
            /\ count[j] <= failed[j].fails
            /\ failed[j].until = 0 \/ failed[j].until > now
            /\ now - failed[j].last <= IdleLimit
        BY <4>1, <1>b DEF CountInv
      <4>3. j \in DOMAIN d /\ d[j] = failed[j]
        BY <4>1, <4>2, <3>2, <2>5
      <4>4. j \notin Stale(d)
        <5>1. failed[j].until \in Nat /\ failed[j].last \in 1 .. MaxTime
          BY <4>2, <1>b DEF FailureEntry
        <5>2. ~(now - failed[j].last > IdleLimit)
          BY <5>1, <4>2
        <5>3. ~(failed[j].until > 0 /\ failed[j].until < now)
          BY <5>1, <4>2
        <5>. QED
          BY <5>2, <5>3, <4>3 DEF Stale
      <4>5. j \in DOMAIN failed' /\ failed'[j] = failed[j]
        BY <4>3, <4>4, <2>5
      <4>. QED
        BY <4>1, <4>2, <4>5
    <3>. QED
      BY <3>1, <3>2
  <2>11. Cardinality(DOMAIN failed') <= TableCap
    <3>0. MakesRoom(i, out)
      BY <2>1
    <3>1. /\ IsFiniteSet((DOMAIN failed \ out) \union {i})
          /\ Cardinality((DOMAIN failed \ out) \union {i}) <= TableCap
      BY <3>0, RoomForOne
    <3>2. IsFiniteSet(DOMAIN d) /\ Cardinality(DOMAIN d) <= TableCap
      BY <3>1, <2>5
    <3>3. DOMAIN failed' \subseteq DOMAIN d
      BY <2>5
    <3>4. IsFiniteSet(DOMAIN failed') /\ Cardinality(DOMAIN failed') <= Cardinality(DOMAIN d)
      BY ONLY <3>2, <3>3, FS_Subset
    <3>5. Cardinality(DOMAIN failed') \in Nat /\ Cardinality(DOMAIN d) \in Nat
      BY ONLY <3>2, <3>4, FS_CardinalityType
    <3>. QED
      BY <3>2, <3>4, <3>5
  <2>. QED
    BY <2>7, <2>8, <2>9, <2>10, <2>11 DEF FailurePart
<1>. QED
  BY <1>1, <1>2

(* A tick ends the counts whose lockout it ends, and leaves the rest.        *)
LEMMA TickKeeps ==
    ASSUME now \in 1 .. MaxTime, FailurePart, Tick
    PROVE  FailurePart'
<1>1. /\ DOMAIN failed \subseteq Ips /\ failed \in [DOMAIN failed -> FailureEntry]
      /\ streak \in [Ips -> 0 .. FailuresToLock] /\ count \in [Ips -> 0 .. FailuresToLock]
      /\ tried \in [Ips -> 0 .. MaxTime]
      /\ FailureInv /\ CountInv
      /\ Cardinality(DOMAIN failed) <= TableCap
  BY DEF FailurePart
<1>2. /\ now' = now + 1 /\ failed' = failed /\ streak' = streak /\ tried' = tried
      /\ count' = [i \in Ips |-> IF BackoffEnds(i) THEN 0 ELSE count[i]]
  BY DEF Tick
<1>3. count' \in [Ips -> 0 .. FailuresToLock]
  BY <1>1, <1>2
<1>4. FailureInv'
  <2>. SUFFICES ASSUME NEW j \in DOMAIN failed
                PROVE  /\ failed[j].last <= now + 1
                       /\ failed[j].fails < FailuresToLock + Exponents
                       /\ failed[j].fails < FailuresToLock => failed[j].until = 0
                       /\ failed[j].fails >= FailuresToLock =>
                            failed[j].until = failed[j].last + Backoff(failed[j].fails)
                       /\ failed[j].fails <= streak[j] \/ streak[j] = FailuresToLock
    BY <1>2 DEF FailureInv, Backoff
  <2>1. failed[j].last \in Nat
    BY <1>1 DEF FailureEntry
  <2>. QED
    BY <2>1, <1>1 DEF FailureInv
<1>a. now' = now + 1 /\ failed' = failed /\ tried' = tried
  BY <1>2
<1>5. CountInv'
  <2>0. ASSUME NEW j \in Ips, count'[j] > 0
        PROVE  /\ j \in DOMAIN failed'
               /\ tried'[j] = failed'[j].last
               /\ count'[j] <= failed'[j].fails
               /\ failed'[j].until = 0 \/ failed'[j].until > now'
               /\ now' - failed'[j].last <= IdleLimit
    <3>1. count'[j] = count[j] /\ ~BackoffEnds(j)
      BY <2>0, <1>2
    <3>2. count[j] > 0
      BY <2>0, <3>1
    <3>3. /\ j \in DOMAIN failed /\ tried[j] = failed[j].last /\ count[j] <= failed[j].fails
      BY <3>2, <1>1 DEF CountInv
    <3>4. failed[j].until \in Nat /\ failed[j].last \in Nat
      BY <3>3, <1>1 DEF FailureEntry
    <3>5. /\ failed[j].until = 0 \/ failed[j].until > now + 1
          /\ now + 1 - failed[j].last <= IdleLimit
      BY <3>1, <3>3, <3>4 DEF BackoffEnds
    <3>6. now' - failed'[j].last <= IdleLimit
      BY <1>a, <3>4, <3>5
    <3>7. failed'[j].until = 0 \/ failed'[j].until > now'
      BY <1>a, <3>5
    <3>. QED
      BY <1>a, <3>1, <3>3, <3>6, <3>7
  <2>. QED
    BY <2>0 DEF CountInv
<1>. QED
  BY <1>1, <1>2, <1>3, <1>4, <1>5 DEF FailurePart

LEMMA SucceedsKeeps ==
    ASSUME now \in 1 .. MaxTime, FailurePart, NEW i \in Ips, HandshakeSucceeds(i)
    PROVE  FailurePart'
<1>1. /\ DOMAIN failed \subseteq Ips /\ failed \in [DOMAIN failed -> FailureEntry]
      /\ streak \in [Ips -> 0 .. FailuresToLock] /\ count \in [Ips -> 0 .. FailuresToLock]
      /\ tried \in [Ips -> 0 .. MaxTime]
      /\ FailureInv /\ CountInv
      /\ Cardinality(DOMAIN failed) <= TableCap
  BY DEF FailurePart
<1>2. /\ now' = now /\ tried' = tried
      /\ failed' = [j \in DOMAIN failed \ {i} |-> failed[j]]
      /\ streak' = [streak EXCEPT ![i] = 0] /\ count' = [count EXCEPT ![i] = 0]
  BY DEF HandshakeSucceeds, Drop, Restrict, cookievars
<1>3. /\ DOMAIN failed' = DOMAIN failed \ {i}
      /\ failed' \in [DOMAIN failed' -> FailureEntry]
      /\ \A j \in DOMAIN failed' : failed'[j] = failed[j] /\ j # i
  BY <1>1, <1>2
<1>4. /\ streak' \in [Ips -> 0 .. FailuresToLock] /\ count' \in [Ips -> 0 .. FailuresToLock]
      /\ \A j \in Ips : j # i => streak'[j] = streak[j] /\ count'[j] = count[j]
      /\ count'[i] = 0
  BY <1>1, <1>2
<1>5. FailureInv'
  <2>. SUFFICES ASSUME NEW j \in DOMAIN failed'
                PROVE  /\ failed'[j].last <= now
                       /\ failed'[j].fails < FailuresToLock + Exponents
                       /\ failed'[j].fails < FailuresToLock => failed'[j].until = 0
                       /\ failed'[j].fails >= FailuresToLock =>
                            failed'[j].until = failed'[j].last + Backoff(failed'[j].fails)
                       /\ failed'[j].fails <= streak'[j] \/ streak'[j] = FailuresToLock
    BY <1>2 DEF FailureInv, Backoff
  <2>1. failed'[j] = failed[j] /\ streak'[j] = streak[j] /\ j \in DOMAIN failed
    BY <1>1, <1>3, <1>4
  <2>. QED
    BY <2>1, <1>1 DEF FailureInv
<1>6. CountInv'
  <2>. SUFFICES ASSUME NEW j \in Ips, count'[j] > 0
                PROVE  /\ j \in DOMAIN failed'
                       /\ tried[j] = failed'[j].last
                       /\ count'[j] <= failed'[j].fails
                       /\ failed'[j].until = 0 \/ failed'[j].until > now
                       /\ now - failed'[j].last <= IdleLimit
    BY <1>2 DEF CountInv
  <2>1. j # i /\ count'[j] = count[j]
    BY <1>4
  <2>2. j \in DOMAIN failed
    BY <2>1, <1>1 DEF CountInv
  <2>3. j \in DOMAIN failed' /\ failed'[j] = failed[j]
    BY <2>1, <2>2, <1>3
  <2>. QED
    BY <2>1, <2>3, <1>1 DEF CountInv
<1>7. Cardinality(DOMAIN failed') <= TableCap
  <2>1. IsFiniteSet(DOMAIN failed)
    BY <1>1, FS_Subset
  <2>2. DOMAIN failed' \subseteq DOMAIN failed
    BY <1>3
  <2>3. IsFiniteSet(DOMAIN failed') /\ Cardinality(DOMAIN failed') <= Cardinality(DOMAIN failed)
    BY ONLY <2>1, <2>2, FS_Subset
  <2>. QED
    BY <1>1, <2>1, <2>3, FS_CardinalityType
<1>. QED
  BY <1>1, <1>2, <1>3, <1>4, <1>5, <1>6, <1>7 DEF FailurePart

-----------------------------------------------------------------------------
(* The cookies                                                               *)

(* The table once i was charged for a cookie, before it is pruned. *)
Charged(i) == Put(cookies, i, [tokens |-> Tokens(i) - Cost, last |-> now])

(* What is left to everybody once i was charged. *)
Left(i, j) == IF j = i THEN Tokens(i) - Cost ELSE Tokens(j)

LEMMA ChargedTable ==
    ASSUME LInv, NEW i \in Ips, Tokens(i) >= Cost
    PROVE  /\ DOMAIN Charged(i) = DOMAIN cookies \union {i}
           /\ Charged(i) = [j \in DOMAIN cookies \union {i} |-> Charged(i)[j]]
           /\ \A j \in DOMAIN Charged(i) :
                /\ Charged(i)[j] \in CookieEntry
                /\ Charged(i)[j].last <= now
                /\ Refilled(Charged(i), j) = Left(i, j)
           /\ \A j \in Ips : /\ Left(i, j) \in 0 .. Capacity
                             /\ j \notin DOMAIN Charged(i) => Left(i, j) = Capacity
           /\ NotFull(Charged(i)) = {j \in Ips : Left(i, j) < Capacity}
           /\ i \in NotFull(Charged(i))
<1>. DEFINE d == Charged(i)
<1>1. /\ TypeOK /\ now \in 1 .. MaxTime
      /\ \A j \in DOMAIN cookies : cookies[j].last <= now
      /\ DOMAIN cookies \subseteq Ips /\ cookies \in [DOMAIN cookies -> CookieEntry]
  BY DEF LInv, TypeOK, CookieInv
<1>2. \A j \in Ips : Tokens(j) \in 0 .. Capacity
  BY <1>1, TokensRange
<1>3. /\ DOMAIN d = DOMAIN cookies \union {i}
      /\ d = [j \in DOMAIN cookies \union {i} |-> d[j]]
      /\ d[i] = [tokens |-> Tokens(i) - Cost, last |-> now]
      /\ \A j \in DOMAIN cookies : j # i => d[j] = cookies[j]
  BY DEF Charged, Put
<1>. HIDE DEF d
<1>4. Tokens(i) - Cost \in 0 .. Capacity - 1
  BY <1>2
<1>5. ASSUME NEW j \in DOMAIN d
      PROVE  /\ d[j] \in CookieEntry
             /\ d[j].last <= now
             /\ Refilled(d, j) = Left(i, j)
  <2>1. CASE j = i
    <3>1. d[j] \in CookieEntry /\ d[j].last = now /\ d[j].tokens = Tokens(i) - Cost
      BY <2>1, <1>1, <1>3, <1>4 DEF CookieEntry
    <3>2. Refilled(d, j) = Tokens(i) - Cost
      BY <3>1, <1>1, <1>4 DEF Refilled
    <3>. QED
      BY <2>1, <3>1, <3>2, <1>1 DEF Left
  <2>2. CASE j # i
    <3>1. j \in DOMAIN cookies /\ d[j] = cookies[j]
      BY <2>2, <1>3
    <3>2. Refilled(d, j) = Tokens(j)
      BY <3>1 DEF Refilled, Tokens
    <3>. QED
      BY <2>2, <3>1, <3>2, <1>1 DEF Left
  <2>. QED
    BY <2>1, <2>2
<1>6. ASSUME NEW j \in Ips
      PROVE  /\ Left(i, j) \in 0 .. Capacity
             /\ j \notin DOMAIN d => Left(i, j) = Capacity
  BY <1>2, <1>3, <1>4 DEF Left, Tokens
<1>7. NotFull(d) = {j \in Ips : Left(i, j) < Capacity}
  <2>1. DOMAIN d \subseteq Ips
    BY <1>1, <1>3
  <2>. QED
    BY <2>1, <1>5, <1>6 DEF NotFull
<1>8. i \in NotFull(d)
  BY <1>4, <1>7 DEF Left
<1>. QED
  BY <1>3, <1>5, <1>6, <1>7, <1>8 DEF d

(* A cookie charged, with whatever is pruned or evicted for it, keeps the    *)
(* table well-formed and is one cookie taken from the ideal buckets.         *)
LEMMA GrantStep ==
    ASSUME LInv, NEW i \in Ips, GrantCookie(i)
    PROVE  CookiePart' /\ Buckets!Grant(i)
<1>. DEFINE d == Charged(i)
            full == [j \in Ips |-> Tokens(j)]
            left == [full EXCEPT ![i] = @ - Cost]
            active == {j \in Ips : left[j] < Capacity}
<1>1. /\ now \in 1 .. MaxTime /\ now' = now /\ Tokens(i) >= Cost
      /\ spent' = [spent EXCEPT ![i] = IF i \in forgotten THEN @ ELSE @ + Cost]
      /\ DOMAIN cookies \subseteq Ips
      /\ spent \in [Ips -> Nat] /\ forgotten \subseteq Ips
  BY DEF LInv, TypeOK, GrantCookie
<1>2. PICK old \in SUBSET (NotFull(d) \ {i}) :
        /\ \/ cookies' = d /\ Cardinality(DOMAIN d) <= TableCap /\ old = {}
           \/ /\ cookies' = Restrict(d, NotFull(d) \ old)
              /\ Cardinality(NotFull(d) \ old) <= TableCap
              /\ old = {} \/ Cardinality(NotFull(d) \ old) = TableCap
        /\ forgotten' = forgotten \union old
  <2>. HIDE DEF d
  <2>0. /\ {} \in SUBSET (NotFull(d) \ {i}) /\ NotFull(d) \ {} = NotFull(d)
        /\ forgotten \union {} = forgotten
    OBVIOUS
  <2>1. CASE Cardinality(DOMAIN d) <= TableCap /\ cookies' = d /\ forgotten' = forgotten
    <3>1. /\ \/ cookies' = d /\ Cardinality(DOMAIN d) <= TableCap /\ {} = {}
             \/ /\ cookies' = Restrict(d, NotFull(d) \ {})
                /\ Cardinality(NotFull(d) \ {}) <= TableCap
                /\ {} = {} \/ Cardinality(NotFull(d) \ {}) = TableCap
          /\ forgotten' = forgotten \union {}
      BY <2>1, <2>0
    <3>. QED
      BY <3>1, <2>0
  <2>2. CASE /\ Cardinality(NotFull(d)) <= TableCap
             /\ cookies' = Restrict(d, NotFull(d)) /\ forgotten' = forgotten
    <3>1. /\ cookies' = Restrict(d, NotFull(d) \ {})
          /\ Cardinality(NotFull(d) \ {}) <= TableCap
          /\ forgotten' = forgotten \union {}
      BY <2>2, <2>0
    <3>. QED
      BY <3>1, <2>0
  <2>3. CASE \E old \in SUBSET (NotFull(d) \ {i}) :
               /\ Evictable(d, i, old)
               /\ cookies' = Restrict(d, NotFull(d) \ old)
               /\ forgotten' = forgotten \union old
    <3>1. PICK old \in SUBSET (NotFull(d) \ {i}) :
               /\ Evictable(d, i, old)
               /\ cookies' = Restrict(d, NotFull(d) \ old)
               /\ forgotten' = forgotten \union old
      BY <2>3
    <3>2. Cardinality(NotFull(d) \ old) = TableCap /\ TableCap <= TableCap
      BY <3>1 DEF Evictable
    <3>. QED
      BY <3>1, <3>2
  <2>. QED
    BY <2>1, <2>2, <2>3 DEF GrantCookie, Charged, d
<1>3. /\ DOMAIN d = DOMAIN cookies \union {i}
      /\ d = [j \in DOMAIN cookies \union {i} |-> d[j]]
      /\ \A j \in DOMAIN d : /\ d[j] \in CookieEntry
                             /\ d[j].last <= now
                             /\ Refilled(d, j) = Left(i, j)
      /\ \A j \in Ips : /\ Left(i, j) \in 0 .. Capacity
                        /\ j \notin DOMAIN d => Left(i, j) = Capacity
      /\ NotFull(d) = {j \in Ips : Left(i, j) < Capacity}
      /\ i \in NotFull(d)
  BY <1>1, ChargedTable
<1>4. \A j \in Ips : left[j] = Left(i, j)
  BY DEF Left
<1>5. active = NotFull(d)
  BY <1>3, <1>4
<1>. HIDE DEF d, left
<1>6. /\ DOMAIN cookies' \subseteq DOMAIN d
      /\ cookies' = [j \in DOMAIN cookies' |-> cookies'[j]]
      /\ \A j \in DOMAIN cookies' : cookies'[j] = d[j]
  <2>1. CASE cookies' = d
    BY <2>1, <1>3
  <2>2. CASE cookies' = Restrict(d, NotFull(d) \ old)
    <3>1. NotFull(d) \subseteq DOMAIN d
      BY DEF NotFull
    <3>. QED
      BY <2>2, <3>1 DEF Restrict
  <2>. QED
    BY <1>2, <2>1, <2>2
<1>7. \/ (DOMAIN cookies' = DOMAIN d) /\ (old = {})
      \/ DOMAIN cookies' = NotFull(d) \ old
  BY <1>2 DEF Restrict
<1>8. CookiePart'
  <2>1. DOMAIN cookies' \subseteq Ips
    BY <1>1, <1>3, <1>6
  <2>2. cookies' \in [DOMAIN cookies' -> CookieEntry]
    BY <1>3, <1>6
  <2>3. CookieInv'
    BY <1>1, <1>3, <1>6 DEF CookieInv
  <2>4. Cardinality(DOMAIN cookies') <= TableCap
    BY <1>2 DEF Restrict
  <2>5. spent' \in [Ips -> Nat] /\ forgotten' \subseteq Ips
    <3>1. NotFull(d) \subseteq Ips
      BY <1>3
    <3>. QED
      BY <1>1, <1>2, <3>1
  <2>. QED
    BY <2>1, <2>2, <2>3, <2>4, <2>5 DEF CookiePart
<1>9. ASSUME NEW j \in Ips
      PROVE  Tokens(j)' = IF j \in old THEN Capacity ELSE left[j]
  <2>1. CASE j \in DOMAIN cookies'
    <3>1. cookies'[j] = d[j] /\ j \in DOMAIN d /\ now' = now
      BY <2>1, <1>1, <1>6
    <3>2. Tokens(j)' = Refilled(d, j)
      BY <2>1, <3>1 DEF Tokens, Refilled
    <3>3. j \notin old
      BY <2>1, <1>7
    <3>. QED
      BY <3>1, <3>2, <3>3, <1>3, <1>4
  <2>2. CASE j \notin DOMAIN cookies'
    <3>1. Tokens(j)' = Capacity
      BY <2>2 DEF Tokens
    <3>2. j \in old \/ j \notin DOMAIN d \/ j \notin NotFull(d)
      BY <2>2, <1>7
    <3>3. Left(i, j) \in 0 .. Capacity /\ (j \in NotFull(d) <=> Left(i, j) < Capacity)
      BY <1>3
    <3>4. j \in old \/ Left(i, j) = Capacity
      BY <3>2, <3>3, <1>3
    <3>. QED
      BY <3>1, <3>4, <1>4, <1>7, <2>2
  <2>. QED
    BY <2>1, <2>2
<1>10. Buckets!Grant(i)
  <2>1. Tokens(i) >= Cost /\ full[i] >= Cost
    BY <1>1
  <2>2. [j \in Ips |-> Tokens(j)]' = [j \in Ips |-> IF j \in old THEN Capacity ELSE left[j]]
    BY <1>9
  <2>3. /\ old \in SUBSET (active \ {i})
        /\ old = {} \/ Cardinality(active \ old) = TableCap
        /\ forgotten' = forgotten \union old
    BY <1>2, <1>5
  <2>4. \E lost \in SUBSET (active \ {i}) :
          /\ lost = {} \/ Cardinality(active \ lost) = TableCap
          /\ full' = [j \in Ips |-> IF j \in lost THEN Capacity ELSE left[j]]
          /\ forgotten' = forgotten \union lost
    BY <2>2, <2>3
  <2>5. \A S : Buckets!Cardinality(S) = Cardinality(S)
    BY Zenon DEF Cardinality, Buckets!Cardinality
  <2>. QED
    BY <1>1, <2>1, <2>4, <2>5 DEF Buckets!Grant, left, full
<1>. QED
  BY <1>8, <1>10

(* A refusal only brings the entry up to date. *)
LEMMA RefuseStep ==
    ASSUME LInv, NEW i \in Ips, RefuseCookie(i)
    PROVE  /\ CookiePart'
           /\ \A j \in Ips : Tokens(j)' = Tokens(j)
           /\ UNCHANGED <<now, spent, forgotten>>
<1>1. /\ TypeOK /\ now \in 1 .. MaxTime
      /\ \A j \in DOMAIN cookies : cookies[j].last <= now
      /\ DOMAIN cookies \subseteq Ips /\ cookies \in [DOMAIN cookies -> CookieEntry]
      /\ spent \in [Ips -> Nat] /\ forgotten \subseteq Ips
      /\ Cardinality(DOMAIN cookies) <= TableCap
  BY DEF LInv, TypeOK, CookieInv, TablesBounded
<1>2. /\ now' = now /\ spent' = spent /\ forgotten' = forgotten /\ Tokens(i) < Cost
      /\ cookies' = Put(cookies, i, [tokens |-> Tokens(i), last |-> now])
  BY DEF RefuseCookie
<1>3. Tokens(i) \in 0 .. Capacity /\ i \in DOMAIN cookies
  BY <1>1, <1>2, TokensRange
<1>4. /\ DOMAIN cookies' = DOMAIN cookies
      /\ cookies' = [j \in DOMAIN cookies' |-> cookies'[j]]
      /\ cookies'[i] = [tokens |-> Tokens(i), last |-> now]
      /\ \A j \in DOMAIN cookies : j # i => cookies'[j] = cookies[j]
  BY <1>2, <1>3 DEF Put
<1>5. cookies'[i] \in CookieEntry /\ cookies'[i].last = now /\ cookies'[i].tokens = Tokens(i)
  BY <1>1, <1>3, <1>4 DEF CookieEntry
<1>6. CookiePart'
  <2>1. cookies' \in [DOMAIN cookies' -> CookieEntry]
    BY <1>1, <1>4, <1>5
  <2>2. ASSUME NEW j \in DOMAIN cookies'
        PROVE  cookies'[j].last <= now'
    <3>1. now \in Nat /\ now' = now /\ j \in DOMAIN cookies
      BY <1>1, <1>2, <1>4
    <3>2. CASE j = i
      BY <1>5, <3>1, <3>2
    <3>3. CASE j # i
      <4>1. cookies'[j] = cookies[j]
        BY <1>4, <3>1, <3>3
      <4> QED
        BY <1>1, <3>1, <4>1
    <3> QED
      BY <3>2, <3>3
  <2>3. DOMAIN cookies' \subseteq Ips /\ Cardinality(DOMAIN cookies') <= TableCap
    BY <1>1, <1>4
  <2>. QED
    BY <1>1, <1>2, <2>1, <2>2, <2>3 DEF CookiePart, CookieInv
<1>7. ASSUME NEW j \in Ips
      PROVE  Tokens(j)' = Tokens(j)
  <2>1. CASE j = i
    <3>1. cookies'[j].tokens + (now' - cookies'[j].last) = Tokens(i)
      BY <2>1, <1>1, <1>2, <1>3, <1>5
    <3>. QED
      BY <2>1, <3>1, <1>3, <1>4 DEF Tokens, Refilled
  <2>2. CASE j # i
    BY <2>2, <1>2, <1>4 DEF Tokens, Refilled
  <2>. QED
    BY <2>1, <2>2
<1>. QED
  BY <1>2, <1>6, <1>7

(* With a tick a unit flows into every bucket that is not full. *)
LEMMA TickFills ==
    ASSUME LInv, Tick
    PROVE  /\ CookiePart'
           /\ \A j \in Ips : Tokens(j)' = IF Tokens(j) < Capacity THEN Tokens(j) + 1 ELSE Capacity
<1>1. /\ TypeOK /\ now \in 1 .. MaxTime
      /\ \A j \in DOMAIN cookies : cookies[j].last <= now
      /\ cookies \in [DOMAIN cookies -> CookieEntry]
      /\ CookiePart
  BY LInvParts DEF LInv, TypeOK, CookieInv
<1>2. now' = now + 1 /\ cookies' = cookies /\ spent' = spent /\ forgotten' = forgotten
  BY DEF Tick, cookievars
<1>3. CookiePart'
  <2>1. \A j \in DOMAIN cookies : cookies[j].last <= now + 1
    <3>1. ASSUME NEW j \in DOMAIN cookies
          PROVE  cookies[j].last <= now + 1
      <4>1. cookies[j].last \in Nat
        BY <1>1 DEF CookieEntry
      <4>. QED
        BY <1>1, <4>1
    <3>. QED
      BY <3>1
  <2>2. CookieInv'
    BY <2>1, <1>2 DEF CookieInv
  <2>. QED
    BY <1>1, <1>2, <2>2 DEF CookiePart
<1>4. ASSUME NEW j \in Ips
      PROVE  Tokens(j)' = IF Tokens(j) < Capacity THEN Tokens(j) + 1 ELSE Capacity
  <2>1. CASE j \in DOMAIN cookies
    <3>1. cookies[j].tokens \in Nat /\ cookies[j].last \in Nat /\ cookies[j].last <= now
      BY <2>1, <1>1 DEF CookieEntry
    <3>. DEFINE worth == cookies[j].tokens + (now - cookies[j].last)
    <3>2. /\ worth \in Nat
          /\ cookies[j].tokens + ((now + 1) - cookies[j].last) = worth + 1
      <4>1. \A a, b, c \in Nat : b <= c => /\ a + (c - b) \in Nat
                                          /\ a + ((c + 1) - b) = a + (c - b) + 1
        OBVIOUS
      <4>. DEFINE a == cookies[j].tokens
                  b == cookies[j].last
      <4>2. now \in Nat /\ a \in Nat /\ b \in Nat /\ b <= now
        BY <1>1, <3>1
      <4>. HIDE DEF a, b
      <4>3. a + (now - b) \in Nat /\ a + ((now + 1) - b) = a + (now - b) + 1
        BY ONLY <4>1, <4>2
      <4>. QED
        BY <4>3 DEF a, b
    <3>3. /\ Tokens(j) = IF worth < Capacity THEN worth ELSE Capacity
          /\ Tokens(j)' = IF worth + 1 < Capacity THEN worth + 1 ELSE Capacity
      BY <2>1, <3>2, <1>2 DEF Tokens, Refilled
    <3>. QED
      BY <3>2, <3>3
  <2>2. CASE j \notin DOMAIN cookies
    BY <2>2, <1>2 DEF Tokens
  <2>. QED
    BY <2>1, <2>2
<1>. QED
  BY <1>3, <1>4

-----------------------------------------------------------------------------
(* Every step                                                                *)

LEMMA LInvStep == LInv /\ [Next]_vars => LInv'
<1>. SUFFICES ASSUME LInv, [Next]_vars PROVE LInv'
  OBVIOUS
<1>1. /\ now \in 1 .. MaxTime /\ FailurePart /\ CookiePart /\ Places
      /\ running \in [Ips -> 0 .. Slots] /\ sessions \in [Ips -> 0 .. MaxSessions]
  BY LInvParts DEF Places
<1>0. now' \in 1 .. MaxTime /\ FailurePart' /\ CookiePart' /\ Places' => LInv'
  BY DEF LInv, TypeOK, TablesBounded, FailurePart, CookiePart, Places
<1>2. UNCHANGED <<now, failed, history>> => now' \in 1 .. MaxTime /\ FailurePart'
  BY <1>1 DEF FailurePart, FailureInv, CountInv, history, Backoff
<1>3. UNCHANGED <<now, cookievars>> => CookiePart'
  BY <1>1 DEF CookiePart, CookieInv, cookievars
<1>4. UNCHANGED <<running, sessions>> => Places'
  BY <1>1 DEF Places
<1>5. CASE Tick
  <2>1. now' \in 1 .. MaxTime /\ UNCHANGED <<running, sessions>>
    BY <1>1, <1>5 DEF Tick
  <2>. QED
    BY <2>1, <1>1, <1>4, <1>5, TickKeeps, TickFills, <1>0
<1>6. ASSUME NEW i \in Ips, GrantCookie(i) PROVE LInv'
  <2>1. UNCHANGED <<now, failurevars>>
    BY <1>6 DEF GrantCookie
  <2>. QED
    BY <2>1, <1>2, <1>4, <1>6, GrantStep, <1>0 DEF failurevars
<1>7. ASSUME NEW i \in Ips, RefuseCookie(i) PROVE LInv'
  <2>1. UNCHANGED <<now, failurevars>>
    BY <1>7 DEF RefuseCookie
  <2>. QED
    BY <2>1, <1>2, <1>4, <1>7, RefuseStep, <1>0 DEF failurevars
<1>8. ASSUME NEW i \in Ips, Begin(i) \/ HandshakeLost(i) \/ SessionEnds(i) PROVE LInv'
  <2>1. UNCHANGED <<now, cookievars, failed, history>>
    BY <1>8 DEF Begin, HandshakeLost, SessionEnds
  <2>2. Places'
    <3>1. running[i] \in 0 .. Slots /\ sessions[i] \in 0 .. MaxSessions
      BY <1>1
    <3>2. CASE Begin(i)
      BY <1>1, <3>1, <3>2 DEF Places, Begin
    <3>3. CASE HandshakeLost(i)
      BY <1>1, <3>1, <3>3 DEF Places, HandshakeLost
    <3>4. CASE SessionEnds(i)
      BY <1>1, <3>1, <3>4 DEF Places, SessionEnds
    <3>. QED
      BY <1>8, <3>2, <3>3, <3>4
  <2>. QED
    BY <2>1, <2>2, <1>2, <1>3, <1>0
<1>9. ASSUME NEW i \in Ips, HandshakeFails(i) \/ HandlerTimesOut(i) PROVE LInv'
  <2>1. UNCHANGED <<now, cookievars>> /\ Record(i)
    BY <1>9 DEF HandshakeFails, HandlerTimesOut
  <2>2. Places'
    <3>1. running[i] \in 0 .. Slots /\ sessions[i] \in 0 .. MaxSessions
      BY <1>1
    <3>2. CASE HandshakeFails(i)
      BY <1>1, <3>1, <3>2 DEF Places, HandshakeFails
    <3>3. CASE HandlerTimesOut(i)
      BY <1>1, <3>1, <3>3 DEF Places, HandlerTimesOut
    <3>. QED
      BY <1>9, <3>2, <3>3
  <2>. QED
    BY <2>1, <2>2, <1>1, <1>3, RecordKeeps, <1>0
<1>10. ASSUME NEW i \in Ips, HandshakeSucceeds(i) PROVE LInv'
  <2>1. UNCHANGED <<now, cookievars>>
    BY <1>10 DEF HandshakeSucceeds
  <2>2. Places'
    <3>1. running[i] \in 0 .. Slots /\ sessions[i] \in 0 .. MaxSessions
      BY <1>1
    <3>. QED
      BY <1>1, <1>10, <3>1 DEF Places, HandshakeSucceeds
  <2>. QED
    BY <2>1, <2>2, <1>1, <1>3, <1>10, SucceedsKeeps, <1>0
<1>11. CASE UNCHANGED vars
  BY <1>1, <1>2, <1>3, <1>4, <1>11, <1>0 DEF vars, cookievars, history
<1>. QED
  BY <1>5, <1>6, <1>7, <1>8, <1>9, <1>10, <1>11 DEF Next

(* Every step of the lazy buckets is one of the ideal ones, or none.         *)
LEMMA BucketsStep ==
    LInv /\ [Next]_vars =>
        [Buckets!Next]_<<now, [i \in Ips |-> Tokens(i)], spent, forgotten>>
<1>. DEFINE level == [i \in Ips |-> Tokens(i)]
            A == [Buckets!Next]_<<now, level, spent, forgotten>>
<1>. SUFFICES ASSUME LInv, [Next]_vars PROVE A
  OBVIOUS
<1>1. CASE Tick
  <2>1. now' = now + 1 /\ UNCHANGED <<spent, forgotten>>
    BY <1>1 DEF Tick, cookievars
  <2>2. level' = [i \in Ips |-> IF level[i] < Capacity THEN level[i] + 1 ELSE Capacity]
    BY <1>1, TickFills
  <2>3. Buckets!Tick
    BY <2>1, <2>2 DEF Buckets!Tick
  <2>. QED
    BY <2>3 DEF Buckets!Next
<1>2. ASSUME NEW i \in Ips, GrantCookie(i) PROVE A
  BY <1>2, GrantStep DEF Buckets!Next
<1>3. ASSUME NEW i \in Ips, RefuseCookie(i) PROVE A
  <2>1. level' = level /\ UNCHANGED <<now, spent, forgotten>>
    BY <1>3, RefuseStep
  <2>. QED
    BY <2>1
<1>4. CASE UNCHANGED <<now, cookievars>>
  <2>1. \A i \in Ips : Tokens(i)' = Tokens(i)
    BY <1>4 DEF Tokens, Refilled, cookievars
  <2>2. level' = level
    BY <2>1
  <2>. QED
    BY <2>2, <1>4 DEF cookievars
<1>. QED
  BY <1>1, <1>2, <1>3, <1>4
  DEF Next, vars, cookievars, Begin, HandshakeFails, HandshakeLost, HandshakeSucceeds,
      SessionEnds, HandlerTimesOut

-----------------------------------------------------------------------------
(* The theorems                                                              *)

LEMMA LInvAlways == Spec => []LInv
<1>1. Init => LInv
  BY LInvInit
<1>2. LInv /\ [Next]_vars => LInv'
  BY LInvStep
<1>. QED
  BY <1>1, <1>2, PTL DEF Spec

(* Type correctness. *)
THEOREM TypeCorrect == Spec => []TypeOK
BY LInvAlways, PTL DEF LInv

(* The tables never outgrow their cap, whoever calls how often: an attacker  *)
(* with many source addresses cannot exhaust the server's memory by cookies  *)
(* or failed handshakes (_server.py:138-154, _handshake.py:49-61).           *)
THEOREM TablesStayBounded == Spec => []TablesBounded
BY LInvAlways, PTL DEF LInv

(* Only who failed often enough since its last success is locked out, and    *)
(* never for longer than the cap.                                            *)
THEOREM LockoutsAreDeserved == Spec => []LockoutsDeserved
<1>1. LInv => LockoutsDeserved
  <2>. SUFFICES ASSUME LInv, NEW i \in Ips, Locked(i)
                PROVE  streak[i] >= FailuresToLock /\ failed[i].until <= now + MaxBackoff
    BY DEF LockoutsDeserved
  <2>1. /\ i \in DOMAIN failed /\ failed[i].until > now
        /\ failed[i] \in FailureEntry /\ now \in 1 .. MaxTime
        /\ streak[i] \in 0 .. FailuresToLock
    BY DEF Locked, LInv, TypeOK
  <2>2. /\ failed[i].fails \in Nat /\ failed[i].last \in Nat /\ failed[i].last <= now
        /\ failed[i].fails < FailuresToLock + Exponents
        /\ failed[i].fails < FailuresToLock => failed[i].until = 0
        /\ failed[i].fails >= FailuresToLock =>
             failed[i].until = failed[i].last + Backoff(failed[i].fails)
        /\ failed[i].fails <= streak[i] \/ streak[i] = FailuresToLock
    BY <2>1 DEF LInv, FailureInv, FailureEntry
  <2>3. failed[i].fails >= FailuresToLock
    BY <2>1, <2>2
  <2>4. Backoff(failed[i].fails) \in 1 .. MaxBackoff
    BY <2>2, <2>3, BackoffRange
  <2>. QED
    BY <2>1, <2>2, <2>3, <2>4
<1>. QED
  BY <1>1, LInvAlways, PTL

(* Whoever's recorded failures reach the limit is locked out, whatever the   *)
(* others did in between, short of eviction.                                 *)
THEOREM FailuresAreLocked == Spec => []FailuresLock
<1>1. LInv => FailuresLock
  <2>. SUFFICES ASSUME LInv, NEW i \in Ips, count[i] >= FailuresToLock
                PROVE  Locked(i)
    BY DEF FailuresLock
  <2>1. count[i] \in 0 .. FailuresToLock /\ now \in 1 .. MaxTime
    BY DEF LInv, TypeOK
  <2>2. /\ i \in DOMAIN failed /\ count[i] <= failed[i].fails
        /\ failed[i].until = 0 \/ failed[i].until > now
    BY <2>1 DEF LInv, CountInv
  <2>3. failed[i].fails \in Nat /\ failed[i].last \in 1 .. MaxTime
    BY <2>2 DEF LInv, TypeOK, FailureEntry
  <2>4. /\ failed[i].fails \in FailuresToLock .. FailuresToLock + Exponents - 1
        /\ failed[i].until = failed[i].last + Backoff(failed[i].fails)
    BY <2>1, <2>2, <2>3 DEF LInv, FailureInv
  <2>5. Backoff(failed[i].fails) \in 1 .. MaxBackoff
    BY <2>4, BackoffRange
  <2>. QED
    BY <2>2, <2>3, <2>4, <2>5 DEF Locked
<1>. QED
  BY <1>1, LInvAlways, PTL

(* The lazily filled table of cookies implements the ideal token buckets.    *)
THEOREM Refinement == Spec => ImplementsBuckets
<1>1. Init => Buckets!Init
  <2>. SUFFICES ASSUME Init PROVE Buckets!Init
    OBVIOUS
  <2>1. DOMAIN cookies = {}
    BY DEF Init, Empty
  <2>2. [i \in Ips |-> Tokens(i)] = [i \in Ips |-> Capacity]
    BY <2>1 DEF Tokens
  <2>. QED
    BY <2>2 DEF Init, Buckets!Init
<1>2. LInv /\ [Next]_vars =>
        [Buckets!Next]_<<now, [i \in Ips |-> Tokens(i)], spent, forgotten>>
  BY BucketsStep
<1>. QED
  BY <1>1, <1>2, LInvAlways, PTL DEF Spec, ImplementsBuckets, Buckets!Spec

(* A failure recorded for k shortens nobody's lockout, short of eviction.    *)
LEMMA RecordSpares ==
    ASSUME LInv, NEW k \in Ips, Record(k), NEW i \in Ips, Locked(i)
    PROVE  \/ i \in DOMAIN failed' /\ failed'[i].until >= failed[i].until
           \/ Cardinality(DOMAIN failed) = TableCap /\ DOMAIN failed' \ DOMAIN failed # {}
<1>1. /\ now \in 1 .. MaxTime /\ FailurePart /\ FailureInv
      /\ DOMAIN failed \subseteq Ips /\ failed \in [DOMAIN failed -> FailureEntry]
      /\ Cardinality(DOMAIN failed) <= TableCap
  BY LInvParts DEF LInv, FailurePart
<1>2. /\ i \in DOMAIN failed /\ failed[i].until > now
      /\ failed[i].until \in Nat /\ failed[i].fails \in Nat /\ failed[i].last \in Nat
      /\ failed[i].last <= now
      /\ failed[i].fails < FailuresToLock + Exponents
      /\ failed[i].fails < FailuresToLock => failed[i].until = 0
      /\ failed[i].fails >= FailuresToLock =>
           failed[i].until = failed[i].last + Backoff(failed[i].fails)
  BY <1>1 DEF Locked, FailureInv, FailureEntry
<1>. DEFINE n == failed[i].fails
<1>3. n \in FailuresToLock .. FailuresToLock + Exponents - 1 /\ failed[i].until = failed[i].last + Backoff(n)
  BY <1>1, <1>2
<1>4. Backoff(n) \in 1 .. MaxBackoff
  BY <1>3, BackoffRange
<1>5. CASE Overflows(k)
  BY <1>2, <1>5 DEF Record
<1>6. CASE ~Overflows(k)
  <2>1. PICK out \in SUBSET DOMAIN failed :
          /\ MakesRoom(k, out)
          /\ failed' = Drop(Recorded(k, out), Stale(Recorded(k, out)))
    BY <1>6 DEF Record, Recorded
  <2>. DEFINE d == Recorded(k, out)
  <2>2. /\ DOMAIN d = (DOMAIN failed \ out) \union {k}
        /\ d[k] = Entry(k)
        /\ \A j \in DOMAIN failed \ out : j # k => d[j] = failed[j]
    BY RecordedEntries
  <2>3. /\ DOMAIN failed' = DOMAIN d \ Stale(d)
        /\ \A j \in DOMAIN failed' : failed'[j] = d[j]
        /\ k \in DOMAIN failed'
    BY <1>1, <1>6, <2>1, RecordedTable
  <2>. HIDE DEF d
  <2>4. CASE i = k
    <3>1. Entry(k).fails = n + 1 /\ n + 1 < FailuresToLock + Exponents
      BY <1>1, <1>2, <1>6, <2>4, NewEntry DEF Fails
    <3>2. Entry(k).until = now + Backoff(n + 1)
      BY <1>1, <1>3, <1>6, <3>1, NewEntry
    <3>3. n + 1 \in FailuresToLock .. FailuresToLock + Exponents - 1 /\ n \in FailuresToLock .. n + 1
      BY <1>2, <1>3, <3>1
    <3>4. Backoff(n) <= Backoff(n + 1) /\ Backoff(n + 1) \in 1 .. MaxBackoff
      BY <3>3, BackoffRange
    <3>5. failed'[i].until = now + Backoff(n + 1)
      BY <2>2, <2>3, <2>4, <3>2
    <3>6. now + Backoff(n + 1) >= failed[i].until
      <4>1. \A a, b, c, e \in Nat : a <= b /\ c <= e => b + e >= a + c
        OBVIOUS
      <4>0. \A b \in 1 .. MaxBackoff : b \in Nat
        OBVIOUS
      <4>a. now \in Nat /\ failed[i].last \in Nat
        BY <1>1, <1>2
      <4>b. Backoff(n) \in Nat
        BY ONLY <4>0, <1>4
      <4>c. Backoff(n + 1) \in Nat
        BY ONLY <4>0, <3>4
      <4>2. now \in Nat /\ Backoff(n) \in Nat /\ Backoff(n + 1) \in Nat /\ failed[i].last \in Nat
        BY <4>a, <4>b, <4>c
      <4>3. now + Backoff(n + 1) >= failed[i].last + Backoff(n)
        BY ONLY <4>1, <4>2, <3>4, <1>2
      <4>. QED
        BY <4>3, <1>3
    <3>. QED
      BY <2>3, <2>4, <3>5, <3>6
  <2>5. CASE i # k /\ i \notin out
    <3>1. i \in DOMAIN d /\ d[i] = failed[i]
      BY <1>2, <2>2, <2>5
    <3>2. now - failed[i].last < MaxBackoff
      BY <1>1, <1>2, <1>3, <1>4
    <3>3. i \notin Stale(d)
      BY <1>1, <1>2, <3>1, <3>2 DEF Stale
    <3>4. i \in DOMAIN failed' /\ failed'[i].until = failed[i].until
      BY <2>3, <3>1, <3>3
    <3>. QED
      BY <1>2, <3>4
  <2>6. CASE i # k /\ i \in out
    <3>1. Cardinality(DOMAIN failed) >= TableCap /\ k \notin DOMAIN failed
      BY <2>1, <2>6 DEF MakesRoom
    <3>2. Cardinality(DOMAIN failed) \in Nat
      BY <1>1, FS_Subset, FS_CardinalityType
    <3>3. Cardinality(DOMAIN failed) = TableCap
      BY <1>1, <3>1, <3>2
    <3>. QED
      BY <2>3, <3>1, <3>3
  <2>. QED
    BY <2>4, <2>5, <2>6
<1>. QED
  BY <1>5, <1>6

(* A lockout stands: only a success, or a newcomer to a full table, ends it  *)
(* early.                                                                    *)
THEOREM LockoutStanding == Spec => LockoutStands
<1>. DEFINE Stands(i) ==
       Locked(i) /\ failed[i].until > now' =>
              \/ i \in DOMAIN failed' /\ failed'[i].until >= failed[i].until
              \/ sessions'[i] > sessions[i]
              \/ /\ Cardinality(DOMAIN failed) = TableCap
                 /\ DOMAIN failed' \ DOMAIN failed # {}
<1>1. ASSUME LInv, Next, NEW i \in Ips PROVE Stands(i)
  <2>. SUFFICES ASSUME Locked(i)
                PROVE  \/ i \in DOMAIN failed' /\ failed'[i].until >= failed[i].until
                       \/ sessions'[i] > sessions[i]
                       \/ /\ Cardinality(DOMAIN failed) = TableCap
                          /\ DOMAIN failed' \ DOMAIN failed # {}
    OBVIOUS
  <2>0. /\ i \in DOMAIN failed /\ failed[i].until \in Nat
        /\ sessions \in [Ips -> 0 .. MaxSessions]
    BY <1>1 DEF Locked, LInv, TypeOK, FailureEntry
  <2>1. CASE failed' = failed
    BY <2>0, <2>1
  <2>2. ASSUME NEW k \in Ips, Record(k)
        PROVE  \/ i \in DOMAIN failed' /\ failed'[i].until >= failed[i].until
               \/ /\ Cardinality(DOMAIN failed) = TableCap
                  /\ DOMAIN failed' \ DOMAIN failed # {}
    BY <1>1, <2>2, RecordSpares
  <2>3. ASSUME NEW k \in Ips, HandshakeSucceeds(k)
        PROVE  \/ i \in DOMAIN failed' /\ failed'[i].until >= failed[i].until
               \/ sessions'[i] > sessions[i]
    <3>1. CASE k = i
      <4>1. sessions'[i] = sessions[i] + 1
        BY <2>0, <2>3, <3>1 DEF HandshakeSucceeds
      <4>2. sessions[i] \in Nat
        BY <2>0
      <4>. QED
        BY <4>1, <4>2
    <3>2. CASE k # i
      <4>1. i \in DOMAIN failed' /\ failed'[i] = failed[i]
        BY <2>0, <2>3, <3>2 DEF HandshakeSucceeds, Drop, Restrict
      <4>. QED
        BY <2>0, <4>1
    <3>. QED
      BY <3>1, <3>2
  <2>. QED
    BY <1>1, <2>1, <2>2, <2>3
    DEF Next, Tick, GrantCookie, RefuseCookie, Begin, HandshakeFails, HandshakeLost,
        SessionEnds, HandlerTimesOut, failurevars
<1>2. LInv /\ [Next]_vars => [\A i \in Ips : Stands(i)]_vars
  BY <1>1
<1>. QED
  BY <1>2, LInvAlways, PTL DEF Spec, LockoutStands

(* What was granted and what is left add up to a full bucket and the inflow. *)
Balance == \A i \in Ips \ forgotten : spent[i] + Tokens(i) <= Capacity + (now - 1)

LEMMA BalanceStep == LInv /\ Balance /\ [Next]_vars => Balance'
<1>. SUFFICES ASSUME LInv, Balance, [Next]_vars PROVE Balance'
  OBVIOUS
<1>. DEFINE level == [i \in Ips |-> Tokens(i)]
<1>0. TypeOK /\ \A j \in DOMAIN cookies : cookies[j].last <= now
  BY DEF LInv, CookieInv
<1>a. \A i \in Ips : Tokens(i) \in 0 .. Capacity
  BY <1>0, TokensRange
<1>1. /\ now \in Nat \ {0} /\ spent \in [Ips -> Nat]
      /\ \A i \in Ips : Tokens(i) \in Nat
  BY <1>0, <1>a DEF TypeOK
<1>2. [Buckets!Next]_<<now, level, spent, forgotten>>
  BY BucketsStep
<1>3. ASSUME \A i \in Ips \ forgotten' : i \in Ips \ forgotten
                  /\ spent'[i] + level'[i] <= Capacity + (now' - 1)
      PROVE  Balance'
  <2>1. \A i \in Ips : level'[i] = Tokens(i)'
    OBVIOUS
  <2>. QED
    BY <1>3, <2>1 DEF Balance
<1>4. CASE Buckets!Tick
  <2>1. now' = now + 1 /\ spent' = spent /\ forgotten' = forgotten
    BY <1>4 DEF Buckets!Tick
  <2>2. ASSUME NEW i \in Ips \ forgotten'
        PROVE  spent'[i] + level'[i] <= Capacity + (now' - 1)
    <3>1. level'[i] = IF level[i] < Capacity THEN level[i] + 1 ELSE Capacity
      BY <1>4 DEF Buckets!Tick
    <3>2. spent[i] + level[i] <= Capacity + (now - 1) /\ level[i] \in Nat /\ spent[i] \in Nat
      BY <1>1, <2>1 DEF Balance
    <3>. QED
      BY <1>1, <2>1, <3>1, <3>2
  <2>. QED
    BY <1>3, <2>1, <2>2
<1>5. ASSUME NEW k \in Ips, Buckets!Grant(k) PROVE Balance'
  <2>. DEFINE left == [level EXCEPT ![k] = @ - Cost]
  <2>1. /\ now' = now /\ level[k] >= Cost
        /\ spent' = [spent EXCEPT ![k] = IF k \in forgotten THEN @ ELSE @ + Cost]
    BY <1>5 DEF Buckets!Grant
  <2>2. PICK lost :
          /\ level' = [j \in Ips |-> IF j \in lost THEN Capacity ELSE left[j]]
          /\ forgotten' = forgotten \union lost
    BY <1>5 DEF Buckets!Grant
  <2>3. ASSUME NEW i \in Ips \ forgotten'
        PROVE  spent'[i] + level'[i] <= Capacity + (now' - 1)
    <3>1. i \notin forgotten /\ level'[i] = left[i]
      BY <2>2
    <3>2. spent[i] + level[i] <= Capacity + (now - 1) /\ level[i] \in Nat /\ spent[i] \in Nat
      BY <1>1, <3>1 DEF Balance
    <3>3. CASE i = k
      <4>1. left[i] = level[i] - Cost /\ spent'[i] = spent[i] + Cost
        BY <1>1, <2>1, <3>1, <3>3
      <4>. QED
        BY <1>1, <2>1, <3>1, <3>2, <4>1
    <3>4. CASE i # k
      <4>1. left[i] = level[i] /\ spent'[i] = spent[i]
        BY <1>1, <2>1, <3>1, <3>4
      <4>. QED
        BY <2>1, <3>1, <3>2, <4>1
    <3>. QED
      BY <3>3, <3>4
  <2>. QED
    BY <1>3, <2>2, <2>3
<1>6. CASE UNCHANGED <<now, level, spent, forgotten>>
  <2>1. ASSUME NEW i \in Ips \ forgotten'
        PROVE  spent'[i] + level'[i] <= Capacity + (now' - 1)
    BY <1>6 DEF Balance
  <2>. QED
    BY <1>3, <1>6, <2>1
<1>. QED
  BY <1>2, <1>4, <1>5, <1>6 DEF Buckets!Next

(* No IP gets more cookies than a full bucket and the inflow since the start *)
(* pay for, unless its bucket was evicted.                                   *)
THEOREM SpendingIsBounded == Spec => []SpendingBounded
<1>1. Init => Balance
  <2>. SUFFICES ASSUME Init, NEW i \in Ips
                PROVE  spent[i] + Tokens(i) <= Capacity + (now - 1)
    BY DEF Balance
  <2>1. Tokens(i) = Capacity /\ spent[i] = 0 /\ now = 1
    BY DEF Init, Empty, Tokens
  <2>. QED
    BY <2>1
<1>2. LInv /\ Balance => SpendingBounded
  <2>. SUFFICES ASSUME LInv, Balance, NEW i \in Ips \ forgotten
                PROVE  spent[i] <= Capacity + (now - 1)
    BY DEF SpendingBounded
  <2>0. TypeOK /\ \A j \in DOMAIN cookies : cookies[j].last <= now
    BY DEF LInv, CookieInv
  <2>a. Tokens(i) \in 0 .. Capacity
    BY <2>0, TokensRange
  <2>1. now \in Nat /\ spent[i] \in Nat /\ Tokens(i) \in Nat
    BY <2>0, <2>a DEF TypeOK
  <2>2. spent[i] + Tokens(i) <= Capacity + (now - 1)
    BY DEF Balance
  <2>. QED
    BY <2>1, <2>2
<1>. QED
  BY <1>1, <1>2, BalanceStep, LInvAlways, PTL DEF Spec
=============================================================================
